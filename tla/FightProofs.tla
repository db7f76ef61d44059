---------------------------- MODULE FightProofs ----------------------------
(***************************************************************************)
(* Whatever the game does, loses or fails, and whenever the user stops the *)
(* task, a fight stays within what it was given: Fight's SpendsWithinParams*)
(* and TimesKept; once the plugin has ended it no battle follows:          *)
(* NoBattleAfterDrops; and when the game fails in nothing, it reports      *)
(* success for a reason: SuccessIsEarned.  For any params, any stock and   *)
(* any number of faults.                                                   *)
(***************************************************************************)
EXTENDS Fight, SequenceTheorems, TLAPS

\* The tasks whose limits bound what the fight costs.
Asked == Confirm \cup {"StartButton2"}

Has(q, t) == \E i \in 1..Len(q) : q[i] = t

Engaged == pc \in {"chosen", "before", "after", "subs"}
Chosen == pc \in {"chosen", "before"}

\* The page that leads to a confirmation.
PageOf(c) ==
  CASE c = "MedicineConfirm"         -> "UseMedicine"
    [] c = "ExpiringMedicineConfirm" -> "ExpiringMedicineCheck"
    [] OTHER                         -> "UseStone"

-----------------------------------------------------------------------------
\* What the argument needs of the types.
Shape ==
  /\ exec \in [Task -> Nat] /\ cur \in Task \cup {NoTask} /\ (Engaged => cur \in Task) /\ subs = <<>>
  /\ spent \in [stock : Nat, oldStock : Nat, stones : Nat]
  /\ finished \in Nat /\ drops \in Nat /\ lost \in Nat /\ screen \in Screen

\* No limit is ever above what set_params gave, and no counter above it.
LimitsHeld ==
  \A t \in Asked : /\ given[t] # NotGiven /\ given[t].type = "Pre"
                   /\ given[t].times \in Nat /\ given[t].times <= Params[t].times
                   /\ exec[t] <= Params[t].times

\* A task is recognised out of the list, and a confirmation stands alone in it.
Listed ==
  /\ Engaged => Has(names, cur)
  /\ \A c \in Confirm : (Has(names, c) => names = <<c>>) /\ ~Has(raw, c)

\* What was recognised is still on the screen when it is clicked, unless the
\* connection is lost; only a battle goes on by itself.
StillThere ==
  Chosen /\ cur \notin JustReturn \cup {"PRTS"} =>
    cur \in Visible \/ (screen = "offline" /\ cur # "GameStart")

\* A confirmation is looked for on the page it is meant for.
PagesMatch ==
  /\ Has(names, "MedicineConfirm") \/ (Engaged /\ cur = "UseMedicine") => screen # "stone"
  /\ Has(names, "ExpiringMedicineConfirm") \/ (Engaged /\ cur = "ExpiringMedicineCheck")
       => screen # "stone" /\ (screen = "medicine" => oldStock > 0)
  /\ Has(names, "StoneConfirm") \/ (Engaged /\ cur = "UseStone") => screen # "medicine"

\* Whatever was paid for was counted when it was taken up.
ToClick(ts) == IF pc = "before" /\ cur \in ts THEN 1 ELSE 0

SpentCounted ==
  /\ spent.stones + ToClick({"StoneConfirm"}) <= exec["StoneConfirm"]
  /\ spent.stock + ToClick({"MedicineConfirm"}) <= exec["MedicineConfirm"]
  /\ spent.stock + spent.oldStock + ToClick({"MedicineConfirm", "ExpiringMedicineConfirm"})
       <= exec["MedicineConfirm"] + exec["ExpiringMedicineConfirm"]

\* OfflineConfirm has given back its battle, or nothing will any more.
ConfirmedOffline ==
  \/ needExit \/ pc = "returned" \/ (pc = "top" /\ names = <<>>)
  \/ pc \in {"after", "subs"} /\ cur = "OfflineConfirm"
  \/ /\ names = <<"OfflineConfirmImpl">> /\ cur \in {"OfflineConfirm", "OfflineConfirmImpl"}
     /\ pc # "called" /\ ~(pc \in {"after", "subs"} /\ cur = "OfflineConfirmImpl")

\* The battles that may still be won or given back for what has happened so far.
InBattle == IF screen = "battle" THEN 1 ELSE 0
ToAbandon == IF screen = "prtsError" \/ (Chosen /\ cur = "AbandonAction") THEN 1 ELSE 0
ToGiveBack ==
  CASE screen = "title"                         -> 1
    [] screen = "offline" /\ ConfirmedOffline  -> 1
    [] screen = "offline" /\ ~ConfirmedOffline -> 2
    [] OTHER                                    -> 0

BattlesCounted ==
  finished + InBattle + ToClick({"StartButton2"}) + ToAbandon + ToGiveBack
    <= exec["StartButton2"] + 2 * drops + lost

FInv ==
  Shape /\ LimitsHeld /\ Listed /\ StillThere /\ PagesMatch /\ SpentCounted /\ BattlesCounted

-----------------------------------------------------------------------------
\* What Info says of a task.
LEMMA InfoFields ==
  ASSUME NEW t \in Task
  PROVE  /\ Info[t].just = (t \in JustReturn) /\ Info[t].sub = <<>>
         /\ Info[t].next = NextOf(t) /\ Info[t].exceededNext = ExceededNextOf(t)
         /\ Info[t].onErrorNext = OnErrorNextOf(t) /\ Info[t].reduces = ReducesOf(t)
BY DEF Info

\* The tasks that confirm nothing.
Others == Task \ Confirm

\* The lists that several tasks share name no confirmation.
LEMMA SharedLists ==
  /\ Themes \in Seq(Others) /\ Battle \in Seq(Others) /\ Pages \in Seq(Others)
  /\ <<"EndOfAction">> \in Seq(Others) /\ <<"StartButton1">> \in Seq(Others)
  /\ <<"OfflineConfirmImpl">> \in Seq(Others)
  /\ <<"FightMissionFailed", "EndOfAction">> \in Seq(Others)
BY DEF Themes, Battle, Pages, Others, Task, Confirm

\* Nor do those of the tasks of a battle ...
LEMMA NextOfBattleLists ==
  ASSUME NEW t \in TaskOfBattle PROVE NextOfBattle(t) \in Seq(Others)
<1>1. CASE t = "FightBegin"
  BY <1>1 DEF NextOfBattle, Others, Task, Confirm
<1>2. CASE t = "UsePrts"
  BY <1>2 DEF NextOfBattle, Others, Task, Confirm
<1>3. CASE t = "StartButton1"
  BY <1>3 DEF NextOfBattle, Others, Task, Confirm
<1>4. CASE t = "StartButton2"
  BY <1>4 DEF NextOfBattle, Others, Task, Confirm
<1>5. CASE t = "PRTS"
  BY <1>5, SharedLists DEF NextOfBattle
<1>6. CASE t = "WaitAfterPRTS"
  BY <1>6 DEF NextOfBattle, Others, Task, Confirm
<1>7. CASE t = "EndOfAction"
  BY <1>7 DEF NextOfBattle, Others, Task, Confirm
<1>8. CASE t = "ClickCorner"
  <2>1. "EndOfAction" \in Others
    BY DEF Others, Task, Confirm
  <2> QED
    BY <1>8, <2>1, SharedLists DEF NextOfBattle
<1> QED
  BY <1>1, <1>2, <1>3, <1>4, <1>5, <1>6, <1>7, <1>8 DEF TaskOfBattle

\* ... and those of the tasks that put right what went wrong.
LEMMA NextOfErrorsLists ==
  ASSUME NEW t \in Task \ (TaskOfBattle \cup TaskOfSanity)
  PROVE  NextOfErrors(t) \in Seq(Others)
<1>0. {"EndOfAction", "StartButton1", "OfflineConfirmImpl", "ReturnTo", "ClickCornerAfterPRTS_2"}
        \subseteq Others
  BY DEF Others, Task, Confirm
<1>1. CASE t = "PrtsErrorConfirm"
  BY <1>1 DEF NextOfErrors, Others, Task, Confirm
<1>2. CASE t = "AbandonAction"
  BY <1>2, <1>0, SharedLists DEF NextOfErrors
<1>3. CASE t = "FightMissionFailed"
  BY <1>3, <1>0, SharedLists DEF NextOfErrors
<1>4. CASE t = "OfflineConfirm"
  BY <1>4 DEF NextOfErrors, Others, Task, Confirm
<1>5. CASE t = "OfflineConfirmImpl"
  BY <1>5, <1>0, SharedLists DEF NextOfErrors
<1>6. CASE t = "GameStart"
  BY <1>6, <1>0, SharedLists DEF NextOfErrors
<1>7. CASE t = "Fight"
  BY <1>7 DEF NextOfErrors, Others, Task, Confirm
<1>8. CASE t = "GoLastBattle"
  BY <1>8 DEF NextOfErrors, Others, Task, Confirm
<1>9. CASE t = "ReturnTo"
  BY <1>9 DEF NextOfErrors, Others, Task, Confirm
<1>10. CASE t = "ClickCornerAfterPRTS_1"
  BY <1>10, <1>0, SharedLists DEF NextOfErrors
<1>11. CASE t = "ClickCornerAfterPRTS_2"
  BY <1>11, <1>0, SharedLists DEF NextOfErrors
<1>12. CASE t = "RestartGameAndContinue"
  BY <1>12, <1>0, SharedLists DEF NextOfErrors
<1>13. CASE t \in {"FightMissionFailedAndStop", "Stop"}
  BY <1>13 DEF NextOfErrors
<1> QED
  BY <1>1, <1>2, <1>3, <1>4, <1>5, <1>6, <1>7, <1>8, <1>9, <1>10, <1>11, <1>12, <1>13
     DEF Task, TaskOfBattle, TaskOfSanity

\* A confirmation is looked for on its page, and alone.
LEMMA ConfirmAlone ==
  ASSUME NEW t \in Task, NEW c \in Confirm, Has(NextOf(t), c)
  PROVE  t = PageOf(c) /\ NextOf(t) = <<c>>
<1>1. ASSUME NEW q \in Seq(Others), Has(q, c) PROVE FALSE
  BY <1>1 DEF Has, Others
<1>2. t \notin TaskOfBattle
  BY <1>1, NextOfBattleLists DEF NextOf
<1>3. t \in TaskOfSanity
  BY <1>1, <1>2, NextOfErrorsLists DEF NextOf
<1>4. NextOf(t) = NextOfSanity(t)
  BY <1>2, <1>3 DEF NextOf
<1>5. CASE t \in {"UseMedicine", "ExpiringMedicineCheck", "UseStone"}
  BY <1>4, <1>5 DEF NextOfSanity, Has, PageOf, Confirm
<1>6. CASE t \in {"MedicineConfirm", "ExpiringMedicineConfirm", "StoneConfirm", "NoStone", "CloseStonePage"}
  <2>1. NextOfSanity(t) \in Seq(Others)
    <3>1. {"StartButton1", "OfflineConfirm", "CloseStonePage", "Stop"} \subseteq Others
      BY DEF Others, Task, Confirm
    <3>2. NextOfSanity(t) \in {<<"StartButton1", "OfflineConfirm">>, <<"CloseStonePage">>, <<"Stop">>}
      BY <1>6 DEF NextOfSanity
    <3>3. <<"StartButton1", "OfflineConfirm">> \in Seq(Others) /\ <<"CloseStonePage">> \in Seq(Others)
          /\ <<"Stop">> \in Seq(Others)
      BY <3>1
    <3> QED
      BY <3>2, <3>3
  <2> QED
    BY <1>1, <1>4, <2>1
<1> QED
  BY <1>3, <1>5, <1>6 DEF TaskOfSanity

\* Nothing else leads to a confirmation.
LEMMA NoConfirmElse ==
  ASSUME NEW t \in Task, NEW c \in Confirm
  PROVE  ~Has(ExceededNextOf(t), c) /\ ~Has(OnErrorNextOf(t), c) /\ ~Has(<<"FightBegin">>, c) /\ ~Has(<<>>, c)
<1>1. ~Has(ExceededNextOf(t), c)
  BY DEF Has, ExceededNextOf, Confirm
<1>2. ~Has(OnErrorNextOf(t), c)
  BY DEF Has, OnErrorNextOf, Confirm
<1> QED
  BY <1>1, <1>2 DEF Has, Confirm

\* What a lost connection leads to.
LEMMA OfflineLists ==
  /\ NextOf("OfflineConfirm") = <<"OfflineConfirmImpl">>
  /\ ExceededNextOf("OfflineConfirm") = <<>> /\ ExceededNextOf("OfflineConfirmImpl") = <<>>
  /\ OnErrorNextOf("OfflineConfirm") = <<>> /\ OnErrorNextOf("OfflineConfirmImpl") = <<>>
BY DEF NextOf, NextOfErrors, TaskOfBattle, TaskOfSanity, ExceededNextOf, OnErrorNextOf

\* The entry of m_times_limit, if there is one, is what calc_time_limit returns.
LEMMA LimitIsEntry ==
  ASSUME NEW t \in Task, given[t] # NotGiven
  PROVE  PT!CalcTimeLimit(given, t) = given[t]
<1>1. PT!Entries(given, t) = {1}
  BY DEF PT!Entries
<1>2. PT!FirstEntry(given, t) = 1
  BY <1>1 DEF PT!FirstEntry
<1> QED
  BY <1>1, <1>2 DEF PT!CalcTimeLimit

\* The limits of set_params are of the Pre type.
LEMMA AskedParams ==
  ASSUME NEW t \in Asked
  PROVE  /\ Params[t].type = "Pre" /\ Params[t].times \in Nat /\ Params[t] # NotGiven
         /\ t \in Task /\ t \in PT!Counted
<1>1. t \in Task
  BY DEF Asked, Confirm, Task
<1>2. Params[t] = Pre(IF t = "MedicineConfirm" THEN Medicine ELSE IF t = "ExpiringMedicineConfirm" THEN Expiring
                      ELSE IF t = "StoneConfirm" THEN Stone ELSE Times)
  BY <1>1 DEF Params, Asked, Confirm
<1>3. Params[t].type = "Pre" /\ Params[t].times \in Nat
  BY <1>2, ParamsAssumption DEF Pre
<1>4. Params[t] # NotGiven
  BY <1>2, ParamsAssumption, NotGivenAssumption DEF Pre
<1>5. PT!Entries(Params, t) = {1}
  BY <1>1, <1>4 DEF PT!Entries
<1> QED
  BY <1>1, <1>3, <1>4, <1>5 DEF PT!Counted

-----------------------------------------------------------------------------
\* Neither the game nor what set_params gave changes.
GameStays == UNCHANGED <<given, needExit, screen, oldStock, spent, finished, drops, lost>>

\* What is counted is a number.
LEMMA CountsAreNat ==
  /\ InBattle \in 0..1 /\ ToAbandon \in 0..1 /\ ToGiveBack \in 0..2
  /\ InBattle' \in 0..1 /\ ToAbandon' \in 0..1 /\ ToGiveBack' \in 0..2
  /\ \A ts : ToClick(ts) \in 0..1 /\ ToClick(ts)' \in 0..1
BY DEF InBattle, ToAbandon, ToGiveBack, ToClick

\* What is spent and what is counted are numbers.
SpentAndExec ==
  /\ exec["StoneConfirm"] \in Nat /\ exec["MedicineConfirm"] \in Nat
  /\ exec["ExpiringMedicineConfirm"] \in Nat
  /\ spent.stones \in Nat /\ spent.stock \in Nat /\ spent.oldStock \in Nat

\* They are, in every shape a state may have.
LEMMA SpentIsNat == ASSUME Shape PROVE SpentAndExec
BY DEF Shape, Task, SpentAndExec

\* Nothing more is clicked that costs something.
LEMMA SpentNoMore ==
  ASSUME Shape, SpentCounted, UNCHANGED <<exec, spent>>, \A ts : ToClick(ts)' <= ToClick(ts)
  PROVE  SpentCounted'
BY SpentIsNat, CountsAreNat DEF SpentCounted, SpentAndExec

\* The battles still open.
Open == InBattle + ToClick({"StartButton2"}) + ToAbandon + ToGiveBack

\* No more battles are open, and none is won or given back.
LEMMA OpenNoMore ==
  ASSUME Shape, BattlesCounted, UNCHANGED <<finished, drops>>, lost' \in {lost, lost + 1},
         exec'["StartButton2"] = exec["StartButton2"], Open' <= Open
  PROVE  BattlesCounted'
<1> DEFINE o == Open
<1> DEFINE p == Open'
<1>1. o \in Nat /\ p \in Nat /\ p <= o
  BY CountsAreNat DEF Open
<1>2. finished \in Nat /\ drops \in Nat /\ lost \in Nat /\ exec["StartButton2"] \in Nat
  BY DEF Shape, Task
<1>3. finished + o <= exec["StartButton2"] + 2 * drops + lost
  BY <1>2, CountsAreNat DEF BattlesCounted, Open
<1>4. finished + p <= exec["StartButton2"] + 2 * drops + lost'
  <2> HIDE DEF o, p
  <2> QED
    BY <1>1, <1>2, <1>3
<1> QED
  BY <1>2, <1>4, CountsAreNat DEF BattlesCounted, Open

\* run() moves on with the same list and the same counters.
LEMMA MoveOn ==
  ASSUME FInv, GameStays, UNCHANGED <<names, raw, cur, exec, subs>>,
         \/ pc' \in {"missed", "returned"} /\ pc \notin {"called", "failed"}
            /\ (pc' = "missed" => needExit) /\ (pc' = "returned" => pc # "after")
         \/ pc = "after" /\ pc' = "subs"
         \/ pc = "missed" /\ pc' \in {"top", "failed"}
         \/ pc = "failed" /\ pc' = "returned"
  PROVE  FInv'
<1> USE DEF FInv, GameStays
<1>1. Shape'
  BY DEF Shape, Engaged
<1>2. LimitsHeld'
  BY DEF LimitsHeld
<1>3. Listed'
  BY DEF Listed, Engaged
<1>4. StillThere'
  BY DEF StillThere, Chosen, Visible
<1>5. PagesMatch'
  BY DEF PagesMatch, Engaged
<1>7. SpentCounted'
  <2>1. \A ts : ToClick(ts)' <= ToClick(ts)
    BY DEF ToClick
  <2> QED
    BY <2>1, SpentNoMore
<1>8. BattlesCounted'
  <2>1. ToAbandon' <= ToAbandon
    BY DEF ToAbandon, Chosen
  <2>2. ToClick({"StartButton2"})' <= ToClick({"StartButton2"})
    BY DEF ToClick
  <2>3. ConfirmedOffline => ConfirmedOffline'
    BY DEF ConfirmedOffline
  <2>4. ToGiveBack' <= ToGiveBack
    BY <2>3 DEF ToGiveBack
  <2>5. InBattle' = InBattle
    BY DEF InBattle
  <2>6. Open' <= Open
    BY <2>1, <2>2, <2>4, <2>5, CountsAreNat DEF Open
  <2> QED
    BY <2>6, OpenNoMore
<1> QED
  BY <1>1, <1>2, <1>3, <1>4, <1>5, <1>7, <1>8

\* A confirmation is the only one in its list.
LEMMA HasOne == ASSUME NEW t, NEW u, Has(<<t>>, u) PROVE u = t
BY DEF Has

\* run() goes on with another list.
LEMMA NewList ==
  ASSUME FInv, GameStays, UNCHANGED <<raw, cur, exec, subs>>, pc' = "top",
         \/ pc = "called" /\ names' = raw
         \/ pc \in {"chosen", "subs"} /\ names' = ExceededNextOf(cur)
         \/ pc = "subs" /\ names' = NextOf(cur)
  PROVE  FInv'
<1> USE DEF FInv, GameStays
<1>0. Engaged => cur \in Task
  BY DEF Shape
<1>c. \A c \in Confirm : Has(names', c) => names' = <<c>> /\ cur = PageOf(c) /\ Engaged
  BY <1>0, ConfirmAlone, NoConfirmElse DEF Listed, Engaged
<1>1. Shape'
  BY DEF Shape, Engaged
<1>2. LimitsHeld'
  BY DEF LimitsHeld
<1>3. Listed'
  BY <1>c DEF Listed, Engaged
<1>4. StillThere'
  BY DEF StillThere, Chosen
<1>5. PagesMatch'
  BY <1>c DEF PagesMatch, Engaged, Confirm, PageOf
<1>6. SpentCounted'
  <2>1. \A ts : ToClick(ts)' <= ToClick(ts)
    BY DEF ToClick
  <2> QED
    BY <2>1, SpentNoMore
<1>7. BattlesCounted'
  <2>1. ToAbandon' <= ToAbandon
    BY DEF ToAbandon, Chosen
  <2>2. ToClick({"StartButton2"})' <= ToClick({"StartButton2"})
    BY DEF ToClick
  <2>3. ConfirmedOffline => ConfirmedOffline'
    <3>1. names = <<"OfflineConfirmImpl">> /\ Engaged => cur = "OfflineConfirmImpl"
      BY HasOne DEF Listed
    <3> QED
      BY <3>1, OfflineLists DEF ConfirmedOffline, Engaged
  <2>4. ToGiveBack' <= ToGiveBack
    BY <2>3 DEF ToGiveBack
  <2>5. InBattle' = InBattle
    BY DEF InBattle
  <2>6. Open' <= Open
    BY <2>1, <2>2, <2>4, <2>5, CountsAreNat DEF Open
  <2> QED
    BY <2>6, OpenNoMore
<1> QED
  BY <1>1, <1>2, <1>3, <1>4, <1>5, <1>6, <1>7

\* A task that fails for good may have another list to fall back on.
LEMMA FallBack ==
  ASSUME FInv, GameStays, UNCHANGED <<names, cur, exec, subs>>, pc = "failed", pc' = "called",
         cur \in Task, raw' = OnErrorNextOf(cur), raw' # <<>>
  PROVE  FInv'
<1> USE DEF FInv, GameStays
<1>1. Shape'
  BY DEF Shape, Engaged
<1>2. LimitsHeld'
  BY DEF LimitsHeld
<1>3. Listed'
  BY NoConfirmElse DEF Listed, Engaged
<1>4. StillThere'
  BY DEF StillThere, Chosen
<1>5. PagesMatch'
  BY DEF PagesMatch, Engaged
<1>6. SpentCounted'
  <2>1. \A ts : ToClick(ts)' <= ToClick(ts)
    BY DEF ToClick
  <2> QED
    BY <2>1, SpentNoMore
<1>7. BattlesCounted'
  <2>1. ToAbandon' <= ToAbandon
    BY DEF ToAbandon, Chosen
  <2>2. ToClick({"StartButton2"})' <= ToClick({"StartButton2"})
    BY DEF ToClick
  <2>3. ConfirmedOffline => ConfirmedOffline'
    BY OfflineLists DEF ConfirmedOffline
  <2>4. ToGiveBack' <= ToGiveBack
    BY <2>3 DEF ToGiveBack
  <2>5. InBattle' = InBattle
    BY DEF InBattle
  <2>6. Open' <= Open
    BY <2>1, <2>2, <2>4, <2>5, CountsAreNat DEF Open
  <2> QED
    BY <2>6, OpenNoMore
<1> QED
  BY <1>1, <1>2, <1>3, <1>4, <1>5, <1>6, <1>7

\* A task is taken up, and counted.
LEMMA TakeStep ==
  ASSUME FInv, GameStays, PT!Take
  PROVE  FInv'
<1> USE DEF FInv, GameStays
<1>a. /\ pc = "chosen" /\ pc' = "before" /\ UNCHANGED <<raw, names, cur, subs>>
      /\ cur \in Task /\ Engaged /\ Engaged' /\ Chosen /\ Chosen'
  BY DEF PT!Take, PT!Goes, Shape, Engaged, Chosen
<1>b. exec' = IF cur \in PT!Counted THEN [exec EXCEPT ![cur] = @ + 1] ELSE exec
  BY DEF PT!Take
<1>c. exec \in [Task -> Nat] /\ exec' \in [Task -> Nat]
  BY <1>a, <1>b DEF Shape
<1>d. ASSUME cur \in Asked PROVE exec[cur] < given[cur].times
  <2>1. PT!CalcTimeLimit(given, cur) = given[cur]
    BY <1>a, <1>d, LimitIsEntry DEF LimitsHeld
  <2>2. ~PT!ExceededBefore(given[cur])
    BY <2>1 DEF PT!Take
  <2>3. given[cur].type = "Pre" /\ given[cur].times \in Nat
    BY <1>d DEF LimitsHeld
  <2> QED
    BY <1>a, <1>c, <2>2, <2>3 DEF PT!ExceededBefore
<1>e. \A t \in Asked : t \in Task /\ t \in PT!Counted /\ exec'[t] = exec[t] + (IF t = cur THEN 1 ELSE 0)
  BY <1>a, <1>b, <1>c, AskedParams
<1>f. \A ts \in SUBSET Asked : ToClick(ts) = 0 /\ ToClick(ts)' = (IF cur \in ts THEN 1 ELSE 0)
  BY <1>a DEF ToClick
<1>1. Shape'
  BY <1>a, <1>c DEF Shape, Engaged
<1>2. LimitsHeld'
  <2> SUFFICES ASSUME NEW t \in Asked PROVE exec'[t] <= Params[t].times
    BY DEF LimitsHeld
  <2>1. /\ given[t].times \in Nat /\ given[t].times <= Params[t].times
        /\ exec[t] <= Params[t].times /\ Params[t].times \in Nat
    BY AskedParams DEF LimitsHeld
  <2>2. exec[t] \in Nat /\ exec'[t] = exec[t] + (IF t = cur THEN 1 ELSE 0)
    BY <1>c, <1>e
  <2> QED
    BY <1>d, <2>1, <2>2
<1>3. Listed'
  BY <1>a DEF Listed
<1>4. StillThere'
  BY <1>a DEF StillThere, Visible
<1>5. PagesMatch'
  BY <1>a DEF PagesMatch
<1>6. SpentCounted'
  <2>1. /\ spent.stones + 0 <= exec["StoneConfirm"] /\ spent.stock + 0 <= exec["MedicineConfirm"]
        /\ spent.stock + spent.oldStock + 0 <= exec["MedicineConfirm"] + exec["ExpiringMedicineConfirm"]
    BY <1>f DEF SpentCounted, Asked, Confirm
  <2>2. SpentAndExec
    BY SpentIsNat
  <2>3. \A t \in Confirm : exec'[t] = exec[t] + (IF t = cur THEN 1 ELSE 0)
    BY <1>e DEF Asked
  <2>4. \A ts \in SUBSET Confirm : ToClick(ts)' = (IF cur \in ts THEN 1 ELSE 0)
    BY <1>f DEF Asked
  <2> QED
    BY <2>1, <2>2, <2>3, <2>4 DEF SpentCounted, Confirm, SpentAndExec
<1>7. BattlesCounted'
  <2>1. ToAbandon' = ToAbandon
    BY <1>a DEF ToAbandon
  <2>2. ToClick({"StartButton2"}) = 0 /\ ToClick({"StartButton2"})' = (IF cur = "StartButton2" THEN 1 ELSE 0)
    BY <1>f DEF Asked
  <2>3. ConfirmedOffline => ConfirmedOffline'
    BY <1>a DEF ConfirmedOffline
  <2>4. ToGiveBack' <= ToGiveBack
    BY <2>3 DEF ToGiveBack
  <2>5. InBattle' = InBattle
    BY DEF InBattle
  <2>6. exec'["StartButton2"] = exec["StartButton2"] + (IF cur = "StartButton2" THEN 1 ELSE 0)
    BY <1>e DEF Asked
  <2>7. finished \in Nat /\ drops \in Nat /\ lost \in Nat /\ exec["StartButton2"] \in Nat
    BY DEF Shape, Task
  <2> QED
    BY <2>1, <2>2, <2>4, <2>5, <2>6, <2>7, CountsAreNat DEF BattlesCounted
<1> QED
  BY <1>1, <1>2, <1>3, <1>4, <1>5, <1>6, <1>7

\* The only screens some tasks are recognised on.
LEMMA OnlyOn ==
  ASSUME screen \in Screen, NEW t \in Visible
  PROVE  /\ t = "StartButton2" => screen = "formation"
         /\ t = "AbandonAction" => screen = "prtsError"
         /\ t \in {"OfflineConfirm", "OfflineConfirmImpl"} => screen = "offline"
         /\ t = "GameStart" => screen = "title"
         /\ screen = "battle" => t = "PRTS"
         /\ t = "ExpiringMedicineCheck" => screen = "medicine" /\ oldStock > 0
         /\ t = "UseMedicine" => screen = "medicine"
         /\ t = "UseStone" => screen = "stone"
BY DEF Screen, Visible, Confirm

\* The picture is looked at: something is recognised out of the list, or nothing.
LEMMA LookStep ==
  ASSUME FInv, Look
  PROVE  FInv'
<1> USE DEF FInv
<1>a. /\ pc = "top" /\ pc' \in {"chosen", "missed"} /\ names # <<>>
      /\ UNCHANGED <<raw, names, exec, subs, given, needExit, screen, oldStock, spent, finished, drops>>
      /\ lost' \in {lost, lost + 1}
  BY DEF Look, PT!Look, PT!Recognise, PT!RecognisesNothing, PT!Goes, PT!countVars, PT!limitVars, purse
<1>d. pc' = "chosen" => cur' \in Task /\ Has(names, cur') /\ (cur' \in JustReturn \/ cur' \in Visible)
  <2>1. ASSUME NEW visible \in {Visible, {}}, PT!Recognise(visible)
        PROVE  cur' \in Task /\ Has(names, cur') /\ (cur' \in JustReturn \/ cur' \in Visible)
    <3>1. PICK t \in Task : PT!FirstMatch(names, visible, t) /\ cur' = t
      BY <2>1 DEF PT!Recognise
    <3> QED
      BY <3>1, InfoFields DEF PT!FirstMatch, PT!Matches, Has
  <2> QED
    BY <2>1 DEF Look, PT!Look, PT!RecognisesNothing, PT!Goes
<1>e. pc' = "missed" => cur' = cur
  BY DEF Look, PT!Look, PT!Recognise, PT!RecognisesNothing, PT!Goes
<1>b. CASE pc' = "missed" /\ cur' = cur
  <2>1. Shape'
    BY <1>a, <1>b DEF Shape, Engaged
  <2>2. LimitsHeld'
    BY <1>a DEF LimitsHeld
  <2>3. Listed'
    BY <1>a, <1>b DEF Listed, Engaged
  <2>4. StillThere'
    BY <1>a, <1>b DEF StillThere, Chosen
  <2>5. PagesMatch'
    BY <1>a, <1>b DEF PagesMatch, Engaged
  <2>6. SpentCounted'
    <3>1. \A ts : ToClick(ts)' <= ToClick(ts)
      BY <1>a, <1>b DEF ToClick
    <3> QED
      BY <1>a, <3>1, SpentNoMore
  <2>7. BattlesCounted'
    <3>1. ToAbandon' <= ToAbandon
      BY <1>a, <1>b DEF ToAbandon, Chosen
    <3>2. ToClick({"StartButton2"})' <= ToClick({"StartButton2"})
      BY <1>a, <1>b DEF ToClick
    <3>3. ConfirmedOffline => ConfirmedOffline'
      BY <1>a, <1>b DEF ConfirmedOffline
    <3>4. ToGiveBack' <= ToGiveBack
      BY <1>a, <3>3 DEF ToGiveBack
    <3>5. InBattle' = InBattle
      BY <1>a, <1>b DEF InBattle
    <3>6. Open' <= Open
      BY <3>1, <3>2, <3>4, <3>5, CountsAreNat DEF Open
    <3> QED
      BY <1>a, <3>6, OpenNoMore
  <2> QED
    BY <2>1, <2>2, <2>3, <2>4, <2>5, <2>6, <2>7
<1>c. CASE pc' = "chosen"
  <2>1. Shape'
    BY <1>a, <1>c, <1>d DEF Shape, Engaged
  <2>2. LimitsHeld'
    BY <1>a DEF LimitsHeld
  <2>3. Listed'
    BY <1>a, <1>c, <1>d DEF Listed, Engaged
  <2>4. StillThere'
    BY <1>a, <1>c, <1>d DEF StillThere, Visible
  <2>5. PagesMatch'
    BY <1>a, <1>c, <1>d DEF PagesMatch, Engaged, JustReturn, Visible, Confirm
  <2>6. SpentCounted'
    <3>1. \A ts : ToClick(ts)' <= ToClick(ts)
      BY <1>a, <1>c DEF ToClick
    <3> QED
      BY <1>a, <3>1, SpentNoMore
  <2>7. BattlesCounted'
    <3>1. ToAbandon' <= ToAbandon
      <4>1. cur' = "AbandonAction" => screen = "prtsError"
        BY <1>c, <1>d, OnlyOn DEF Shape, JustReturn
      <4> QED
        BY <1>a, <4>1 DEF ToAbandon, Chosen
    <3>2. ToClick({"StartButton2"})' <= ToClick({"StartButton2"})
      BY <1>a, <1>c DEF ToClick
    <3>3. ConfirmedOffline => ConfirmedOffline'
      <4>1. names = <<"OfflineConfirmImpl">> => cur' = "OfflineConfirmImpl"
        BY <1>c, <1>d, HasOne
      <4> QED
        BY <1>a, <1>c, <4>1 DEF ConfirmedOffline
    <3>4. ToGiveBack' <= ToGiveBack
      BY <1>a, <3>3 DEF ToGiveBack
    <3>5. InBattle' = InBattle
      BY <1>a, <1>c DEF InBattle
    <3>6. Open' <= Open
      BY <3>1, <3>2, <3>4, <3>5, CountsAreNat DEF Open
    <3> QED
      BY <1>a, <3>6, OpenNoMore
  <2> QED
    BY <2>1, <2>2, <2>3, <2>4, <2>5, <2>6, <2>7
<1> QED
  BY <1>a, <1>b, <1>c, <1>e

\* What a click does to the screen and to what is counted.
LEMMA ActFacts ==
  ASSUME FInv, Act
  PROVE  /\ pc = "before" /\ pc' = "after" /\ ~needExit /\ cur \in Task
         /\ UNCHANGED <<raw, names, cur, subs, given, needExit, finished, drops>>
         /\ exec' = [t \in Task |-> IF t \in ReducesOf(cur) /\ exec[t] > 0 THEN exec[t] - 1 ELSE exec[t]]
         /\ \/ screen' = Leads(cur) /\ Pays(cur) /\ lost' = lost
            \/ Leads(cur) # screen /\ lost' = lost + 1 /\ UNCHANGED <<screen, oldStock, spent>>
<1>1. /\ pc = "before" /\ pc' = "after" /\ ~needExit /\ cur \in Task
      /\ UNCHANGED <<raw, names, cur, subs, given, needExit>>
  BY DEF Act, PT!Act, PT!Goes, PT!limitVars, FInv, Shape, Engaged
<1>2. exec' = [t \in Task |-> IF t \in ReducesOf(cur) /\ exec[t] > 0 THEN exec[t] - 1 ELSE exec[t]]
  BY <1>1, InfoFields DEF Act, PT!Act
<1>3. UNCHANGED <<finished, drops>>
  BY DEF Act, TakesClick, LosesClick, faults
<1>4. \/ screen' = Leads(cur) /\ Pays(cur) /\ lost' = lost
      \/ Leads(cur) # screen /\ lost' = lost + 1 /\ UNCHANGED <<screen, oldStock, spent>>
  BY DEF Act, TakesClick, LosesClick, faults, purse
<1> QED
  BY <1>1, <1>2, <1>3, <1>4

\* What a confirmed page costs.
LEMMA PaysFor ==
  ASSUME Shape, NEW t \in Task, Pays(t)
  PROVE  /\ t \notin Confirm \/ screen \notin {"medicine", "stone"} => UNCHANGED <<oldStock, spent>>
         /\ spent' \in [stock : Nat, oldStock : Nat, stones : Nat]
         /\ t \in Confirm /\ screen = "medicine" =>
              /\ spent'.stones = spent.stones
              /\ spent'.stock + spent'.oldStock = spent.stock + spent.oldStock + 1
              /\ spent'.stock <= spent.stock + (IF oldStock > 0 THEN 0 ELSE 1)
         /\ t \in Confirm /\ screen = "stone" =>
              /\ spent'.stones = spent.stones + 1
              /\ spent'.stock = spent.stock /\ spent'.oldStock = spent.oldStock
<1>s. spent \in [stock : Nat, oldStock : Nat, stones : Nat]
  BY DEF Shape
<1>n. spent.stock \in Nat /\ spent.oldStock \in Nat /\ spent.stones \in Nat
  BY <1>s
<1>1. CASE t \in Confirm /\ screen = "medicine"
  <2>1. CASE oldStock > 0
    <3>1. spent' = [spent EXCEPT !.oldStock = @ + 1]
      BY <1>1, <2>1 DEF Pays
    <3>2. /\ spent'.stones = spent.stones /\ spent'.stock = spent.stock
          /\ spent'.oldStock = spent.oldStock + 1
          /\ spent' \in [stock : Nat, oldStock : Nat, stones : Nat]
      BY <1>s, <3>1
    <3> QED
      BY <1>1, <1>n, <2>1, <3>2
  <2>2. CASE ~(oldStock > 0)
    <3>1. spent' = [spent EXCEPT !.stock = @ + 1]
      BY <1>1, <2>2 DEF Pays
    <3>2. /\ spent'.stones = spent.stones /\ spent'.oldStock = spent.oldStock
          /\ spent'.stock = spent.stock + 1
          /\ spent' \in [stock : Nat, oldStock : Nat, stones : Nat]
      BY <1>s, <3>1
    <3> QED
      BY <1>1, <1>n, <2>2, <3>2
  <2> QED
    BY <2>1, <2>2
<1>2. CASE t \in Confirm /\ screen = "stone"
  <2>1. spent' = [spent EXCEPT !.stones = @ + 1]
    BY <1>2 DEF Pays
  <2>2. /\ spent'.stones = spent.stones + 1 /\ spent'.stock = spent.stock
        /\ spent'.oldStock = spent.oldStock
        /\ spent' \in [stock : Nat, oldStock : Nat, stones : Nat]
    BY <1>s, <2>1
  <2> QED
    BY <1>2, <2>2
<1>3. CASE t \notin Confirm \/ screen \notin {"medicine", "stone"}
  <2>1. UNCHANGED <<oldStock, spent>>
    BY <1>3 DEF Pays, purse
  <2> QED
    BY <1>3, <1>s, <2>1
<1> QED
  BY <1>1, <1>2, <1>3

\* A confirmed page closes; the page it was comes from the stage only.
LEMMA ScreenOf ==
  ASSUME NEW t \in Task, screen \in Screen
  PROVE  /\ Leads(t) \in Screen
         /\ Leads(t) \in {"medicine", "stone"} =>
              t = "StartButton1" \/ (Leads(t) = screen /\ t \notin Confirm)
         /\ Leads(t) # screen =>
              \/ Leads(t) \notin {"battle", "prtsError", "offline", "title"}
              \/ Leads(t) = "battle" /\ t = "StartButton2"
              \/ Leads(t) = "title" /\ t = "OfflineConfirmImpl"
<1>1. t \in Confirm => t # "StartButton1"
  BY DEF Confirm
<1>2. Entrance \in {"formation", "medicine", "stone", "noStone"}
  BY DEF Entrance
<1>5. Leads(t) \in Screen
  BY <1>2 DEF Leads, Screen
<1>3. Leads(t) \in {"medicine", "stone"} => t = "StartButton1" \/ (Leads(t) = screen /\ t \notin Confirm)
  BY <1>1 DEF Leads
<1>4. Leads(t) # screen =>
        \/ Leads(t) \notin {"battle", "prtsError", "offline", "title"}
        \/ Leads(t) = "battle" /\ t = "StartButton2"
        \/ Leads(t) = "title" /\ t = "OfflineConfirmImpl"
  BY <1>2 DEF Leads
<1> QED
  BY <1>3, <1>4, <1>5

\* The click, and what it gives back.
LEMMA ActStep ==
  ASSUME FInv, Act
  PROVE  FInv'
<1> USE DEF FInv
<1>a. /\ pc = "before" /\ pc' = "after" /\ ~needExit /\ cur \in Task
      /\ UNCHANGED <<raw, names, cur, subs, given, needExit, finished, drops>>
  BY ActFacts
<1>b. exec' = [t \in Task |-> IF t \in ReducesOf(cur) /\ exec[t] > 0 THEN exec[t] - 1 ELSE exec[t]]
  BY ActFacts
<1>c. \/ screen' = Leads(cur) /\ Pays(cur) /\ lost' = lost
      \/ Leads(cur) # screen /\ lost' = lost + 1 /\ UNCHANGED <<screen, oldStock, spent>>
  BY ActFacts
<1>d. Engaged /\ Engaged' /\ Chosen /\ ~Chosen'
  BY <1>a DEF Engaged, Chosen
<1>e. exec \in [Task -> Nat] /\ exec' \in [Task -> Nat] /\ \A t \in Task : exec'[t] <= exec[t]
  BY <1>b DEF Shape
<1>f. \A ts : ToClick(ts)' = 0 /\ ToClick(ts) = (IF cur \in ts THEN 1 ELSE 0)
  BY <1>a DEF ToClick
<1>g. \A c \in Confirm : Has(names, c) => cur = c
  BY <1>d, HasOne DEF Listed
<1>1. Shape'
  <2>1. spent' \in [stock : Nat, oldStock : Nat, stones : Nat]
    BY <1>a, <1>c, PaysFor DEF Shape
  <2>2. screen' \in Screen /\ lost' \in Nat
    BY <1>a, <1>c, ScreenOf DEF Shape
  <2> QED
    BY <1>a, <1>c, <1>e, <2>1, <2>2 DEF Shape, Engaged
<1>2. LimitsHeld'
  <2> SUFFICES ASSUME NEW t \in Asked PROVE exec'[t] <= Params[t].times
    BY <1>a DEF LimitsHeld
  <2>1. exec[t] <= Params[t].times /\ Params[t].times \in Nat /\ t \in Task
    BY AskedParams DEF LimitsHeld
  <2>2. exec[t] \in Nat /\ exec'[t] \in Nat /\ exec'[t] <= exec[t]
    BY <1>e, <2>1
  <2> QED
    BY <2>1, <2>2
<1>3. Listed'
  BY <1>a, <1>d DEF Listed
<1>4. StillThere'
  BY <1>d DEF StillThere
<1>5. PagesMatch'
  <2>1. screen' \in {"medicine", "stone"} => cur = "StartButton1" \/ UNCHANGED <<screen, oldStock>>
    BY <1>a, <1>c, ScreenOf, PaysFor DEF Shape
  <2>2. CASE cur = "StartButton1"
    BY <1>a, <1>g, <2>2 DEF PagesMatch, Confirm
  <2>3. CASE UNCHANGED <<screen, oldStock>>
    BY <1>a, <1>d, <2>3 DEF PagesMatch
  <2>4. CASE screen' \notin {"medicine", "stone"}
    BY <2>4 DEF PagesMatch
  <2> QED
    BY <2>1, <2>2, <2>3, <2>4
<1>6. SpentCounted'
  <2>1. \A c \in Confirm : c \in Task /\ exec'[c] = exec[c]
    <3>1. \A c \in Confirm : c \in Task /\ c \notin ReducesOf(cur)
      BY DEF ReducesOf, Confirm, Task
    <3> QED
      BY <1>b, <3>1
  <2>2. SpentAndExec
    BY SpentIsNat
  <2>3. CASE UNCHANGED spent
    BY <1>f, <2>1, <2>2, <2>3, CountsAreNat DEF SpentCounted, Confirm, SpentAndExec
  <2>4. CASE cur \in Confirm /\ screen = "medicine" /\ Pays(cur)
    <3>1. /\ spent'.stones = spent.stones
          /\ spent'.stock + spent'.oldStock = spent.stock + spent.oldStock + 1
          /\ spent'.stock <= spent.stock + (IF oldStock > 0 THEN 0 ELSE 1)
          /\ spent'.stones \in Nat /\ spent'.stock \in Nat /\ spent'.oldStock \in Nat
      BY <1>a, <2>4, PaysFor
    <3>2. cur = "MedicineConfirm" \/ (cur = "ExpiringMedicineConfirm" /\ oldStock > 0)
      BY <1>d, <2>4 DEF Listed, PagesMatch, Confirm
    <3> QED
      BY <1>f, <2>1, <2>2, <3>1, <3>2 DEF SpentCounted, Confirm, SpentAndExec
  <2>5. CASE cur \in Confirm /\ screen = "stone" /\ Pays(cur)
    <3>1. /\ spent'.stones = spent.stones + 1
          /\ spent'.stock = spent.stock /\ spent'.oldStock = spent.oldStock
      BY <1>a, <2>5, PaysFor
    <3>2. cur = "StoneConfirm"
      BY <1>d, <2>5 DEF Listed, PagesMatch, Confirm
    <3> QED
      BY <1>f, <2>1, <2>2, <3>1, <3>2 DEF SpentCounted, Confirm, SpentAndExec
  <2> QED
    BY <1>a, <1>c, <2>3, <2>4, <2>5, PaysFor
<1>7. BattlesCounted'
  <2> DEFINE x == exec["StartButton2"]
  <2> DEFINE y == exec'["StartButton2"]
  <2>1. x \in Nat /\ y \in Nat /\ finished \in Nat /\ drops \in Nat /\ lost \in Nat
    BY <1>e DEF Shape, Task
  <2>2. /\ y <= x /\ x <= y + 1
        /\ cur \notin {"AbandonAction", "OfflineConfirm", "GameStart"} => y = x
    <3>1. cur \notin {"AbandonAction", "OfflineConfirm", "GameStart"} => "StartButton2" \notin ReducesOf(cur)
      BY DEF ReducesOf
    <3>2. "StartButton2" \in Task
      BY DEF Task
    <3> QED
      BY <1>b, <1>e, <2>1, <3>1, <3>2
  <2>3. ToAbandon' = (IF screen' = "prtsError" THEN 1 ELSE 0)
    BY <1>d DEF ToAbandon
  <2>4. ToAbandon = (IF screen = "prtsError" \/ cur = "AbandonAction" THEN 1 ELSE 0)
    BY <1>d DEF ToAbandon
  <2>5. screen = "offline" /\ cur # "OfflineConfirmImpl" => ToGiveBack = 2
    <3>1. names = <<"OfflineConfirmImpl">> => cur = "OfflineConfirmImpl"
      BY <1>d, HasOne DEF Listed
    <3> QED
      BY <1>a, <3>1 DEF ToGiveBack, ConfirmedOffline
  <2>6. /\ cur = "StartButton2" => screen \in {"formation", "offline"}
        /\ cur = "AbandonAction" => screen \in {"prtsError", "offline"}
        /\ cur = "OfflineConfirm" => screen = "offline"
        /\ cur = "OfflineConfirmImpl" => screen = "offline"
        /\ cur = "GameStart" => screen = "title"
    BY <1>d, OnlyOn DEF StillThere, JustReturn, Shape
  <2>7. finished + Open <= x + 2 * drops + lost
    BY <2>1, CountsAreNat DEF BattlesCounted, Open
  <2>8. Open' + x + lost <= Open + y + lost'
    <3> DEFINE inBattle == InBattle
    <3> DEFINE inBattleNext == InBattle'
    <3> DEFINE toAbandon == ToAbandon
    <3> DEFINE toAbandonNext == ToAbandon'
    <3> DEFINE toGiveBack == ToGiveBack
    <3> DEFINE toGiveBackNext == ToGiveBack'
    <3> DEFINE toClick == ToClick({"StartButton2"})
    <3>1. inBattleNext = (IF screen' = "battle" THEN 1 ELSE 0) /\ inBattle = (IF screen = "battle" THEN 1 ELSE 0)
      BY DEF InBattle
    <3>2. /\ screen = "title" => toGiveBack = 1
          /\ screen = "offline" => toGiveBack \in 1..2
          /\ screen \notin {"title", "offline"} => toGiveBack = 0
          /\ screen' = "title" => toGiveBackNext = 1
          /\ screen' = "offline" => toGiveBackNext \in 1..2
          /\ screen' \notin {"title", "offline"} => toGiveBackNext = 0
      BY DEF ToGiveBack
    <3>3. /\ toAbandonNext = (IF screen' = "prtsError" THEN 1 ELSE 0)
          /\ toAbandon = (IF screen = "prtsError" \/ cur = "AbandonAction" THEN 1 ELSE 0)
          /\ toClick = (IF cur = "StartButton2" THEN 1 ELSE 0)
          /\ screen = "offline" /\ cur # "OfflineConfirmImpl" => toGiveBack = 2
      BY <1>f, <2>3, <2>4, <2>5
    <3>4. Open = inBattle + toClick + toAbandon + toGiveBack
          /\ Open' = inBattleNext + toAbandonNext + toGiveBackNext
      BY <1>f, CountsAreNat DEF Open
    <3>5. cur = "OfflineConfirm" /\ screen' = "offline" => toGiveBackNext = 1
      BY <1>a DEF ToGiveBack, ConfirmedOffline
    <3>6. \/ screen' = Leads(cur) /\ lost' = lost
          \/ Leads(cur) # screen /\ lost' = lost + 1 /\ screen' = screen
      BY <1>c
    <3>8. /\ cur = "StartButton2" /\ screen = "formation" => Leads(cur) = "battle"
          /\ cur = "AbandonAction" /\ screen = "prtsError" => Leads(cur) = "failed"
          /\ cur = "OfflineConfirmImpl" /\ screen = "offline" => Leads(cur) = "title"
          /\ cur = "GameStart" /\ screen = "title" => Leads(cur) = "lobby"
          /\ screen = "offline" /\ cur # "OfflineConfirmImpl" => Leads(cur) = screen
      BY DEF Leads
    <3>9. screen' # screen =>
            \/ screen' \notin {"battle", "prtsError", "offline", "title"}
            \/ screen' = "battle" /\ cur = "StartButton2"
            \/ screen' = "title" /\ cur = "OfflineConfirmImpl"
      BY <1>a, <3>6, ScreenOf DEF Shape
    <3> HIDE DEF x, y, inBattle, inBattleNext, toAbandon, toAbandonNext, toGiveBack, toGiveBackNext,
                 toClick, FInv
    <3>10. CASE cur = "StartButton2"
      BY <2>1, <2>2, <2>6, <3>1, <3>2, <3>3, <3>4, <3>6, <3>8, <3>10
    <3>11. CASE cur = "AbandonAction"
      BY <2>1, <2>2, <2>6, <3>1, <3>2, <3>3, <3>4, <3>6, <3>8, <3>11
    <3>12. CASE cur = "OfflineConfirm"
      BY <2>1, <2>2, <2>6, <3>1, <3>2, <3>3, <3>4, <3>5, <3>6, <3>8, <3>12
    <3>13. CASE cur = "GameStart"
      BY <2>1, <2>2, <2>6, <3>1, <3>2, <3>3, <3>4, <3>6, <3>8, <3>13
    <3>14. CASE cur = "OfflineConfirmImpl"
      BY <2>1, <2>2, <2>6, <3>1, <3>2, <3>3, <3>4, <3>6, <3>8, <3>14
    <3>15. CASE cur \notin {"StartButton2", "AbandonAction", "OfflineConfirm", "GameStart", "OfflineConfirmImpl"}
      BY <2>1, <2>2, <3>1, <3>2, <3>3, <3>4, <3>6, <3>9, <3>15
    <3> QED
      BY <3>10, <3>11, <3>12, <3>13, <3>14, <3>15
  <2>9. Open \in Nat /\ Open' \in Nat /\ lost' \in Nat
    BY <1>c, <2>1, CountsAreNat DEF Open
  <2>10. finished + Open' <= y + 2 * drops + lost'
    <3> DEFINE o == Open
    <3> DEFINE p == Open'
    <3> DEFINE m == lost'
    <3>1. finished + o <= x + 2 * drops + lost /\ p + x + lost <= o + y + m /\ o \in Nat /\ p \in Nat /\ m \in Nat
      BY <2>7, <2>8, <2>9
    <3>2. finished + p <= y + 2 * drops + m
      <4> HIDE DEF o, p, m, x, y, FInv
      <4> QED
        BY <2>1, <3>1
    <3> QED
      BY <3>2
  <2> QED
    BY <1>a, <2>1, <2>9, <2>10, CountsAreNat DEF BattlesCounted, Open
<1> QED
  BY <1>1, <1>2, <1>3, <1>4, <1>5, <1>6, <1>7

\* The game goes on while the task stays where it is.
LEMMA GameSteps ==
  ASSUME FInv, UNCHANGED <<pc, raw, names, cur, exec, subs, spent, oldStock>>, UNCHANGED given \/ StopTask,
         needExit' \in {needExit, TRUE}, lost' = lost,
         \/ UNCHANGED <<screen, finished, drops>>
         \/ screen = "battle" /\ screen' = "result" /\ finished' = finished + 1 /\ drops' = drops
         \/ screen = "battle" /\ screen' = "prtsError" /\ finished' = finished /\ drops' = drops
         \/ screen \notin {"offline", "title"} /\ screen' = "offline" /\ finished' = finished /\ drops' = drops + 1
  PROVE  FInv'
<1> USE DEF FInv
<1>a. UNCHANGED <<Engaged, Chosen>> /\ \A ts : UNCHANGED ToClick(ts)
  BY DEF Engaged, Chosen, ToClick
<1>1. Shape'
  BY <1>a DEF Shape, Screen
<1>2. LimitsHeld'
  <2>1. CASE UNCHANGED given
    BY <2>1 DEF LimitsHeld
  <2>2. CASE StopTask
    <3> SUFFICES ASSUME NEW t \in Asked
                 PROVE  /\ given'[t] # NotGiven /\ given'[t].type = "Pre" /\ given'[t].times \in Nat
                        /\ given'[t].times <= Params[t].times
      BY DEF LimitsHeld
    <3>1. Params[t].times \in Nat /\ t \in Task
      BY AskedParams
    <3>2. given'[t] = given[t] \/ given'[t] = Pre(0)
      BY <2>2, <3>1 DEF StopTask
    <3>3. Pre(0).type = "Pre" /\ Pre(0).times = 0 /\ Pre(0) # NotGiven
      BY NotGivenAssumption DEF Pre
    <3> QED
      BY <3>1, <3>2, <3>3 DEF LimitsHeld
  <2> QED
    BY <2>1, <2>2
<1>3. Listed'
  BY <1>a DEF Listed
<1>4. StillThere'
  <2> SUFFICES ASSUME Chosen, cur \notin JustReturn \cup {"PRTS"}
               PROVE  cur \in Visible' \/ (screen' = "offline" /\ cur # "GameStart")
    BY <1>a DEF StillThere
  <2>1. cur \in Visible \/ (screen = "offline" /\ cur # "GameStart")
    BY DEF StillThere
  <2>2. screen # "battle"
    BY <2>1, OnlyOn DEF Shape
  <2>3. CASE UNCHANGED screen
    BY <2>1, <2>3 DEF Visible
  <2>4. CASE screen' = "offline" /\ screen \notin {"offline", "title"}
    BY <2>1, <2>4, OnlyOn DEF Shape
  <2> QED
    BY <2>2, <2>3, <2>4
<1>5. PagesMatch'
  BY <1>a DEF PagesMatch
<1>6. SpentCounted'
  BY <1>a DEF SpentCounted
<1>7. BattlesCounted'
  <2> DEFINE x == exec["StartButton2"]
  <2>1. x \in Nat /\ exec' = exec /\ finished \in Nat /\ drops \in Nat /\ lost \in Nat
    BY DEF Shape, Task
  <2> DEFINE inBattle == InBattle
  <2> DEFINE inBattleNext == InBattle'
  <2> DEFINE toAbandon == ToAbandon
  <2> DEFINE toAbandonNext == ToAbandon'
  <2> DEFINE toGiveBack == ToGiveBack
  <2> DEFINE toGiveBackNext == ToGiveBack'
  <2> DEFINE toClick == ToClick({"StartButton2"})
  <2>2. inBattleNext = (IF screen' = "battle" THEN 1 ELSE 0) /\ inBattle = (IF screen = "battle" THEN 1 ELSE 0)
    BY DEF InBattle
  <2>3. /\ screen = "title" => toGiveBack = 1
        /\ screen = "offline" => toGiveBack \in 1..2
        /\ screen \notin {"title", "offline"} => toGiveBack = 0
        /\ screen' = "title" => toGiveBackNext = 1
        /\ screen' = "offline" => toGiveBackNext \in 1..2
        /\ screen' \notin {"title", "offline"} => toGiveBackNext = 0
    BY DEF ToGiveBack
  <2>4. UNCHANGED screen => toGiveBackNext <= toGiveBack /\ toAbandonNext = toAbandon
    <3>1. ConfirmedOffline => ConfirmedOffline'
      BY DEF ConfirmedOffline
    <3> QED
      BY <1>a, <3>1 DEF ToGiveBack, ToAbandon
  <2>5. /\ toAbandon \in 0..1 /\ toAbandonNext \in 0..1 /\ toClick \in 0..1
        /\ screen' # "prtsError" => toAbandonNext <= toAbandon
    BY <1>a, CountsAreNat DEF ToAbandon
  <2>6. screen = "battle" => toAbandon = 0
    <3>1. "AbandonAction" \notin JustReturn \cup {"PRTS"}
      BY DEF JustReturn
    <3> QED
      BY <3>1, OnlyOn DEF ToAbandon, StillThere, Shape
  <2>7. finished + inBattle + toClick + toAbandon + toGiveBack <= x + 2 * drops + lost
    BY DEF BattlesCounted
  <2>8. BattlesCounted' =
          (finished' + inBattleNext + toClick + toAbandonNext + toGiveBackNext <= x + 2 * drops' + lost)
    BY <1>a, <2>1 DEF BattlesCounted
  <2>9. finished' + inBattleNext + toClick + toAbandonNext + toGiveBackNext <= x + 2 * drops' + lost
    <3> HIDE DEF x, inBattle, inBattleNext, toAbandon, toAbandonNext, toGiveBack, toGiveBackNext,
                 toClick, FInv
    <3> QED
      BY <2>1, <2>2, <2>3, <2>4, <2>5, <2>6, <2>7
  <2> QED
    BY <2>8, <2>9
<1> QED
  BY <1>1, <1>2, <1>3, <1>4, <1>5, <1>6, <1>7

\* run() decides what is next.
LEMMA DecideStep ==
  ASSUME FInv, Decide
  PROVE  FInv'
<1>a. /\ subs = <<>> /\ (Engaged => cur \in Task)
      /\ UNCHANGED <<screen, oldStock, spent, finished, drops, lost>>
  BY DEF FInv, Shape, Decide, gameVars, purse, faults
<1> USE DEF PT!Goes, PT!Returns, PT!countVars, PT!limitVars, GameStays, Engaged
<1>1. CASE PT!Run
  BY <1>a, <1>1, NewList DEF PT!Run
<1>2. CASE PT!NothingLeft \/ PT!SeesExit \/ PT!GivesUp \/ PT!TriesAgain \/ PT!Fails
  BY <1>a, <1>2, MoveOn DEF PT!NothingLeft, PT!SeesExit, PT!GivesUp, PT!TriesAgain, PT!Fails
<1>3. CASE PT!BeginSubs
  <2>1. subs' = <<>>
    BY <1>a, <1>3, InfoFields DEF PT!BeginSubs
  <2> QED
    BY <1>a, <1>3, <2>1, MoveOn DEF PT!BeginSubs
<1>4. CASE PT!Exceeded
  BY <1>a, <1>4, NewList, InfoFields DEF PT!Exceeded
<1>5. CASE PT!ExceededLate
  BY <1>a, <1>5, NewList, InfoFields DEF PT!ExceededLate
<1>6. CASE PT!GoesOn
  BY <1>a, <1>6, NewList, InfoFields DEF PT!GoesOn
<1>7. CASE PT!Stop
  BY <1>a, <1>7, MoveOn DEF PT!Stop
<1>8. CASE PT!Take
  <2>1. UNCHANGED <<given, needExit>>
    BY <1>8 DEF PT!Take
  <2> QED
    BY <1>a, <1>8, <2>1, TakeStep
<1>9. CASE PT!OnErrorNext
  <2>1. cur \in Task
    BY <1>9 DEF PT!OnErrorNext, PT!Fallback, FInv, Shape
  <2>2. raw' = OnErrorNextOf(cur) /\ raw' # <<>>
    BY <1>9, <2>1, InfoFields DEF PT!OnErrorNext, PT!Fallback
  <2> QED
    BY <1>a, <1>9, <2>1, <2>2, FallBack DEF PT!OnErrorNext
<1>10. CASE PT!SubDone \/ PT!SubFails
  BY <1>a, <1>10 DEF PT!SubDone, PT!SubFails
<1> QED
  BY <1>1, <1>2, <1>3, <1>4, <1>5, <1>6, <1>7, <1>8, <1>9, <1>10 DEF Decide, PT!Decide

\* The fight starts with nothing spent and nothing won.
LEMMA InitInv == ASSUME Init PROVE FInv
<1>a. /\ pc = "called" /\ raw = <<"FightBegin">> /\ names = <<>> /\ cur = NoTask /\ subs = <<>>
      /\ exec = [t \in Task |-> 0] /\ given = Params /\ needExit = FALSE
  BY DEF Init, PT!Init
<1>b. /\ screen \in {"unticked", "stage"} /\ spent = [stock |-> 0, oldStock |-> 0, stones |-> 0]
      /\ finished = 0 /\ drops = 0 /\ lost = 0
  BY DEF Init
<1>1. Shape
  BY <1>a, <1>b DEF Shape, Engaged, Screen
<1>2. LimitsHeld
  BY <1>a, AskedParams DEF LimitsHeld
<1>3. Listed
  <2>1. \A c \in Confirm : ~Has(raw, c) /\ ~Has(names, c)
    BY <1>a DEF Has, Confirm
  <2> QED
    BY <1>a, <2>1 DEF Listed, Engaged
<1>4. StillThere
  BY <1>a DEF StillThere, Chosen
<1>5. PagesMatch
  BY <1>b DEF PagesMatch
<1>6. SpentCounted
  BY <1>a, <1>b DEF SpentCounted, ToClick, Task
<1>7. BattlesCounted
  BY <1>a, <1>b DEF BattlesCounted, InBattle, ToClick, ToAbandon, ToGiveBack, Chosen, Task
<1> QED
  BY <1>1, <1>2, <1>3, <1>4, <1>5, <1>6, <1>7 DEF FInv

\* Every step of the task and of the game keeps the invariant.
LEMMA NextInv == ASSUME FInv, [Next]_vars PROVE FInv'
<1>1. CASE Decide
  BY <1>1, DecideStep
<1>2. CASE Look
  BY <1>2, LookStep
<1>3. CASE Act
  BY <1>3, ActStep
<1>4. CASE StopTask
  BY <1>4, GameSteps DEF StopTask, gameVars, purse, faults
<1>5. CASE UserStops
  BY <1>5, GameSteps
     DEF UserStops, PT!StopOrStart, PT!runVars, PT!countVars, PT!limitVars, gameVars, purse, faults
<1>6. CASE BattleEnds
  BY <1>6, GameSteps DEF BattleEnds, taskVars, faults
<1>7. CASE BattleErrors
  BY <1>7, GameSteps DEF BattleErrors, taskVars, purse
<1>8. CASE Disconnects
  BY <1>8, GameSteps DEF Disconnects, taskVars, purse
<1>9. CASE UNCHANGED vars
  BY <1>9, GameSteps DEF vars, taskVars, gameVars, purse, faults
<1> QED
  BY <1>1, <1>2, <1>3, <1>4, <1>5, <1>6, <1>7, <1>8, <1>9 DEF Next, TaskStep

\* The invariant is what is promised of the spending ...
LEMMA SpendingFollows == ASSUME FInv PROVE SpendsWithinParams
<1>1. /\ exec["StoneConfirm"] <= Stone /\ exec["MedicineConfirm"] <= Medicine
      /\ exec["ExpiringMedicineConfirm"] <= Expiring
  <2>1. \A c \in Confirm : c \in Asked /\ exec[c] <= Params[c].times
    BY DEF FInv, LimitsHeld, Asked
  <2>2. /\ Params["StoneConfirm"].times = Stone /\ Params["MedicineConfirm"].times = Medicine
        /\ Params["ExpiringMedicineConfirm"].times = Expiring
    BY DEF Params, Pre, Task
  <2> QED
    BY <2>1, <2>2 DEF Confirm
<1>2. SpentAndExec
  BY SpentIsNat DEF FInv
<1>3. /\ spent.stones <= exec["StoneConfirm"] /\ spent.stock <= exec["MedicineConfirm"]
      /\ spent.stock + spent.oldStock <= exec["MedicineConfirm"] + exec["ExpiringMedicineConfirm"]
  BY <1>2, CountsAreNat DEF FInv, SpentCounted, SpentAndExec
<1> QED
  BY <1>1, <1>2, <1>3, ParamsAssumption DEF SpendsWithinParams, SpentAndExec

\* ... and of the battles.
LEMMA TimesFollow == ASSUME FInv PROVE TimesKept
<1>1. exec["StartButton2"] <= Times
  <2>1. Params["StartButton2"].times = Times
    BY DEF Params, Pre, Task
  <2> QED
    BY <2>1 DEF FInv, LimitsHeld, Asked
<1>2. exec["StartButton2"] \in Nat /\ finished \in Nat /\ drops \in Nat /\ lost \in Nat
  BY DEF FInv, Shape, Task
<1>3. finished <= exec["StartButton2"] + 2 * drops + lost
  BY <1>2, CountsAreNat DEF FInv, BattlesCounted
<1> QED
  BY <1>1, <1>2, <1>3, ParamsAssumption DEF TimesKept

\* Whatever the game does and whatever it loses, the fight never spends more
\* than set_params allowed.
THEOREM SpendingIsBounded == Spec => []SpendsWithinParams
<1>1. Spec => []FInv
  BY InitInv, NextInv, PTL DEF Spec
<1> QED
  BY <1>1, SpendingFollows, PTL

\* Nor does it fight more often than set_params asked, but for what lost
\* connections give back.
THEOREM BattlesAreBounded == Spec => []TimesKept
<1>1. Spec => []FInv
  BY InitInv, NextInv, PTL DEF Spec
<1> QED
  BY <1>1, TimesFollow, PTL

-----------------------------------------------------------------------------
(* The plugin ends the task when EndOfAction is completed.                 *)

\* The page that EndOfAction was recognised on is not a battle.
ActionIsOver == Engaged /\ cur = "EndOfAction" => screen # "battle"

\* From then on StartButton2, which alone opens a battle, is never taken up again.
NothingStarts ==
  enough => /\ screen # "battle"
            /\ given["StartButton2"] = Pre(0)
            /\ ~(pc = "before" /\ cur = "StartButton2")

NoBattle == ActionIsOver /\ NothingStarts

\* What run() decides opens no battle, and takes up no task whose limit is 0.
LEMMA DecideOpensNone == ASSUME FInv, NoBattle, Decide PROVE NoBattle'
<1>a. UNCHANGED <<screen, enough, given>>
  <2>1. UNCHANGED gameVars /\ UNCHANGED enough
    BY DEF Decide
  <2>2. UNCHANGED given
    BY DEF Decide, PT!Decide, PT!Run, PT!NothingLeft, PT!SeesExit, PT!Exceeded, PT!Take, PT!BeginSubs,
       PT!SubDone, PT!SubFails, PT!ExceededLate, PT!Stop, PT!GoesOn, PT!GivesUp, PT!TriesAgain,
       PT!OnErrorNext, PT!Fails, PT!limitVars
  <2> QED
    BY <2>1, <2>2 DEF gameVars
<1>b. UNCHANGED cur
  BY DEF Decide, PT!Decide, PT!Run, PT!NothingLeft, PT!SeesExit, PT!Exceeded, PT!Take, PT!BeginSubs,
     PT!SubDone, PT!SubFails, PT!ExceededLate, PT!Stop, PT!GoesOn, PT!GivesUp, PT!TriesAgain,
     PT!OnErrorNext, PT!Fails
<1>c. (Engaged' => Engaged) /\ (pc' = "before" => PT!Take \/ pc = "before")
  BY DEF Engaged, Decide, PT!Decide, PT!Run, PT!NothingLeft, PT!SeesExit, PT!Exceeded, PT!Take,
     PT!BeginSubs, PT!SubDone, PT!SubFails, PT!ExceededLate, PT!Stop, PT!GoesOn, PT!GivesUp,
     PT!TriesAgain, PT!OnErrorNext, PT!Fails, PT!Goes, PT!Returns
<1>d. enough /\ PT!Take => cur # "StartButton2"
  <2> SUFFICES ASSUME enough, PT!Take, cur = "StartButton2" PROVE FALSE
    OBVIOUS
  <2>1. given[cur] = Pre(0) /\ cur \in Task /\ Pre(0) # NotGiven
    BY NotGivenAssumption DEF NoBattle, NothingStarts, Pre, Task
  <2>2. PT!CalcTimeLimit(given, cur) = Pre(0)
    BY <2>1, LimitIsEntry
  <2>3. ~PT!ExceededBefore(Pre(0))
    BY <2>2 DEF PT!Take
  <2>4. exec[cur] \in Nat
    BY <2>1 DEF FInv, Shape
  <2> QED
    BY <2>3, <2>4 DEF PT!ExceededBefore, Pre
<1>1. ActionIsOver'
  BY <1>a, <1>b, <1>c DEF NoBattle, ActionIsOver
<1>2. NothingStarts'
  BY <1>a, <1>b, <1>c, <1>d DEF NoBattle, NothingStarts
<1> QED
  BY <1>1, <1>2 DEF NoBattle

\* What is recognised as the end of an action is on the screen.
LEMMA LookOpensNone == ASSUME FInv, NoBattle, Look PROVE NoBattle'
<1>a. UNCHANGED <<screen, enough, given>> /\ pc' \in {"chosen", "missed"}
  BY DEF Look, PT!Look, PT!Recognise, PT!RecognisesNothing, PT!Goes, PT!limitVars
<1>1. ASSUME pc' = "chosen", cur' = "EndOfAction" PROVE screen # "battle"
  <2>1. PICK visible \in {Visible, {}} : PT!Recognise(visible)
    BY <1>1 DEF Look, PT!Look, PT!RecognisesNothing, PT!Goes
  <2>2. PICK t \in Task : PT!FirstMatch(names, visible, t) /\ cur' = t
    BY <2>1 DEF PT!Recognise
  <2>3. PT!Matches("EndOfAction", visible)
    BY <1>1, <2>2 DEF PT!FirstMatch
  <2>4. "EndOfAction" \in visible
    <3>1. "EndOfAction" \in Task /\ "EndOfAction" \notin JustReturn
      BY DEF Task, JustReturn
    <3> QED
      BY <2>3, <3>1, InfoFields DEF PT!Matches
  <2>5. "EndOfAction" \in Visible
    BY <2>1, <2>4
  <2> QED
    BY <2>5, OnlyOn DEF FInv, Shape
<1>2. ActionIsOver'
  BY <1>a, <1>1 DEF ActionIsOver, Engaged
<1>3. NothingStarts'
  BY <1>a DEF NoBattle, NothingStarts
<1> QED
  BY <1>2, <1>3 DEF NoBattle

\* A click opens a battle only by StartButton2.
LEMMA ActOpensNone == ASSUME FInv, NoBattle, Act PROVE NoBattle'
<1>a. /\ pc = "before" /\ pc' = "after" /\ cur \in Task /\ UNCHANGED <<cur, given, enough>>
      /\ screen' = Leads(cur) \/ screen' = screen
  BY ActFacts DEF Act
<1>b. screen' = "battle" => screen = "battle" \/ cur = "StartButton2"
  BY <1>a, ScreenOf DEF FInv, Shape
<1>1. ActionIsOver'
  BY <1>a, <1>b DEF NoBattle, ActionIsOver, Engaged
<1>2. NothingStarts'
  BY <1>a, <1>b DEF NoBattle, NothingStarts
<1> QED
  BY <1>1, <1>2 DEF NoBattle

\* The plugin is called between the two, and the game starts no battle by itself.
LEMMA NextOpensNone == ASSUME FInv, NoBattle, [Next]_vars PROVE NoBattle'
<1>1. CASE Decide
  BY <1>1, DecideOpensNone
<1>2. CASE Look
  BY <1>2, LookOpensNone
<1>3. CASE Act
  BY <1>3, ActOpensNone
<1>4. CASE StopTask
  <2>1. given'["StartButton2"] = Pre(0)
    BY <1>4 DEF StopTask, Ended, Task
  <2>2. screen' = screen /\ pc' = pc /\ cur' = cur /\ pc = "subs" /\ cur = "EndOfAction"
    BY <1>4 DEF StopTask, gameVars
  <2> QED
    BY <2>1, <2>2 DEF NoBattle, ActionIsOver, NothingStarts, Engaged
<1>5. CASE UserStops \/ UNCHANGED vars
  <2>1. UNCHANGED <<pc, cur, given, screen, enough>>
    BY <1>5 DEF UserStops, PT!StopOrStart, PT!runVars, PT!limitVars, gameVars, vars, taskVars
  <2> QED
    BY <2>1 DEF NoBattle, ActionIsOver, NothingStarts, Engaged
<1>6. CASE BattleEnds \/ BattleErrors \/ Disconnects
  <2>1. UNCHANGED <<pc, cur, given, enough>> /\ screen' # "battle"
    BY <1>6 DEF BattleEnds, BattleErrors, Disconnects, taskVars
  <2> QED
    BY <2>1 DEF NoBattle, ActionIsOver, NothingStarts, Engaged
<1> QED
  BY <1>1, <1>2, <1>3, <1>4, <1>5, <1>6 DEF Next, TaskStep

\* Once the drops asked for are there no battle follows, whatever the counters
\* are and whatever is given back to them afterwards.
THEOREM DropsEndTheFight == Spec => []NoBattleAfterDrops
<1>1. Init => FInv /\ NoBattle
  <2>1. Init => NoBattle
    BY DEF Init, PT!Init, NoBattle, ActionIsOver, NothingStarts, Engaged
  <2> QED
    BY <2>1, InitInv
<1>2. FInv /\ NoBattle /\ [Next]_vars => FInv' /\ NoBattle'
  BY NextInv, NextOpensNone
<1>3. NoBattle => NoBattleAfterDrops
  BY DEF NoBattle, NothingStarts, NoBattleAfterDrops
<1> QED
  BY <1>1, <1>2, <1>3, PTL DEF Spec

-----------------------------------------------------------------------------
(* Success is earned.  As long as the game fails in nothing and the plugin *)
(* has not ended the task, every page is met where tasks.json expects it,  *)
(* and the counters are exact: they are what was won and what was spent.   *)

\* Nothing has gone wrong, and nothing else has ended the task.
Undisturbed == drops = 0 /\ lost = 0 /\ errors = 0 /\ ~enough

\* What a fight that succeeds has to show for it.
Earned == finished = Times \/ NothingToSpend

\* The pages of a player without sanity.
Refill == {"medicine", "stone", "noStone"}

\* The screens a task is recognised on ...
MetOn(t) ==
  CASE t = "FightBegin"                  -> {"unticked", "stage"}
    [] t = "UsePrts"                     -> {"unticked"}
    [] t \in {"StartButton1", "Stop"}    -> {"stage"}
    [] t = "StartButton2"                -> {"formation"}
    [] t = "PRTS"                        -> {"battle", "result"}
    [] t \in {"EndOfAction", "ClickCorner"} -> {"result"}
    [] t \in {"UseMedicine", "MedicineConfirm", "ExpiringMedicineCheck", "ExpiringMedicineConfirm"} ->
         {"medicine"}
    [] t \in {"UseStone", "StoneConfirm"} -> {"stone"}
    [] t = "NoStone"                     -> {"noStone"}
    [] t = "CloseStonePage"              -> Refill
    [] OTHER                             -> {}

\* ... and those it leaves behind when it has clicked.
LeftOn(t) ==
  CASE t = "StartButton1"                -> {"formation"} \cup Refill
    [] t = "StartButton2"                -> {"battle", "result"}
    [] t \in Confirm \cup {"UsePrts", "ClickCorner", "CloseStonePage"} -> {"stage"}
    [] OTHER                             -> MetOn(t)

\* Where run() is fits what the game shows.
OnCourse ==
  \/ pc = "called" /\ cur = NoTask /\ raw = <<"FightBegin">> /\ screen \in MetOn("FightBegin")
  \/ pc = "top" /\ cur = NoTask /\ names = <<"FightBegin">> /\ screen \in MetOn("FightBegin")
  \/ pc = "top" /\ cur \in Task \ {"Stop"} /\ names = NextOf(cur) /\ screen \in LeftOn(cur)
  \/ pc = "top" /\ cur \in Confirm \cup {"StartButton1"} /\ names = ExceededNextOf(cur) /\ screen \in MetOn(cur)
  \/ pc \in {"chosen", "before"} /\ cur \in Task /\ screen \in MetOn(cur)
  \/ pc \in {"after", "subs"} /\ cur \in Task /\ screen \in LeftOn(cur)

\* The limits are those of set_params, and all of the Pre type.
LimitsAsGiven ==
  /\ given = Params
  /\ pc \in {"before", "after", "subs"} => allowed.type = "Pre"
  /\ \A t \in Task \ PT!Counted : exec[t] = 0

\* The page the blue button opened is the one for what the player has.
PurseFits ==
  /\ sanity \in Nat /\ stock \in Nat /\ oldStock \in Nat /\ stones \in Nat
  /\ screen \in {"formation", "battle"} => sanity > 0
  /\ screen \in Refill => sanity = 0
  /\ screen = "medicine" => stock + oldStock > 0
  /\ screen = "stone" => stock + oldStock = 0 /\ stones > 0
  /\ screen = "noStone" => stock + oldStock = 0 /\ stones = 0

\* The buttons are counted as the battles are won, one ahead while one is under way.
ButtonsExact ==
  cur \notin {"CloseStonePage", "Stop"} =>
    /\ exec["StartButton1"] =
         finished + (IF (pc = "before" /\ cur = "StartButton1")
                        \/ screen \in {"formation", "battle"} \cup Refill THEN 1 ELSE 0)
    /\ exec["StartButton2"] =
         finished + (IF (pc = "before" /\ cur = "StartButton2") \/ screen = "battle" THEN 1 ELSE 0)
    /\ exec["StartButton1"] <= Times

\* What was spent is what was confirmed.
SpentExact ==
  /\ spent.stones + ToClick({"StoneConfirm"}) = exec["StoneConfirm"]
  /\ spent.stock + spent.oldStock + ToClick({"MedicineConfirm", "ExpiringMedicineConfirm"})
       = exec["MedicineConfirm"] + exec["ExpiringMedicineConfirm"]

\* The expiring medicines come after the others; a fight that ends has earned it.
InOrder ==
  /\ cur \in {"ExpiringMedicineCheck", "ExpiringMedicineConfirm"}
       \/ (cur = "MedicineConfirm" /\ pc = "top" /\ names = ExceededNextOf(cur))
     => exec["MedicineConfirm"] >= Medicine
  /\ cur \in {"CloseStonePage", "Stop"}
       \/ (pc = "top" /\ names \in {<<"CloseStonePage">>, <<"Stop">>}) => Earned

Exact == LimitsAsGiven /\ PurseFits /\ ButtonsExact /\ SpentExact

\* The user has stopped it, or it has returned, or all of this holds.
Course ==
  /\ errors \in Nat
  /\ Undisturbed =>
       \/ pc = "missed" /\ needExit
       \/ pc = "returned" /\ (result = TRUE => Earned /\ screen = "stage")
       \/ OnCourse /\ Exact /\ InOrder

-----------------------------------------------------------------------------
\* The lists a fight goes through when nothing goes wrong ...
LEMMA CourseLists ==
  /\ NextOf("FightBegin") = <<"UsePrts", "StartButton1", "PRTS", "EndOfAction">>
  /\ NextOf("UsePrts") = <<"StartButton1">>
  /\ NextOf("StartButton1") = <<"StartButton2", "UseMedicine", "UseStone", "NoStone", "OfflineConfirm">>
  /\ NextOf("StartButton2") = <<"PRTS", "EndOfAction", "StartButton2", "PrtsErrorConfirm",
                                "OfflineConfirm", "WaitAfterPRTS">>
  /\ NextOf("PRTS") = <<"PRTS", "EndOfAction", "PrtsErrorConfirm", "OfflineConfirm", "WaitAfterPRTS">>
  /\ NextOf("EndOfAction") = <<"ClickCorner">>
  /\ Len(NextOf("ClickCorner")) = 6 /\ NextOf("ClickCorner")[1] = "StartButton1"
  /\ NextOf("UseMedicine") = <<"MedicineConfirm">>
  /\ NextOf("ExpiringMedicineCheck") = <<"ExpiringMedicineConfirm">>
  /\ NextOf("UseStone") = <<"StoneConfirm">>
  /\ \A t \in Confirm : NextOf(t) = <<"StartButton1", "OfflineConfirm">>
  /\ NextOf("NoStone") = <<"CloseStonePage">> /\ NextOf("CloseStonePage") = <<"Stop">>
<1>1. /\ \A t \in TaskOfBattle : NextOf(t) = NextOfBattle(t)
      /\ \A t \in TaskOfSanity : NextOf(t) = NextOfSanity(t)
  BY DEF NextOf, TaskOfBattle, TaskOfSanity
<1>2. Len(Append(Pages, "EndOfAction")) = 6 /\ Append(Pages, "EndOfAction")[1] = "StartButton1"
  <2> DEFINE p == Pages
  <2>1. Len(p) = 5 /\ p[1] = "StartButton1"
    BY DEF Pages
  <2>2. p \in Seq(Others) /\ "EndOfAction" \in Others
    BY SharedLists DEF Others, Task, Confirm
  <2>3. Len(Append(p, "EndOfAction")) = 6 /\ Append(p, "EndOfAction")[1] = "StartButton1"
    <3> HIDE DEF p
    <3>1. /\ Len(Append(p, "EndOfAction")) = Len(p) + 1
          /\ \A i \in 1..Len(p) : Append(p, "EndOfAction")[i] = p[i]
      BY <2>2, AppendProperties
    <3> QED
      BY <2>1, <3>1
  <2> QED
    BY <2>3
<1>3. {"FightBegin", "UsePrts", "StartButton1", "StartButton2", "PRTS", "EndOfAction", "ClickCorner"} \subseteq TaskOfBattle
  BY DEF TaskOfBattle
<1>4. {"UseMedicine", "ExpiringMedicineCheck", "UseStone", "NoStone", "CloseStonePage"} \cup Confirm \subseteq TaskOfSanity
  BY DEF TaskOfSanity, Confirm
<1>5. NextOf("FightBegin") = <<"UsePrts", "StartButton1", "PRTS", "EndOfAction">>
  BY <1>1, <1>3 DEF NextOfBattle
<1>6. NextOf("UsePrts") = <<"StartButton1">>
  BY <1>1, <1>3 DEF NextOfBattle
<1>7. NextOf("StartButton1") = <<"StartButton2", "UseMedicine", "UseStone", "NoStone", "OfflineConfirm">>
  BY <1>1, <1>3 DEF NextOfBattle
<1>8. NextOf("StartButton2") = <<"PRTS", "EndOfAction", "StartButton2", "PrtsErrorConfirm",
                                 "OfflineConfirm", "WaitAfterPRTS">>
  BY <1>1, <1>3 DEF NextOfBattle
<1>9. NextOf("PRTS") = <<"PRTS", "EndOfAction", "PrtsErrorConfirm", "OfflineConfirm", "WaitAfterPRTS">>
  BY <1>1, <1>3 DEF NextOfBattle, Battle
<1>10. NextOf("EndOfAction") = <<"ClickCorner">>
  BY <1>1, <1>3 DEF NextOfBattle
<1>11. NextOf("ClickCorner") = Append(Pages, "EndOfAction")
  BY <1>1, <1>3 DEF NextOfBattle
<1>12. /\ NextOf("UseMedicine") = <<"MedicineConfirm">>
       /\ NextOf("ExpiringMedicineCheck") = <<"ExpiringMedicineConfirm">>
       /\ NextOf("UseStone") = <<"StoneConfirm">>
       /\ NextOf("NoStone") = <<"CloseStonePage">> /\ NextOf("CloseStonePage") = <<"Stop">>
  BY <1>1, <1>4 DEF NextOfSanity
<1>13. \A t \in Confirm : NextOf(t) = <<"StartButton1", "OfflineConfirm">>
  BY <1>1, <1>4 DEF NextOfSanity, Confirm
<1> QED
  BY <1>2, <1>5, <1>6, <1>7, <1>8, <1>9, <1>10, <1>11, <1>12, <1>13

\* ... and those it goes on with when a limit is reached.
LEMMA CourseExceeded ==
  /\ ExceededNextOf("StartButton1") = <<"Stop">>
  /\ ExceededNextOf("MedicineConfirm") = <<"ExpiringMedicineCheck", "CloseStonePage">>
  /\ ExceededNextOf("ExpiringMedicineConfirm") = <<"CloseStonePage">>
  /\ ExceededNextOf("StoneConfirm") = <<"CloseStonePage">>
BY DEF ExceededNextOf

\* The tasks of a fight in which nothing goes wrong.
OfCourse ==
  {"FightBegin", "UsePrts", "StartButton1", "StartButton2", "PRTS", "EndOfAction", "ClickCorner",
   "UseMedicine", "ExpiringMedicineCheck", "UseStone", "NoStone", "CloseStonePage", "Stop"} \cup Confirm

LEMMA CourseTasks ==
  /\ OfCourse \subseteq Task
  /\ \A t \in Task : MetOn(t) # {} \/ LeftOn(t) # {} => t \in OfCourse
<1>1. OfCourse \subseteq Task
  BY DEF OfCourse, Task, Confirm
<1>2. \A t \in Task : MetOn(t) # {} => t \in OfCourse
  BY DEF MetOn, OfCourse, Confirm, Task
<1>3. \A t \in Task : LeftOn(t) # {} => t \in OfCourse
  BY <1>2 DEF LeftOn, OfCourse, Confirm
<1> QED
  BY <1>1, <1>2, <1>3

\* What run() takes from its list.
Found(k) ==
  /\ k \in 1..Len(names) /\ names[1] \in Task
  /\ PT!Matches(names[k], Visible) /\ \A j \in 1..(k - 1) : ~PT!Matches(names[j], Visible)

\* Where it leads.
Leading(k) ==
  /\ names[k] \in Task /\ screen \in MetOn(names[k])
  /\ cur \in {"CloseStonePage", "Stop"} => names[k] = "Stop"
  /\ names[k] = "CloseStonePage" =>
       names = <<"CloseStonePage">> \/ (cur = "MedicineConfirm" /\ names = ExceededNextOf(cur) /\ oldStock = 0)
  /\ names[k] = "Stop" => names = <<"Stop">>
  /\ names[k] = "ExpiringMedicineCheck" => cur = "MedicineConfirm" /\ names = ExceededNextOf(cur)
  /\ names[k] = "ExpiringMedicineConfirm" => cur = "ExpiringMedicineCheck"

\* What the screens show of them.
LEMMA Shown ==
  /\ screen = "unticked" => "UsePrts" \in Visible
  /\ screen = "stage" => "StartButton1" \in Visible /\ "UsePrts" \notin Visible
  /\ screen = "formation" => "StartButton2" \in Visible
  /\ screen = "battle" => "PRTS" \in Visible
  /\ screen = "result" => "EndOfAction" \in Visible /\ "PRTS" \notin Visible
  /\ screen = "medicine" => /\ {"UseMedicine"} \cup Confirm \subseteq Visible /\ "StartButton2" \notin Visible
                            /\ "ExpiringMedicineCheck" \in Visible <=> oldStock > 0
  /\ screen = "stone" => /\ {"UseStone"} \cup Confirm \subseteq Visible
                         /\ {"StartButton2", "UseMedicine"} \cap Visible = {}
  /\ screen = "noStone" => /\ "NoStone" \in Visible
                           /\ {"StartButton2", "UseMedicine", "UseStone"} \cap Visible = {}
<1>1. CASE screen \in {"unticked", "stage", "formation", "battle", "result", "noStone"}
  BY <1>1 DEF Visible, Confirm
<1>2. CASE screen = "medicine"
  <2>1. Visible = {"UseMedicine"} \cup Confirm \cup (IF oldStock > 0 THEN {"ExpiringMedicineCheck"} ELSE {})
    BY <1>2 DEF Visible
  <2> QED
    BY <1>2, <2>1 DEF Confirm
<1>3. CASE screen = "stone"
  BY <1>3 DEF Visible, Confirm
<1> QED
  BY <1>1, <1>2, <1>3

\* What run() takes from its list: the first name that is on the screen or needs none.
LEMMA FoundAt ==
  ASSUME NEW k \in 1..Len(names), Len(names) \in Nat, names[1] \in Task, names[k] \in Task \cap (JustReturn \cup Visible),
         \A j \in 1..(k - 1) : names[j] \in Task \ (JustReturn \cup Visible)
  PROVE  Found(k)
BY InfoFields DEF Found, PT!Matches

\* It always finds one, and the page fits it.
LEMMA CourseFinds ==
  ASSUME OnCourse, PurseFits, pc = "top"
  PROVE  \E k \in 1..Len(names) : Found(k) /\ Leading(k)
<1> USE DEF Leading, MetOn, LeftOn, Refill, Confirm, JustReturn
<1>t. OfCourse \subseteq Task /\ "OfflineConfirm" \in Task /\ "PrtsErrorConfirm" \in Task /\ "WaitAfterPRTS" \in Task
  BY CourseTasks DEF Task
<1>1. CASE cur = NoTask /\ names = <<"FightBegin">> /\ screen \in MetOn("FightBegin")
  <2>1. Found(1)
    BY <1>1, <1>t, FoundAt DEF OfCourse
  <2> QED
    BY <1>1, <1>t, <2>1, NoTaskAssumption DEF OfCourse
<1>2. CASE cur \in Confirm \cup {"StartButton1"} /\ names = ExceededNextOf(cur) /\ screen \in MetOn(cur)
  <2>1. CASE cur # "MedicineConfirm"
    <3>1. names = IF cur = "StartButton1" THEN <<"Stop">> ELSE <<"CloseStonePage">>
      BY <1>2, <2>1, CourseExceeded
    <3>2. Found(1)
      BY <3>1, <1>t, FoundAt DEF OfCourse
    <3> QED
      BY <1>2, <1>t, <2>1, <3>1, <3>2 DEF OfCourse
  <2>2. CASE cur = "MedicineConfirm"
    <3>1. names = <<"ExpiringMedicineCheck", "CloseStonePage">> /\ screen = "medicine"
      BY <1>2, <2>2, CourseExceeded
    <3>2. CASE oldStock > 0
      <4>1. Found(1)
        BY <3>1, <3>2, <1>t, Shown, FoundAt DEF OfCourse
      <4> QED
        BY <1>2, <1>t, <2>2, <3>1, <4>1 DEF OfCourse
    <3>3. CASE oldStock = 0
      <4>1. Found(2)
        BY <3>1, <3>3, <1>t, Shown, FoundAt DEF OfCourse
      <4> QED
        BY <1>2, <1>t, <2>2, <3>1, <3>3, <4>1 DEF OfCourse
    <3> QED
      BY <3>2, <3>3 DEF PurseFits
  <2> QED
    BY <2>1, <2>2
<1>3. CASE cur \in Task \ {"Stop"} /\ names = NextOf(cur) /\ screen \in LeftOn(cur)
  <2>0. cur \in OfCourse \ {"Stop"}
    BY <1>3, CourseTasks
  <2>1. CASE cur = "FightBegin"
    <3>1. names = <<"UsePrts", "StartButton1", "PRTS", "EndOfAction">> /\ screen \in {"unticked", "stage"}
      BY <1>3, <2>1, CourseLists
    <3>2. CASE screen = "unticked"
      <4>1. Found(1)
        BY <3>1, <3>2, <1>t, Shown, FoundAt DEF OfCourse
      <4> QED
        BY <1>t, <2>1, <3>1, <3>2, <4>1 DEF OfCourse
    <3>3. CASE screen = "stage"
      <4>1. Found(2)
        BY <3>1, <3>3, <1>t, Shown, FoundAt DEF OfCourse
      <4> QED
        BY <1>t, <2>1, <3>1, <3>3, <4>1 DEF OfCourse
    <3> QED
      BY <3>1, <3>2, <3>3
  <2>2. CASE cur \in {"UsePrts", "ClickCorner"} \cup Confirm
    <3>1. screen = "stage"
      BY <1>3, <2>2
    <3>2. \/ names = <<"StartButton1">> \/ names = <<"StartButton1", "OfflineConfirm">>
          \/ Len(names) = 6 /\ names[1] = "StartButton1"
      BY <1>3, <2>2, CourseLists
    <3>3. names[1] = "StartButton1" /\ Len(names) \in Nat /\ 1 \in 1..Len(names)
      BY <3>2
    <3>4. Found(1)
      BY <3>1, <3>3, <1>t, Shown, FoundAt DEF OfCourse
    <3> QED
      BY <1>t, <2>2, <3>1, <3>3, <3>4 DEF OfCourse
  <2>3. CASE cur = "StartButton1"
    <3>1. /\ names = <<"StartButton2", "UseMedicine", "UseStone", "NoStone", "OfflineConfirm">>
          /\ screen \in {"formation", "medicine", "stone", "noStone"}
      BY <1>3, <2>3, CourseLists
    <3>2. CASE screen = "formation"
      <4>1. Found(1)
        BY <3>1, <3>2, <1>t, Shown, FoundAt DEF OfCourse
      <4> QED
        BY <1>t, <2>3, <3>1, <3>2, <4>1 DEF OfCourse
    <3>3. CASE screen = "medicine"
      <4>1. Found(2)
        BY <3>1, <3>3, <1>t, Shown, FoundAt DEF OfCourse
      <4> QED
        BY <1>t, <2>3, <3>1, <3>3, <4>1 DEF OfCourse
    <3>4. CASE screen = "stone"
      <4>1. Found(3)
        BY <3>1, <3>4, <1>t, Shown, FoundAt DEF OfCourse
      <4> QED
        BY <1>t, <2>3, <3>1, <3>4, <4>1 DEF OfCourse
    <3>5. CASE screen = "noStone"
      <4>1. Found(4)
        BY <3>1, <3>5, <1>t, Shown, FoundAt DEF OfCourse
      <4> QED
        BY <1>t, <2>3, <3>1, <3>5, <4>1 DEF OfCourse
    <3> QED
      BY <3>1, <3>2, <3>3, <3>4, <3>5
  <2>4. CASE cur \in {"StartButton2", "PRTS"}
    <3>1. screen \in {"battle", "result"}
      BY <1>3, <2>4
    <3>4. names = NextOf("StartButton2") \/ names = NextOf("PRTS")
      BY <1>3, <2>4
    <3>5. Len(names) \in Nat /\ Len(names) >= 2 /\ names[1] = "PRTS" /\ names[2] = "EndOfAction"
      BY <3>4, CourseLists
    <3>2. CASE screen = "battle"
      <4>1. Found(1)
        BY <3>2, <3>5, <1>t, Shown, FoundAt DEF OfCourse
      <4> QED
        BY <1>t, <2>4, <3>5, <3>2, <4>1 DEF OfCourse
    <3>3. CASE screen = "result"
      <4>1. Found(2)
        BY <3>3, <3>5, <1>t, Shown, FoundAt DEF OfCourse
      <4> QED
        BY <1>t, <2>4, <3>5, <3>3, <4>1 DEF OfCourse
    <3> QED
      BY <3>1, <3>2, <3>3
  <2>5. CASE cur \in {"EndOfAction", "NoStone", "CloseStonePage"}
    <3>1. \/ names = <<"ClickCorner">> /\ cur = "EndOfAction" /\ screen = "result"
          \/ names = <<"CloseStonePage">> /\ cur = "NoStone" /\ screen = "noStone"
          \/ names = <<"Stop">> /\ cur = "CloseStonePage" /\ screen = "stage"
      BY <1>3, <2>5, CourseLists
    <3>2. Len(names) \in Nat /\ 1 \in 1..Len(names) /\ names[1] \in OfCourse \cap JustReturn
      BY <3>1 DEF OfCourse
    <3>3. Found(1)
      BY <3>2, <1>t, FoundAt
    <3> QED
      BY <1>t, <3>1, <3>2, <3>3
  <2>6. CASE cur \in {"UseMedicine", "ExpiringMedicineCheck", "UseStone"}
    <3>1. \/ names = <<"MedicineConfirm">> /\ cur = "UseMedicine" /\ screen = "medicine"
          \/ names = <<"ExpiringMedicineConfirm">> /\ cur = "ExpiringMedicineCheck" /\ screen = "medicine"
          \/ names = <<"StoneConfirm">> /\ cur = "UseStone" /\ screen = "stone"
      BY <1>3, <2>6, CourseLists
    <3>2. Len(names) \in Nat /\ 1 \in 1..Len(names) /\ names[1] \in OfCourse \cap Visible
      BY <3>1, Shown DEF OfCourse
    <3>3. Found(1)
      BY <3>2, <1>t, FoundAt
    <3> QED
      BY <1>t, <3>1, <3>2, <3>3
  <2> QED
    BY <2>0, <2>1, <2>2, <2>3, <2>4, <2>5, <2>6 DEF OfCourse
<1> QED
  BY <1>1, <1>2, <1>3 DEF OnCourse

-----------------------------------------------------------------------------
\* Nothing is counted while run() moves on without a click.
LEMMA ExactKept ==
  ASSUME Shape, Exact, UNCHANGED <<exec, given, gameVars>>, pc # "before", pc' # "before",
         pc' \in {"after", "subs"} => pc \in {"after", "subs"} /\ allowed' = allowed,
         cur \in {"CloseStonePage", "Stop"} => cur' \in {"CloseStonePage", "Stop"}
  PROVE  Exact'
<1> USE DEF Exact, gameVars, purse
<1>1. LimitsAsGiven'
  BY DEF LimitsAsGiven
<1>2. PurseFits'
  BY DEF PurseFits
<1>3. ButtonsExact'
  BY DEF ButtonsExact
<1>4. SpentExact'
  BY DEF SpentExact, ToClick
<1> QED
  BY <1>1, <1>2, <1>3, <1>4

\* Whether the fight has earned its end depends on the game alone.
LEMMA EarnedKept == ASSUME UNCHANGED <<purse, finished>> PROVE Earned' = Earned
BY DEF purse, Earned, NothingToSpend

\* What applies to a task of the course: the limit of set_params, or none.
LEMMA CourseLimits ==
  ASSUME NEW t \in OfCourse, LimitsAsGiven
  PROVE  /\ t \in Asked \cup {"StartButton1"} => PT!CalcTimeLimit(given, t) = Params[t] /\ t \in PT!Counted
         /\ t \notin Asked \cup {"StartButton1"} =>
              PT!CalcTimeLimit(given, t) = [times |-> Unlimited, type |-> "Pre"] /\ t \notin PT!Counted
<1>1. t \in Task /\ given = Params
  BY CourseTasks DEF LimitsAsGiven
<1>2. CASE t \in Asked \cup {"StartButton1"}
  <2>1. Params[t] # NotGiven /\ t \in PT!Counted
    <3>1. CASE t \in Asked
      BY <3>1, AskedParams
    <3>2. CASE t = "StartButton1"
      <4>1. Params[t] = Pre(Times)
        BY <1>1, <3>2 DEF Params
      <4>2. Params[t] # NotGiven
        BY <4>1, ParamsAssumption, NotGivenAssumption DEF Pre
      <4>3. PT!Entries(Params, t) = {1}
        BY <1>1, <4>2 DEF PT!Entries
      <4> QED
        BY <1>1, <4>2, <4>3 DEF PT!Counted
    <3> QED
      BY <1>2, <3>1, <3>2
  <2> QED
    BY <1>1, <1>2, <2>1, LimitIsEntry
<1>3. CASE t \notin Asked \cup {"StartButton1"}
  <2>1. Params[t] = NotGiven
    BY <1>1, <1>3 DEF Params, Asked, Confirm
  <2>2. PT!Entries(Params, t) = {}
    BY <1>1, <2>1 DEF PT!Entries
  <2>3. Info[t].maxTimes = Unlimited
    BY <1>1, <1>3 DEF Info, OfCourse, Asked, Confirm
  <2>4. \A call \in Ended \X {Pre(0)} : call[1] # t
    BY <1>3 DEF Ended, Asked, Confirm
  <2>5. t \notin PT!Counted
    BY <1>1, <2>2, <2>3, <2>4 DEF PT!Counted
  <2> QED
    BY <1>1, <1>3, <2>2, <2>3, <2>5 DEF PT!CalcTimeLimit
<1> QED
  BY <1>2, <1>3

\* Where OnCourse is in the middle of a task, the task is one of the course.
LEMMA CourseCur ==
  ASSUME OnCourse, Engaged
  PROVE  /\ cur \in OfCourse
         /\ Chosen => screen \in MetOn(cur)
         /\ ~Chosen => screen \in LeftOn(cur)
<1>1. /\ cur \in Task /\ (Chosen => screen \in MetOn(cur)) /\ (~Chosen => screen \in LeftOn(cur))
  BY DEF OnCourse, Engaged, Chosen
<1> QED
  BY <1>1, CourseTasks

\* The steps of a fight that is still on its course.
OnTheWay == FInv /\ Undisturbed /\ errors \in Nat /\ OnCourse /\ Exact /\ InOrder

\* run() recognises what the page is for.
LEMMA LookOnCourse ==
  ASSUME OnTheWay, Look, lost' = lost
  PROVE  OnCourse' /\ Exact' /\ InOrder'
<1> USE DEF OnTheWay, FInv
<1>1. PT!Look(Visible) /\ pc = "top" /\ UNCHANGED <<names, exec, given, allowed, gameVars, enough>>
  <2>1. lost + 1 # lost
    BY DEF Shape
  <2> QED
    BY <2>1 DEF Look, PT!Look, PT!Recognise, PT!RecognisesNothing, PT!Goes, PT!countVars, PT!limitVars,
                gameVars, faults
<1>2. PICK k \in 1..Len(names) : Found(k) /\ Leading(k)
  BY <1>1, CourseFinds DEF Exact
<1>3. pc' = "chosen" /\ cur' = names[k]
  <2>1. ~PT!NoMatch(names, Visible)
    BY <1>2 DEF Found, PT!NoMatch
  <2>2. Head(names) = names[1] /\ names[1] \in Task
    BY <1>2 DEF Found
  <2>3. PT!Recognise(Visible)
    BY <1>1, <2>1, <2>2 DEF PT!Look, PT!RecognisesNothing
  <2>4. PICK t \in Task : PT!FirstMatch(names, Visible, t) /\ cur' = t
    BY <2>3 DEF PT!Recognise
  <2>5. PICK i \in 1..Len(names) : names[i] = t /\ PT!Matches(t, Visible)
                                   /\ \A j \in 1..(i - 1) : ~PT!Matches(names[j], Visible)
    BY <2>4 DEF PT!FirstMatch
  <2>6. i = k
    <3>1. ~(i < k) /\ ~(k < i)
      BY <1>2, <2>5 DEF Found
    <3> QED
      BY <1>2, <2>5, <3>1
  <2> QED
    BY <2>3, <2>4, <2>5, <2>6 DEF PT!Recognise, PT!Goes
<1>4. OnCourse'
  BY <1>1, <1>2, <1>3 DEF OnCourse, Leading, gameVars, MetOn
<1>5. Exact'
  BY <1>1, <1>2, <1>3, ExactKept DEF Leading
<1>6. InOrder'
  <2>1. CASE cur' \in {"CloseStonePage", "Stop"}
    <3>1. CASE names \in {<<"CloseStonePage">>, <<"Stop">>}
      <4>1. Earned'
        BY <1>1, <3>1, EarnedKept DEF InOrder, gameVars
      <4> QED
        BY <1>1, <1>3, <2>1, <4>1 DEF InOrder
    <3>2. CASE names \notin {<<"CloseStonePage">>, <<"Stop">>}
      <4>1. /\ cur = "MedicineConfirm" /\ names = ExceededNextOf(cur) /\ oldStock = 0
            /\ cur' = "CloseStonePage"
        BY <1>2, <1>3, <2>1, <3>2 DEF Leading
      <4>2. exec["MedicineConfirm"] >= Medicine
        BY <1>1, <4>1 DEF InOrder
      <4>3. screen = "medicine"
        <5>1. names[1] = "ExpiringMedicineCheck"
          BY <4>1, CourseExceeded
        <5>2. names # NextOf(cur) /\ names # <<"FightBegin">>
          <6>1. NextOf(cur)[1] = "StartButton1"
            BY <4>1, CourseLists DEF Confirm
          <6> QED
            BY <5>1, <6>1
        <5>3. screen \in MetOn(cur)
          BY <1>1, <5>2 DEF OnCourse
        <5> QED
          BY <4>1, <5>3 DEF MetOn
      <4>4. NothingToSpend
        <5>1. spent.stock + spent.oldStock >= Medicine
          <6>1. spent.stock + spent.oldStock = exec["MedicineConfirm"] + exec["ExpiringMedicineConfirm"]
            BY <1>1 DEF Exact, SpentExact, ToClick, Shape
          <6> QED
            BY <4>2, <6>1, SpentIsNat, ParamsAssumption DEF SpentAndExec
        <5>2. sanity = 0 /\ stock + oldStock > 0
          BY <4>3 DEF Exact, PurseFits, Refill
        <5> QED
          BY <4>1, <5>1, <5>2 DEF NothingToSpend
      <4>5. Earned'
        BY <1>1, <4>4, EarnedKept DEF Earned, gameVars
      <4> QED
        BY <1>3, <4>1, <4>5 DEF InOrder
    <3> QED
      BY <3>1, <3>2
  <2>2. CASE cur' \in {"ExpiringMedicineCheck", "ExpiringMedicineConfirm"}
    BY <1>1, <1>2, <1>3, <2>2 DEF InOrder, Leading
  <2>3. CASE cur' \notin {"CloseStonePage", "Stop", "ExpiringMedicineCheck", "ExpiringMedicineConfirm"}
    BY <1>1, <1>3, <2>3 DEF InOrder
  <2> QED
    BY <2>1, <2>2, <2>3
<1> QED
  BY <1>4, <1>5, <1>6

\* A limit is reached: the fight is over for it, or it goes on to the next thing to spend.
LEMMA ExceededOnCourse ==
  ASSUME OnTheWay, PT!Exceeded, UNCHANGED <<gameVars, enough>>
  PROVE  OnCourse' /\ Exact' /\ InOrder'
<1> USE DEF OnTheWay, FInv
<1>1. /\ pc = "chosen" /\ pc' = "top" /\ UNCHANGED <<cur, exec, given>>
      /\ allowed' = PT!CalcTimeLimit(given, cur) /\ PT!ExceededBefore(allowed')
      /\ Engaged /\ Chosen
  BY DEF PT!Exceeded, PT!Goes, PT!countVars, PT!limitVars, Engaged, Chosen
<1>2. cur \in OfCourse /\ cur \in Task /\ screen \in MetOn(cur)
  BY <1>1, CourseCur, CourseTasks
<1>3. names' = ExceededNextOf(cur)
  BY <1>2, InfoFields DEF PT!Exceeded
<1>4. cur \in Asked \cup {"StartButton1"}
  <2>1. SUFFICES ASSUME cur \notin Asked \cup {"StartButton1"} PROVE FALSE
    OBVIOUS
  <2>2. exec[cur] = 0
    BY <1>2, <2>1, CourseLimits DEF Exact, LimitsAsGiven
  <2>3. allowed'.times = Unlimited
    BY <1>1, <1>2, <2>1, CourseLimits DEF Exact
  <2> QED
    BY <1>1, <2>2, <2>3, UnlimitedAssumption DEF PT!ExceededBefore
<1>5. exec[cur] >= Params[cur].times
  BY <1>1, <1>2, <1>4, CourseLimits DEF Exact, PT!ExceededBefore
<1>6. Exact'
  BY <1>1, ExactKept
<1>7. /\ exec["StartButton1"] \in Nat /\ exec["StartButton2"] \in Nat /\ finished \in Nat /\ SpentAndExec
      /\ Times \in Nat /\ Medicine \in Nat /\ Expiring \in Nat /\ Stone \in Nat
  BY SpentIsNat, ParamsAssumption DEF Shape, Task
<1>8. /\ spent.stones = exec["StoneConfirm"]
      /\ spent.stock + spent.oldStock = exec["MedicineConfirm"] + exec["ExpiringMedicineConfirm"]
  BY <1>1, <1>7 DEF Exact, SpentExact, ToClick, SpentAndExec
<1>9. CASE cur = "StartButton1"
  <2>1. screen = "stage" /\ Params[cur].times = Times
    BY <1>2, <1>9 DEF MetOn, Params, Pre
  <2>2. finished = Times
    BY <1>1, <1>5, <1>7, <1>9, <2>1 DEF Exact, ButtonsExact, Refill
  <2>3. Earned'
    BY <2>2, EarnedKept DEF Earned, gameVars
  <2> QED
    BY <1>1, <1>2, <1>3, <1>6, <1>9, <2>3 DEF OnCourse, InOrder, gameVars, MetOn
<1>10. CASE cur = "StartButton2"
  <2>1. screen = "formation" /\ Params[cur].times = Times
    BY <1>2, <1>10 DEF MetOn, Params, Pre
  <2> QED
    BY <1>1, <1>5, <1>7, <1>10, <2>1 DEF Exact, ButtonsExact
<1>11. CASE cur = "MedicineConfirm"
  <2>1. exec["MedicineConfirm"] >= Medicine
    BY <1>2, <1>5, <1>11 DEF Params, Pre
  <2>2. names' = <<"ExpiringMedicineCheck", "CloseStonePage">>
    BY <1>3, <1>11, CourseExceeded
  <2>3. OnCourse'
    BY <1>1, <1>2, <1>3, <1>11 DEF OnCourse, gameVars, MetOn, Confirm
  <2> QED
    BY <1>1, <1>6, <1>11, <2>1, <2>2, <2>3 DEF InOrder
<1>12. CASE cur \in {"ExpiringMedicineConfirm", "StoneConfirm"}
  <2>1. NothingToSpend
    <3>1. CASE cur = "ExpiringMedicineConfirm"
      <4>1. exec["ExpiringMedicineConfirm"] >= Expiring /\ screen = "medicine"
        BY <1>2, <1>5, <3>1 DEF Params, Pre, MetOn
      <4>2. exec["MedicineConfirm"] >= Medicine
        BY <3>1 DEF InOrder
      <4>3. spent.stock + spent.oldStock >= Medicine /\ spent.stock + spent.oldStock >= Medicine + Expiring
        BY <1>7, <1>8, <4>1, <4>2 DEF SpentAndExec
      <4>4. sanity = 0 /\ stock + oldStock > 0
        BY <4>1 DEF Exact, PurseFits, Refill
      <4> QED
        BY <4>3, <4>4 DEF NothingToSpend
    <3>2. CASE cur = "StoneConfirm"
      <4>1. exec["StoneConfirm"] >= Stone /\ screen = "stone"
        BY <1>2, <1>5, <3>2 DEF Params, Pre, MetOn
      <4>2. exec["StoneConfirm"] <= Stone
        BY <1>2, <3>2 DEF LimitsHeld, Asked, Confirm, Params, Pre
      <4>3. spent.stones = Stone
        BY <1>7, <1>8, <4>1, <4>2 DEF SpentAndExec
      <4>4. sanity = 0 /\ stock + oldStock = 0
        BY <4>1 DEF Exact, PurseFits, Refill
      <4> QED
        BY <4>3, <4>4 DEF NothingToSpend
    <3> QED
      BY <1>12, <3>1, <3>2
  <2>2. Earned'
    BY <2>1, EarnedKept DEF Earned, gameVars
  <2>3. OnCourse'
    BY <1>1, <1>2, <1>3, <1>12 DEF OnCourse, gameVars, MetOn, Confirm
  <2> QED
    BY <1>1, <1>6, <1>12, <2>2, <2>3 DEF InOrder
<1> QED
  BY <1>4, <1>9, <1>10, <1>11, <1>12 DEF Asked, Confirm

\* A task is taken up: it is counted before it clicks.
LEMMA TakeOnCourse ==
  ASSUME OnTheWay, PT!Take, UNCHANGED <<gameVars, enough>>
  PROVE  OnCourse' /\ Exact' /\ InOrder'
<1> USE DEF OnTheWay, FInv
<1>1. /\ pc = "chosen" /\ pc' = "before" /\ UNCHANGED <<cur, given, names>>
      /\ allowed' = PT!CalcTimeLimit(given, cur) /\ ~PT!ExceededBefore(allowed')
      /\ Engaged /\ Chosen
  BY DEF PT!Take, PT!Goes, PT!limitVars, Engaged, Chosen
<1>2. cur \in OfCourse /\ cur \in Task /\ screen \in MetOn(cur)
  BY <1>1, CourseCur, CourseTasks
<1>3. exec' = IF cur \in PT!Counted THEN [exec EXCEPT ![cur] = @ + 1] ELSE exec
  BY DEF PT!Take
<1>4. exec \in [Task -> Nat] /\ exec' \in [Task -> Nat]
  BY <1>2, <1>3 DEF Shape
<1>5. \A t \in Asked \cup {"StartButton1"} :
        t \in Task /\ exec[t] \in Nat /\ exec'[t] = exec[t] + (IF t = cur THEN 1 ELSE 0)
  <2>1. Asked \cup {"StartButton1"} \subseteq OfCourse /\ OfCourse \subseteq Task
    BY CourseTasks DEF Asked, OfCourse, Confirm
  <2> QED
    BY <1>2, <1>3, <1>4, <2>1, CourseLimits DEF Exact
<1>6. OnCourse'
  BY <1>1, <1>2 DEF OnCourse, gameVars
<1>7. InOrder'
  <2>1. Earned' = Earned
    BY EarnedKept DEF gameVars
  <2>2. exec'["MedicineConfirm"] >= exec["MedicineConfirm"]
    BY <1>5 DEF Asked, Confirm
  <2>3. exec["MedicineConfirm"] \in Nat /\ exec'["MedicineConfirm"] \in Nat
    BY <1>4 DEF Task
  <2> QED
    BY <1>1, <2>1, <2>2, <2>3, ParamsAssumption DEF InOrder
<1>8. LimitsAsGiven'
  <2>1. allowed'.type = "Pre"
    <3>1. Params["StartButton1"].type = "Pre"
      BY DEF Params, Pre, Task
    <3>2. \A t \in Asked : Params[t].type = "Pre"
      BY AskedParams
    <3>3. \/ cur \in Asked \cup {"StartButton1"} /\ allowed' = Params[cur]
          \/ allowed' = [times |-> Unlimited, type |-> "Pre"]
      BY <1>1, <1>2, CourseLimits DEF Exact
    <3> QED
      BY <3>1, <3>2, <3>3
  <2>2. \A t \in Task \ PT!Counted : exec'[t] = 0
    BY <1>3, <1>4 DEF Exact, LimitsAsGiven
  <2> QED
    BY <1>1, <2>1, <2>2 DEF Exact, LimitsAsGiven
<1>9. PurseFits'
  BY DEF Exact, PurseFits, gameVars, purse
<1>10. ButtonsExact'
  <2>1. SUFFICES ASSUME cur \notin {"CloseStonePage", "Stop"} PROVE ButtonsExact'
    BY <1>1 DEF ButtonsExact
  <2>2. cur = "StartButton1" => screen = "stage" /\ exec["StartButton1"] < Times
    <3>1. SUFFICES ASSUME cur = "StartButton1" PROVE screen = "stage" /\ exec[cur] < Times
      OBVIOUS
    <3>2. allowed' = Pre(Times)
      BY <1>1, <1>2, <3>1, CourseLimits DEF Exact, Params
    <3> QED
      BY <1>1, <1>2, <1>5, <3>1, <3>2, ParamsAssumption DEF PT!ExceededBefore, Pre, MetOn
  <2>3. cur = "StartButton2" => screen = "formation"
    BY <1>2 DEF MetOn
  <2>4. /\ exec["StartButton1"] = finished + (IF screen \in {"formation", "battle"} \cup Refill THEN 1 ELSE 0)
        /\ exec["StartButton2"] = finished + (IF screen = "battle" THEN 1 ELSE 0)
        /\ exec["StartButton1"] <= Times
    BY <1>1, <2>1 DEF Exact, ButtonsExact
  <2>5. /\ exec'["StartButton1"] = exec["StartButton1"] + (IF cur = "StartButton1" THEN 1 ELSE 0)
        /\ exec'["StartButton2"] = exec["StartButton2"] + (IF cur = "StartButton2" THEN 1 ELSE 0)
        /\ exec["StartButton1"] \in Nat /\ exec["StartButton2"] \in Nat
    BY <1>5 DEF Asked
  <2>6. UNCHANGED <<screen, finished>> /\ finished \in Nat /\ Times \in Nat
    BY ParamsAssumption DEF gameVars, Shape
  <2>7. /\ exec'["StartButton1"] =
              finished + (IF cur = "StartButton1" \/ screen \in {"formation", "battle"} \cup Refill THEN 1 ELSE 0)
        /\ exec'["StartButton1"] <= Times
    BY <2>2, <2>4, <2>5, <2>6 DEF Refill
  <2>8. exec'["StartButton2"] = finished + (IF cur = "StartButton2" \/ screen = "battle" THEN 1 ELSE 0)
    BY <2>3, <2>4, <2>5, <2>6
  <2> QED
    BY <1>1, <2>6, <2>7, <2>8 DEF ButtonsExact
<1>11. SpentExact'
  <2>1. spent' = spent /\ SpentAndExec
    BY SpentIsNat DEF gameVars, purse
  <2>2. \A t \in Confirm : exec'[t] = exec[t] + (IF t = cur THEN 1 ELSE 0)
    BY <1>5 DEF Asked
  <2>3. \A ts : ToClick(ts) = 0 /\ ToClick(ts)' = (IF cur \in ts THEN 1 ELSE 0)
    BY <1>1 DEF ToClick
  <2> QED
    BY <2>1, <2>2, <2>3 DEF Exact, SpentExact, Confirm, SpentAndExec
<1> QED
  BY <1>6, <1>7, <1>8, <1>9, <1>10, <1>11 DEF Exact

\* Where a click leads on the page its task is for.
LEMMA CourseLeads ==
  ASSUME NEW t \in OfCourse, screen \in MetOn(t)
  PROVE  /\ Leads(t) \in LeftOn(t)
         /\ t = "StartButton1" => Leads(t) = Entrance
         /\ t = "StartButton2" => Leads(t) = "battle"
         /\ t \in Confirm \cup {"UsePrts", "ClickCorner", "CloseStonePage"} => Leads(t) = "stage"
         /\ t \notin Confirm \cup {"StartButton1", "StartButton2", "UsePrts", "ClickCorner", "CloseStonePage"}
              => Leads(t) = screen
<1>1. Entrance \in {"formation"} \cup Refill
  BY DEF Entrance, Refill
<1>2. CASE t \in {"StartButton1", "StartButton2", "UsePrts", "ClickCorner"}
  BY <1>1, <1>2 DEF MetOn, LeftOn, Leads, Confirm
<1>3. CASE t \in Confirm \cup {"CloseStonePage"}
  BY <1>3 DEF MetOn, LeftOn, Leads, Confirm, Refill
<1>4. CASE t \in {"FightBegin", "PRTS", "EndOfAction", "UseMedicine", "ExpiringMedicineCheck", "UseStone",
                  "NoStone", "Stop"}
  <2>1. Leads(t) = screen /\ LeftOn(t) = MetOn(t) /\ t \notin Confirm
    BY <1>4 DEF MetOn, LeftOn, Leads, Confirm
  <2> QED
    BY <1>4, <2>1
<1> QED
  BY <1>2, <1>3, <1>4 DEF OfCourse

\* What a click gives back on the way: a confirmation, the click of the blue button.
LEMMA CourseReduces ==
  ASSUME Shape, NEW t \in OfCourse,
         exec' = [u \in Task |-> IF u \in ReducesOf(t) /\ exec[u] > 0 THEN exec[u] - 1 ELSE exec[u]]
  PROVE  /\ \A u \in Confirm \cup {"StartButton2"} : exec'[u] = exec[u]
         /\ t \notin Confirm => exec'["StartButton1"] = exec["StartButton1"]
         /\ t \in Confirm /\ exec["StartButton1"] > 0 => exec'["StartButton1"] = exec["StartButton1"] - 1
         /\ \A u \in Task : exec[u] = 0 => exec'[u] = 0
<1>1. Confirm \cup {"StartButton2", "StartButton1"} \subseteq Task
  BY DEF Confirm, Task
<1>2. ReducesOf(t) = IF t \in Confirm THEN {"StartButton1"} ELSE IF t = "EndOfAction" THEN {"FightMissionFailed"} ELSE {}
  BY DEF ReducesOf, OfCourse, Confirm
<1>3. \A u \in Confirm \cup {"StartButton2"} : u \notin ReducesOf(t)
  BY <1>2 DEF Confirm
<1>4. t \notin Confirm => "StartButton1" \notin ReducesOf(t)
  BY <1>2
<1>5. t \in Confirm => "StartButton1" \in ReducesOf(t)
  BY <1>2
<1> QED
  BY <1>1, <1>3, <1>4, <1>5

\* The click does what the page is for.
LEMMA ActOnCourse ==
  ASSUME OnTheWay, Act, lost' = lost
  PROVE  OnCourse' /\ Exact' /\ InOrder'
<1> USE DEF OnTheWay
<1>1. /\ pc = "before" /\ pc' = "after" /\ cur \in Task
      /\ UNCHANGED <<names, cur, given, finished>>
      /\ exec' = [t \in Task |-> IF t \in ReducesOf(cur) /\ exec[t] > 0 THEN exec[t] - 1 ELSE exec[t]]
  BY ActFacts
<1>2. screen' = Leads(cur) /\ Pays(cur)
  <2>1. lost + 1 # lost
    BY DEF FInv, Shape
  <2> QED
    BY <2>1, ActFacts
<1>3. allowed' = allowed
  BY DEF Act, PT!Act
<1>4. cur \in OfCourse /\ screen \in MetOn(cur)
  BY <1>1, CourseCur DEF Engaged, Chosen
<1>5. /\ screen' \in LeftOn(cur)
      /\ cur = "StartButton1" => screen' = Entrance
      /\ cur = "StartButton2" => screen' = "battle"
      /\ cur \in Confirm \cup {"UsePrts", "ClickCorner", "CloseStonePage"} => screen' = "stage"
      /\ cur \notin Confirm \cup {"StartButton1", "StartButton2", "UsePrts", "ClickCorner", "CloseStonePage"}
           => screen' = screen
  BY <1>2, <1>4, CourseLeads
<1>6. cur \notin Confirm => UNCHANGED purse
  BY <1>2 DEF Pays
<1>7. /\ \A u \in Confirm \cup {"StartButton2"} : exec'[u] = exec[u]
      /\ cur \notin Confirm => exec'["StartButton1"] = exec["StartButton1"]
      /\ cur \in Confirm /\ exec["StartButton1"] > 0 => exec'["StartButton1"] = exec["StartButton1"] - 1
      /\ \A u \in Task : exec[u] = 0 => exec'[u] = 0
  BY <1>1, <1>4, CourseReduces DEF FInv
<1>8. OnCourse'
  BY <1>1, <1>5 DEF OnCourse
<1>9. LimitsAsGiven'
  BY <1>1, <1>3, <1>7 DEF Exact, LimitsAsGiven
<1>10. PurseFits'
  <2> USE DEF Exact, PurseFits
  <2>1. CASE cur \in Confirm
    <3>1. screen' = "stage" /\ screen \in {"medicine", "stone"}
      BY <1>4, <1>5, <2>1 DEF MetOn, Confirm
    <3>2. sanity' \in Nat /\ stock' \in Nat /\ oldStock' \in Nat /\ stones' \in Nat
      <4>1. CASE screen = "medicine" /\ oldStock > 0
        BY <1>2, <2>1, <4>1 DEF Pays
      <4>2. CASE screen = "medicine" /\ oldStock = 0
        BY <1>2, <2>1, <4>2 DEF Pays
      <4>3. CASE screen = "stone"
        <5>1. stones > 0
          BY <4>3
        <5> QED
          BY <1>2, <2>1, <4>3, <5>1 DEF Pays
      <4> QED
        BY <3>1, <4>1, <4>2, <4>3
    <3> QED
      BY <3>1, <3>2 DEF Refill
  <2>2. CASE cur = "StartButton1"
    <3>1. UNCHANGED <<sanity, stock, oldStock, stones>> /\ screen' = Entrance
      BY <1>5, <1>6, <2>2 DEF purse, Confirm
    <3> QED
      BY <3>1 DEF Entrance, Refill
  <2>3. CASE cur = "StartButton2"
    <3>1. UNCHANGED <<sanity, stock, oldStock, stones>> /\ screen' = "battle" /\ screen = "formation"
      BY <1>4, <1>5, <1>6, <2>3 DEF purse, Confirm, MetOn
    <3> QED
      BY <3>1 DEF Refill
  <2>4. CASE cur \notin Confirm \cup {"StartButton1", "StartButton2"}
    <3>1. UNCHANGED <<sanity, stock, oldStock, stones>> /\ screen' \in {screen, "stage"}
      BY <1>5, <1>6, <2>4 DEF purse
    <3> QED
      BY <3>1 DEF Refill
  <2> QED
    BY <2>1, <2>2, <2>3, <2>4
<1>11. ButtonsExact'
  <2>1. SUFFICES ASSUME cur \notin {"CloseStonePage", "Stop"} PROVE ButtonsExact'
    BY <1>1 DEF ButtonsExact
  <2>2. exec["StartButton1"] \in Nat /\ exec["StartButton2"] \in Nat /\ finished \in Nat
    BY DEF FInv, Shape, Task
  <2>3. /\ exec["StartButton1"] =
             finished + (IF cur = "StartButton1" \/ screen \in {"formation", "battle"} \cup Refill THEN 1 ELSE 0)
        /\ exec["StartButton2"] = finished + (IF cur = "StartButton2" \/ screen = "battle" THEN 1 ELSE 0)
        /\ exec["StartButton1"] <= Times
    BY <1>1, <2>1 DEF Exact, ButtonsExact
  <2>4. exec'["StartButton2"] = exec["StartButton2"]
    BY <1>7
  <2>5. /\ exec'["StartButton1"] = finished + (IF screen' \in {"formation", "battle"} \cup Refill THEN 1 ELSE 0)
        /\ exec'["StartButton2"] = finished + (IF screen' = "battle" THEN 1 ELSE 0)
        /\ exec'["StartButton1"] <= Times
    <3>1. CASE cur \in Confirm
      <4>1. screen' = "stage" /\ screen \in Refill /\ cur \notin {"StartButton1", "StartButton2"}
        BY <1>4, <1>5, <3>1 DEF MetOn, Confirm, Refill
      <4> QED
        BY <1>7, <2>2, <2>3, <2>4, <3>1, <4>1, ParamsAssumption DEF Refill
    <3>2. CASE cur \in {"StartButton1", "StartButton2", "UsePrts", "ClickCorner"}
      <4>1. cur \notin Confirm /\ exec'["StartButton1"] = exec["StartButton1"]
        BY <1>7, <3>2 DEF Confirm
      <4>2. /\ cur = "StartButton1" => screen = "stage" /\ screen' \in {"formation"} \cup Refill
            /\ cur = "StartButton2" => screen = "formation" /\ screen' = "battle"
            /\ cur \in {"UsePrts", "ClickCorner"} => screen \in {"unticked", "result"} /\ screen' = "stage"
        <5>1. cur = "StartButton1" => screen = "stage" /\ screen' \in {"formation"} \cup Refill
          BY <1>4, <1>5 DEF MetOn, LeftOn, Confirm
        <5>2. cur = "StartButton2" => screen = "formation" /\ screen' = "battle"
          BY <1>4, <1>5 DEF MetOn
        <5>3. cur = "UsePrts" => screen = "unticked" /\ screen' = "stage"
          BY <1>4, <1>5 DEF MetOn
        <5>4. cur = "ClickCorner" => screen = "result" /\ screen' = "stage"
          BY <1>4, <1>5 DEF MetOn
        <5> QED
          BY <5>1, <5>2, <5>3, <5>4
      <4> QED
        BY <2>2, <2>3, <2>4, <3>2, <4>1, <4>2 DEF Refill
    <3>3. CASE cur \notin Confirm \cup {"StartButton1", "StartButton2", "UsePrts", "ClickCorner", "CloseStonePage"}
      <4>1. screen' = screen /\ exec'["StartButton1"] = exec["StartButton1"]
        BY <1>5, <1>7, <3>3
      <4> QED
        BY <2>2, <2>3, <2>4, <3>3, <4>1
    <3> QED
      BY <2>1, <3>1, <3>2, <3>3
  <2> QED
    BY <1>1, <2>5 DEF ButtonsExact
<1>12. SpentExact'
  <2>1. SpentAndExec
    BY SpentIsNat DEF FInv
  <2>2. \A t \in Confirm : exec'[t] = exec[t]
    BY <1>7
  <2>3. \A ts : ToClick(ts)' = 0 /\ ToClick(ts) = (IF cur \in ts THEN 1 ELSE 0)
    BY <1>1 DEF ToClick
  <2>4. /\ spent'.stones = spent.stones + (IF cur = "StoneConfirm" THEN 1 ELSE 0)
        /\ spent'.stock + spent'.oldStock =
             spent.stock + spent.oldStock
               + (IF cur \in {"MedicineConfirm", "ExpiringMedicineConfirm"} THEN 1 ELSE 0)
    <3>1. CASE cur \in Confirm
      <4>1. screen = IF cur = "StoneConfirm" THEN "stone" ELSE "medicine"
        BY <1>4, <3>1 DEF MetOn, Confirm
      <4> QED
        BY <1>1, <1>2, <2>1, <3>1, <4>1, PaysFor DEF FInv, Confirm, SpentAndExec
    <3>2. CASE cur \notin Confirm
      <4>1. spent' = spent
        BY <1>6, <3>2 DEF purse
      <4> QED
        BY <2>1, <3>2, <4>1 DEF Confirm, SpentAndExec
    <3> QED
      BY <3>1, <3>2
  <2> QED
    BY <2>1, <2>2, <2>3, <2>4 DEF Exact, SpentExact, Confirm, SpentAndExec
<1>13. InOrder'
  <2>1. exec'["MedicineConfirm"] = exec["MedicineConfirm"]
    BY <1>7 DEF Confirm
  <2>2. cur \in {"CloseStonePage", "Stop"} => Earned' = Earned
    BY <1>1, <1>6, EarnedKept DEF Confirm
  <2> QED
    BY <1>1, <2>1, <2>2 DEF InOrder
<1> QED
  BY <1>8, <1>9, <1>10, <1>11, <1>12, <1>13 DEF Exact

\* The other steps of run() neither look at the screen nor touch it.
LEMMA DecideOnCourse ==
  ASSUME OnTheWay, Decide
  PROVE  Course'
<1> USE DEF OnTheWay, FInv
<1>0. UNCHANGED <<gameVars, enough>> /\ errors' \in Nat /\ subs = <<>> /\ pc # "failed" /\ pc # "missed"
  BY DEF Decide, gameVars, faults, Shape, OnCourse
<1>1. CASE PT!Run
  <2>1. /\ pc = "called" /\ pc' = "top" /\ names' = raw /\ UNCHANGED <<cur, exec, given, allowed>>
    BY <1>1 DEF PT!Run, PT!Goes, PT!countVars, PT!limitVars
  <2>2. cur = NoTask /\ raw = <<"FightBegin">> /\ screen \in MetOn("FightBegin")
    BY <2>1 DEF OnCourse
  <2>3. OnCourse'
    BY <1>0, <2>1, <2>2 DEF OnCourse, gameVars
  <2>4. Exact'
    BY <1>0, <2>1, ExactKept
  <2>5. InOrder'
    <3>1. {"CloseStonePage", "Stop", "ExpiringMedicineCheck", "ExpiringMedicineConfirm", "MedicineConfirm"}
            \subseteq Task
      BY DEF Task
    <3>2. <<"FightBegin">> # <<"CloseStonePage">> /\ <<"FightBegin">> # <<"Stop">>
      OBVIOUS
    <3> QED
      BY <2>1, <2>2, <3>1, <3>2, NoTaskAssumption DEF InOrder
  <2> QED
    BY <1>0, <2>3, <2>4, <2>5 DEF Course
<1>2. CASE PT!NothingLeft
  <2>1. pc = "top" /\ names = <<>>
    BY <1>2 DEF PT!NothingLeft
  <2>2. \E k \in 1..Len(names) : TRUE
    BY <2>1, CourseFinds DEF Exact
  <2> QED
    BY <2>1, <2>2
<1>3. CASE PT!SeesExit
  BY <1>0, <1>3 DEF PT!SeesExit, PT!Goes, Course
<1>4. CASE PT!Exceeded
  BY <1>0, <1>4, ExceededOnCourse DEF Course
<1>5. CASE PT!Take
  BY <1>0, <1>5, TakeOnCourse DEF Course
<1>6. CASE PT!BeginSubs
  <2>1. pc = "after" /\ pc' = "subs" /\ UNCHANGED <<names, cur, exec, given, allowed>>
    BY <1>6 DEF PT!BeginSubs, PT!Goes, PT!countVars, PT!limitVars
  <2>2. OnCourse'
    BY <1>0, <2>1 DEF OnCourse, gameVars
  <2>3. Exact'
    BY <1>0, <2>1, ExactKept
  <2>4. InOrder'
    BY <1>0, <2>1, EarnedKept DEF InOrder, gameVars
  <2> QED
    BY <1>0, <2>2, <2>3, <2>4 DEF Course
<1>7. CASE PT!ExceededLate
  BY <1>7 DEF PT!ExceededLate, PT!ExceededAfter, PT!Goes, Exact, LimitsAsGiven
<1>8. CASE PT!Stop
  <2>1. pc = "subs" /\ pc' = "returned" /\ cur \in Task
    BY <1>8 DEF PT!Stop, PT!Returns, OnCourse
  <2>2. cur \in OfCourse /\ screen \in LeftOn(cur)
    BY <2>1, CourseCur DEF Engaged, Chosen
  <2>3. cur = "Stop"
    <3>1. cur = "Stop" \/ NextOf(cur) = <<>>
      BY <1>8, <2>1 DEF PT!Stop, Info
    <3>2. \A t \in OfCourse \ {"Stop"} : Len(NextOf(t)) # 0
      BY CourseLists DEF OfCourse
    <3> QED
      BY <2>2, <3>1, <3>2
  <2>4. screen' = "stage"
    BY <1>0, <2>2, <2>3 DEF LeftOn, MetOn, Confirm, gameVars
  <2>5. Earned'
    BY <1>0, <2>3, EarnedKept DEF InOrder, gameVars
  <2> QED
    BY <1>0, <2>1, <2>4, <2>5 DEF Course
<1>9. CASE PT!GoesOn
  <2>1. /\ pc = "subs" /\ pc' = "top" /\ cur \in Task /\ names' = NextOf(cur) /\ cur # "Stop"
        /\ UNCHANGED <<cur, exec, given, allowed>>
    <3>1. pc = "subs" /\ cur \in Task
      BY <1>9 DEF PT!GoesOn, PT!Goes, OnCourse
    <3> QED
      BY <1>9, <3>1 DEF PT!GoesOn, PT!Goes, PT!countVars, PT!limitVars, Info
  <2>2. cur \in OfCourse /\ screen \in LeftOn(cur)
    BY <2>1, CourseCur DEF Engaged, Chosen
  <2>3. OnCourse'
    BY <1>0, <2>1, <2>2 DEF OnCourse, gameVars
  <2>4. Exact'
    BY <1>0, <2>1, ExactKept
  <2>5. InOrder'
    <3>1. cur = "MedicineConfirm" => NextOf(cur) # ExceededNextOf(cur)
      <4>1. NextOf("MedicineConfirm")[1] = "StartButton1"
        BY CourseLists DEF Confirm
      <4>2. ExceededNextOf("MedicineConfirm")[1] = "ExpiringMedicineCheck"
        BY CourseExceeded
      <4> QED
        BY <4>1, <4>2
    <3>2. NextOf(cur) \in {<<"CloseStonePage">>, <<"Stop">>} => cur \in {"NoStone", "CloseStonePage"}
      <4>1. \A t \in {"FightBegin", "UsePrts", "StartButton1", "StartButton2", "PRTS", "EndOfAction"}
                      \cup {"UseMedicine", "ExpiringMedicineCheck", "UseStone"} \cup Confirm :
              NextOf(t) # <<"CloseStonePage">> /\ NextOf(t) # <<"Stop">>
        BY CourseLists
      <4>2. NextOf("ClickCorner") # <<"CloseStonePage">> /\ NextOf("ClickCorner") # <<"Stop">>
        BY CourseLists
      <4> QED
        BY <2>1, <2>2, <4>1, <4>2 DEF OfCourse
    <3>3. cur = "NoStone" => Earned
      <4>1. cur = "NoStone" => screen = "noStone"
        BY <2>2 DEF LeftOn, MetOn, Confirm
      <4> QED
        BY <4>1 DEF Exact, PurseFits, Refill, Earned, NothingToSpend
    <3>4. Earned' = Earned
      BY <1>0, EarnedKept DEF gameVars
    <3> QED
      BY <2>1, <3>1, <3>2, <3>3, <3>4 DEF InOrder
  <2> QED
    BY <1>0, <2>3, <2>4, <2>5 DEF Course
<1>10. CASE PT!SubDone \/ PT!SubFails \/ PT!GivesUp \/ PT!TriesAgain \/ PT!OnErrorNext \/ PT!Fails
  BY <1>0, <1>10 DEF PT!SubDone, PT!SubFails, PT!GivesUp, PT!TriesAgain, PT!OnErrorNext, PT!Fails, PT!Goes
<1> QED
  BY <1>1, <1>2, <1>3, <1>4, <1>5, <1>6, <1>7, <1>8, <1>9, <1>10 DEF Decide, PT!Decide

\* A battle is won: the counters are as many as the battles again.
LEMMA WinOnCourse ==
  ASSUME OnTheWay, BattleEnds
  PROVE  OnCourse' /\ Exact' /\ InOrder'
<1> USE DEF OnTheWay, FInv
<1>1. /\ screen = "battle" /\ screen' = "result" /\ sanity' = sanity - 1 /\ finished' = finished + 1
      /\ UNCHANGED <<pc, raw, names, cur, exec, given, allowed, stock, oldStock, stones, spent>>
  BY DEF BattleEnds, taskVars
<1>2. /\ cur \in {"StartButton2", "PRTS"}
      /\ pc \in {"top", "chosen", "before", "after", "subs"}
      /\ pc \in {"chosen", "before"} => cur = "PRTS"
      /\ pc = "top" => names = NextOf(cur)
  BY <1>1 DEF OnCourse, MetOn, LeftOn, Refill, Confirm
<1>3. OnCourse'
  <2>1. /\ cur \in Task \ {"Stop"} /\ screen' \in LeftOn(cur)
        /\ cur = "PRTS" => screen' \in MetOn(cur)
    BY <1>1, <1>2 DEF MetOn, LeftOn, Confirm, Task
  <2> QED
    BY <1>1, <1>2, <2>1 DEF OnCourse
<1>4. LimitsAsGiven'
  BY <1>1 DEF Exact, LimitsAsGiven
<1>5. PurseFits'
  BY <1>1 DEF Exact, PurseFits, Refill
<1>6. ButtonsExact'
  <2>1. exec["StartButton1"] \in Nat /\ exec["StartButton2"] \in Nat /\ finished \in Nat
    BY DEF Shape, Task
  <2>2. /\ exec["StartButton1"] = finished + 1 /\ exec["StartButton2"] = finished + 1
        /\ exec["StartButton1"] <= Times
    BY <1>1, <1>2 DEF Exact, ButtonsExact
  <2>3. ~(pc = "before" /\ cur \in {"StartButton1", "StartButton2"})
    BY <1>2
  <2> QED
    BY <1>1, <2>1, <2>2, <2>3 DEF ButtonsExact, Refill
<1>7. SpentExact'
  BY <1>1 DEF Exact, SpentExact, ToClick
<1>8. InOrder'
  <2>1. ~(pc = "top" /\ names \in {<<"CloseStonePage">>, <<"Stop">>})
    <3>1. NextOf("StartButton2")[1] = "PRTS" /\ NextOf("PRTS")[1] = "PRTS"
      BY CourseLists
    <3> QED
      BY <1>2, <3>1
  <2> QED
    BY <1>1, <1>2, <2>1 DEF InOrder
<1> QED
  BY <1>3, <1>4, <1>5, <1>6, <1>7, <1>8 DEF Exact

\* The fight begins on its course.
LEMMA InitOnCourse == ASSUME Init PROVE Course
<1>1. /\ pc = "called" /\ raw = <<"FightBegin">> /\ names = <<>> /\ cur = NoTask
      /\ exec = [t \in Task |-> 0] /\ given = Params
  BY DEF Init, PT!Init
<1>2. /\ screen \in {"unticked", "stage"} /\ spent = [stock |-> 0, oldStock |-> 0, stones |-> 0]
      /\ finished = 0 /\ errors = 0
      /\ sanity \in Nat /\ stock \in Nat /\ oldStock \in Nat /\ stones \in Nat
  BY ParamsAssumption DEF Init
<1>3. {"CloseStonePage", "Stop", "ExpiringMedicineCheck", "ExpiringMedicineConfirm", "MedicineConfirm",
       "StoneConfirm", "StartButton1", "StartButton2"} \subseteq Task
  BY DEF Task
<1>4. OnCourse
  BY <1>1, <1>2 DEF OnCourse, MetOn
<1>5. LimitsAsGiven
  BY <1>1 DEF LimitsAsGiven
<1>6. PurseFits
  BY <1>2 DEF PurseFits, Refill
<1>7. ButtonsExact
  BY <1>1, <1>2, <1>3, ParamsAssumption DEF ButtonsExact, Refill
<1>8. SpentExact
  BY <1>1, <1>2, <1>3 DEF SpentExact, ToClick
<1>9. InOrder
  BY <1>1, <1>3, NoTaskAssumption DEF InOrder
<1> QED
  BY <1>2, <1>4, <1>5, <1>6, <1>7, <1>8, <1>9 DEF Course, Exact

\* Every step keeps the fight on its course, or disturbs it, or is the user's.
LEMMA NextOnCourse == ASSUME FInv, Course, [Next]_vars PROVE Course'
<1>1. errors' \in Nat
  BY DEF Course, Next, TaskStep, Decide, Look, Act, TakesClick, LosesClick, StopTask, UserStops, BattleEnds,
         BattleErrors, Disconnects, vars, gameVars, faults
<1>2. SUFFICES ASSUME Undisturbed' PROVE Course'
  BY <1>1 DEF Course
<1>3. drops \in Nat /\ lost \in Nat /\ errors \in Nat
  BY DEF FInv, Shape, Course
<1>4. ~StopTask /\ ~BattleErrors /\ ~Disconnects
  BY <1>2, <1>3 DEF Undisturbed, StopTask, BattleErrors, Disconnects
<1>5. Undisturbed /\ lost' = lost
  <2>1. \/ Decide \/ Look \/ Act \/ UserStops \/ BattleEnds \/ UNCHANGED vars
    BY <1>4 DEF Next, TaskStep
  <2>2. UNCHANGED <<drops, errors, enough>> /\ lost' \in {lost, lost + 1}
    BY <2>1 DEF Decide, Look, Act, TakesClick, LosesClick, UserStops, BattleEnds, vars, gameVars, faults
  <2> QED
    BY <1>2, <1>3, <2>2 DEF Undisturbed
<1>6. CASE UserStops \/ UNCHANGED vars
  <2>1. UNCHANGED <<pc, raw, names, cur, exec, given, allowed, result, gameVars, enough>>
        /\ (needExit => needExit')
    BY <1>6 DEF UserStops, PT!StopOrStart, PT!runVars, PT!countVars, PT!limitVars, vars, taskVars
  <2>2. OnCourse => OnCourse'
    BY <2>1 DEF OnCourse, gameVars
  <2>3. Exact => Exact'
    BY <2>1 DEF Exact, LimitsAsGiven, PurseFits, ButtonsExact, SpentExact, ToClick, gameVars, purse
  <2>4. Earned' = Earned
    BY <2>1, EarnedKept DEF gameVars
  <2>5. InOrder => InOrder'
    BY <2>1, <2>4 DEF InOrder
  <2> QED
    BY <1>1, <1>5, <2>1, <2>2, <2>3, <2>4, <2>5 DEF Course, gameVars
<1>7. CASE OnTheWay /\ (Decide \/ Look \/ Act \/ BattleEnds)
  BY <1>1, <1>5, <1>7, DecideOnCourse, LookOnCourse, ActOnCourse, WinOnCourse DEF Course
<1>8. CASE pc = "missed" /\ needExit /\ (Decide \/ Look \/ Act)
  BY <1>1, <1>8 DEF Course, Decide, Look, Act, PT!Decide, PT!Look, PT!Act, PT!Goes, PT!Returns, PT!Run,
       PT!NothingLeft, PT!SeesExit, PT!Exceeded, PT!Take, PT!BeginSubs, PT!SubDone, PT!SubFails,
       PT!ExceededLate, PT!Stop, PT!GoesOn, PT!GivesUp, PT!TriesAgain, PT!OnErrorNext, PT!Fails,
       PT!Recognise, PT!RecognisesNothing
<1>9. CASE pc = "missed" /\ needExit /\ BattleEnds
  BY <1>1, <1>9 DEF Course, BattleEnds, taskVars
<1>10. CASE pc = "returned" /\ (Decide \/ Look \/ Act)
  BY <1>10 DEF Decide, Look, Act, PT!Decide, PT!Look, PT!Act, PT!Goes, PT!Returns, PT!Run,
       PT!NothingLeft, PT!SeesExit, PT!Exceeded, PT!Take, PT!BeginSubs, PT!SubDone, PT!SubFails,
       PT!ExceededLate, PT!Stop, PT!GoesOn, PT!GivesUp, PT!TriesAgain, PT!OnErrorNext, PT!Fails,
       PT!Recognise, PT!RecognisesNothing
<1>11. CASE pc = "returned" /\ (result = TRUE => Earned /\ screen = "stage") /\ BattleEnds
  BY <1>1, <1>11 DEF Course, BattleEnds, taskVars
<1>12. Decide \/ Look \/ Act \/ BattleEnds \/ UserStops \/ UNCHANGED vars
  BY <1>4 DEF Next, TaskStep
<1> QED
  BY <1>5, <1>6, <1>7, <1>8, <1>9, <1>10, <1>11, <1>12 DEF Course, OnTheWay

\* When the game fails in nothing, a fight that reports success has fought as
\* often as set_params asked, has been ended by the plugin, or has spent what it
\* was allowed to, whatever the params and the player's stock are.
THEOREM SuccessIsDeserved == Spec => []SuccessIsEarned
<1>1. FInv /\ Course => SuccessIsEarned
  BY DEF Course, Undisturbed, OnCourse, Earned, SuccessIsEarned
<1>2. Init => FInv /\ Course
  BY InitInv, InitOnCourse
<1>3. FInv /\ Course /\ [Next]_vars => FInv' /\ Course'
  BY NextInv, NextOnCourse
<1> QED
  BY <1>1, <1>2, <1>3, PTL DEF Spec
=============================================================================
