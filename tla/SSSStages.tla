------------------------------ MODULE SSSStages ------------------------------
(***************************************************************************)
(* Stationary Security Service: SSSStageManagerTask fights stage after     *)
(* stage, each at most retry_times + 1 times, and settles when one cannot  *)
(* be won or is not in the plan.  Before a fight the game offers recruits, *)
(* of whom SSSDropRewardsTaskPlugin takes one; in the battle               *)
(* SSSBattleProcessTask draws cards, takes what is given at half time, and *)
(* gives up if its squad is not good enough (what else it does is in       *)
(* BattleProcess).  What these return the stage manager does not ask.      *)
(*                                                                         *)
(* The game: how far one has come, and what it shows.  It may be misread,  *)
(* and clicks may be lost.                                                 *)
(***************************************************************************)
EXTENDS Worker, FiniteSets, SequencesExt, FiniteSetsExt

CONSTANTS
  Towers,       \* the stages of the game in their order, of each tower
  Planned,      \* retry_times of those in stages_data
  Drops,        \* order_of_drops: names and roles
  Blacklist,    \* names
  RoleOf,       \* the roles of the recruits, or NoRole
  NoRole,
  MaxOffers     \* bound on the offers before a fight

Stages == UNION {ToSet(stages) : stages \in Towers}

ASSUME SSSAssumption ==
  /\ DOMAIN Planned \subseteq Stages /\ \A s \in DOMAIN Planned : Planned[s] \in Nat
  /\ Drops \in Seq(ToSet(Drops)) /\ NoRole \notin ToSet(Drops) /\ MaxOffers \in Nat

VARIABLES
  climb,   \* m_stage_try_times and the stage that was read
  tower    \* the game, and what became of it

climbVars == <<worker, climb, tower>>

Recruits == DOMAIN RoleOf
Nothing == <<>>

\* doubt: something was misread, or a click was lost
ClimbInit ==
  /\ climb = [tries |-> Nothing, stage |-> Nothing]
  /\ \E stages \in Towers : tower =
       [stages |-> stages, level |-> 1, screen |-> "ready", offers |-> Nothing, offered |-> 0, fights |-> [s \in Stages |-> 0],
        deck |-> {}, half |-> FALSE, doubt |-> FALSE, settled |-> FALSE, regret |-> FALSE]

StageNow == tower.stages[tower.level]

-----------------------------------------------------------------------------
\* preprocess_data
ClimbBegins ==
  /\ at = "run" /\ UNCHANGED tower
  /\ climb' = [climb EXCEPT !.tries = [s \in DOMAIN Planned |-> Planned[s] + 1]]
  /\ Goes("confirm")

\* The loop ends with a stop, and the task has succeeded all the same.
ClimbStopped == at = "confirm" /\ stopped /\ Goes("succeeded") /\ UNCHANGED <<climb, tower>>

\* Again and again, up to the page with the next stage or the first one.
ConfirmBattleComplete ==
  /\ at = "confirm" /\ ~stopped /\ tower.screen \in {"ready", "start"}
  /\ Goes("analyze") /\ UNCHANGED <<climb, tower>>

Misses == Goes("missed") /\ UNCHANGED climb

AnalyzeStage ==
  /\ at = "analyze"
  /\ \/ (tower.screen = "start" \/ StageNow \notin DOMAIN Planned) /\ Misses /\ UNCHANGED tower
     \/ tower.screen # "start" /\ Misses /\ tower' = [tower EXCEPT !.doubt = TRUE]
     \/ /\ tower.screen # "start" /\ StageNow \in DOMAIN Planned /\ UNCHANGED tower
        /\ climb' = [climb EXCEPT !.stage = StageNow]
        /\ Goes(IF climb.tries[StageNow] <= 0 THEN "settle" ELSE "start")

\* check_on_start_screen: all stages are passed.
StageMissed ==
  /\ at = "missed" /\ UNCHANGED <<climb, tower>>
  /\ \/ tower.screen = "start" /\ ~stopped /\ Goes("succeeded")
     \/ Goes("settle")

Settle ==
  /\ at = "settle" /\ Goes("succeeded") /\ UNCHANGED climb
  /\ tower' = [tower EXCEPT !.settled = (@ \/ tower.screen # "start")]

-----------------------------------------------------------------------------
\* click_start_button: the game may offer recruits before the battle.
OfferDrops ==
  /\ at = "start" /\ tower.screen = "ready" /\ ~stopped /\ tower.offered < MaxOffers
  /\ \E A \in SUBSET Recruits \ {{}} : \E offers \in SetToSeqs(A) :
       tower' = [tower EXCEPT !.screen = "drops", !.offers = offers, !.offered = @ + 1]
  /\ Stays /\ UNCHANGED climb

Meets(r, wish) == IF wish \in {RoleOf[s] : s \in Recruits} /\ RoleOf[r] # NoRole THEN RoleOf[r] = wish ELSE r = wish

\* The places of those who meet a wish; who is on the blacklist is not seen.
Meeting(offers, wish) == {k \in DOMAIN offers : offers[k] \notin Blacklist /\ Meets(offers[k], wish)}

\* Fault: whoever is there first, if he is wanted.
PickFirst(offers) ==
  LET wanted == UNION {Meeting(offers, Drops[i]) : i \in DOMAIN Drops}
  IN  IF wanted = {} THEN {} ELSE {offers[Min(wanted)]}

\* One wish after the other, and for each the first who meets it; or nobody.
Pick(offers) ==
  LET granted == {i \in DOMAIN Drops : Meeting(offers, Drops[i]) # {}}
  IN  IF granted = {} THEN {} ELSE {offers[Min(Meeting(offers, Drops[Min(granted)]))]}

\* Who is worth most among those that are offered
Wished(r) == {i \in DOMAIN Drops : Meets(r, Drops[i])}
Regrets(offers, picked) ==
  LET good == {r \in ToSet(offers) \ Blacklist : Wished(r) # {}}
  IN  \/ picked = {} /\ good # {}
      \/ \E p \in picked : p \notin good \/ \E r \in good : \E i \in Wished(r) : \A j \in Wished(p) : i < j

\* SSSDropRewardsTaskPlugin; the names may not be recognised, then nothing is confirmed.
DropRewards ==
  /\ at = "start" /\ tower.screen = "drops" /\ ~stopped /\ Stays /\ UNCHANGED climb
  /\ LET picked == Pick(tower.offers)
     IN  tower' = [tower EXCEPT !.screen = "ready", !.offers = Nothing, !.regret = @ \/ Regrets(tower.offers, picked),
                                !.deck = @ \cup picked]

\* Nobody looks whether the battle really begins.
ClickStart ==
  /\ at = "start" /\ Goes("battle") /\ UNCHANGED climb
  /\ \/ tower.screen = "ready" /\ ~stopped /\ tower' = [tower EXCEPT !.screen = "fight", !.offered = 0, !.half = FALSE]
     \/ tower' = [tower EXCEPT !.doubt = TRUE, !.offered = 0]

-----------------------------------------------------------------------------
Fighting == at = "battle" /\ tower.screen = "fight"
InFight == Fighting /\ ~stopped /\ Stays /\ UNCHANGED climb

DrawCard == InFight /\ \E r \in Recruits \ tower.deck : tower' = [tower EXCEPT !.deck = @ \cup {r}]

\* check_and_get_drops: one that is wanted, or none
CheckAndGetDrops ==
  /\ InFight /\ ~tower.half
  /\ \E dropped \in {{}} \cup {{r} : r \in Recruits \cap ToSet(Drops)} : tower' = [tower EXCEPT !.half = TRUE, !.deck = @ \cup dropped]

\* It is one try less, be it that nothing was fought.
EndBattle(next) ==
  /\ tower' = next
  /\ climb' = [climb EXCEPT !.tries[climb.stage] = @ - 1]
  /\ Goes("confirm")

Fought(screen, level) ==
  [tower EXCEPT !.screen = screen, !.level = level, !.fights[StageNow] = @ + 1, !.deck = {}]

\* check_if_start_over: somebody the plan needs is not there, or too few of a role.
Lacks(need) == need \notin tower.deck /\ \A r \in tower.deck : RoleOf[r] # need
CheckIfStartOver == Fighting /\ ~stopped /\ (\E i \in DOMAIN Drops : Lacks(Drops[i])) /\ EndBattle(Fought("ready", tower.level))

FightStage ==
  \/ Fighting /\ EndBattle(Fought("ready", tower.level))
  \/ Fighting /\ ~stopped /\ IF tower.level = Len(tower.stages) THEN EndBattle(Fought("start", tower.level)) ELSE EndBattle(Fought("ready", tower.level + 1))
  \/ Fighting /\ stopped /\ EndBattle(tower)
  \/ at = "battle" /\ ~Fighting /\ EndBattle(tower)

ClimbNext ==
  \/ ClimbBegins \/ ClimbStopped \/ ConfirmBattleComplete \/ AnalyzeStage \/ StageMissed \/ Settle
  \/ OfferDrops \/ DropRewards \/ ClickStart
  \/ DrawCard \/ CheckAndGetDrops \/ CheckIfStartOver \/ FightStage
-----------------------------------------------------------------------------
\* No stage is fought more often than planned; what is settled before the end could not
\* be won, or is not planned, unless something was misread; and of the recruits that
\* were offered nobody was wanted more than who was taken.
StagesAreTried ==
  task = "climb" =>
    /\ \A s \in Stages : tower.fights[s] <= IF s \in DOMAIN Planned THEN Planned[s] + 1 ELSE 0
    /\ tower.settled /\ ~tower.doubt => StageNow \notin DOMAIN Planned \/ tower.fights[StageNow] = Planned[StageNow] + 1
    /\ ~tower.regret
=============================================================================
