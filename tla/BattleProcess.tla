--------------------------- MODULE BattleProcess ---------------------------
(***************************************************************************)
(* A battle fought by a plan: BattleProcessTask, of CopilotTask, and       *)
(* SSSBattleProcessTask, which besides deploys by strategies while it      *)
(* waits.  One action of the plan after the other waits for its condition  *)
(* and is carried out; what it returns nobody looks at.                    *)
(***************************************************************************)
EXTENDS BattleHelper

CONSTANTS
  MaxActions,     \* bound on the length of a plan
  ToolMen         \* bound on the tool men of a strategy

VARIABLE combat   \* the plan, as far as it is known yet, and m_in_bullet_time

combatVars == <<worker, battle, combat>>

NoAction == [type |-> "none"]
Acting ==
  [type : {"Deploy"}, oper : Oper, tile : Tile]
    \cup [type : {"Retreat", "UseSkill"}, oper : Oper] \cup [type : {"Retreat"}, tile : Tile]
    \cup [type : {"BulletTime"}, oper : Oper] \cup [type : {"MoveCamera", "SkillDaemon", "Other"}]

\* sss: a strategy deploys so many tool men at its place and then its core.
CombatInit ==
  /\ FieldInit
  /\ combat \in [left : {MaxActions}, action : {NoAction}, bullet : {FALSE}, sss : BOOLEAN,
                 core : Oper \cup {Nobody}, men : 0..ToolMen, tile : Tile]
  /\ ~combat.sss => combat.core = Nobody /\ combat.men = 0 /\ combat.tile = CHOOSE t \in Tile : TRUE

SameGame == UNCHANGED war

\* _run, up to the first look; SSS clicks a button before.
BattleBegins ==
  /\ at = "run"
  /\ UNCHANGED <<war, combat>>
  /\ \/ RunFails(0) /\ UNCHANGED field
     \/ Goes("begin") /\ field' = Cleared0

FirstLook ==
  /\ at = "begin" /\ WaitUntilStart
  /\ \E in \in BOOLEAN : UpdateDeployment(in)
  /\ Goes("next")
  /\ UNCHANGED combat

\* The plan is over, or the battle, or a stop was seen; SSS waits for the end.
PlanEnds ==
  /\ at = "next"
  /\ Goes(IF combat.sss THEN "end" ELSE "succeeded")
  /\ UNCHANGED <<battle, combat>>

NextAction(a) ==
  /\ at = "next" /\ combat.left > 0 /\ ~stopped /\ field.inBattle
  /\ combat' = [combat EXCEPT !.left = @ - 1, !.action = a]
  /\ Goes("wait")
  /\ UNCHANGED battle

-----------------------------------------------------------------------------
Acted(bullet) == Goes("next") /\ combat' = [combat EXCEPT !.bullet = bullet, !.action = NoAction]

Waits == at \in {"wait", "end"} /\ ~stopped

\* wait_condition: a round of it that goes on waiting, one that finds the battle over
WaitOn == Waits /\ at = "wait" /\ UpdateDeployment(TRUE) /\ Stays /\ UNCHANGED combat

WaitFails ==
  /\ at = "wait"
  /\ UpdateDeployment(FALSE)
  /\ Acted(combat.bullet)

\* The condition holds, or a stop ends all loops; a deployment waits for its operator.
WaitDone ==
  /\ at = "wait"
  /\ \/ stopped
     \/ combat.action.type = "Deploy" /\ ~combat.bullet => field.inBattle /\ field.deck[combat.action.oper] = "ready"
  /\ Goes("act")
  /\ UNCHANGED <<battle, combat>>

\* check_and_do_strategy: a tool man whose cost is there, or the core after them
StrategyMan(o) ==
  /\ Waits /\ combat.sss /\ combat.men > 0 /\ o # combat.core /\ war.phase = "on"
  /\ Reading[o] = "ready" /\ DeployOper(WithoutCooling, o, combat.tile)
  /\ combat' = [combat EXCEPT !.men = @ - 1]
  /\ Stays

StrategyCore ==
  /\ Waits /\ combat.sss /\ combat.men = 0 /\ combat.core # Nobody /\ war.phase = "on"
  /\ Reading[combat.core] = "ready" /\ DeployOper(WithoutCooling, combat.core, combat.tile)
  /\ combat' = [combat EXCEPT !.core = Nobody]
  /\ Stays

-----------------------------------------------------------------------------
\* do_action.  After what succeeds in bullet time the game runs on.
Act(type) == at = "act" /\ combat.action.type = type
Same == UNCHANGED battle

ActDeploy ==
  /\ Act("Deploy")
  /\ \/ field.deck[combat.action.oper] = "absent" /\ Same /\ Acted(combat.bullet)
     \/ /\ field.deck[combat.action.oper] # "absent"
        /\ DeployOper(field, combat.action.oper, combat.action.tile)
        /\ Acted(FALSE)

\* In bullet time it is a click on the button of whoever is selected, and no note.
ActRetreat ==
  /\ Act("Retreat")
  /\ \/ Same /\ Acted(combat.bullet)
     \/ Sub(TRUE) /\ Acted(FALSE)
        /\ IF combat.bullet THEN \E o \in Oper : Leaves({o} \cap {p \in Oper : Stands(p)}) /\ UNCHANGED field
           ELSE IF "oper" \in DOMAIN combat.action THEN RetreatOper(combat.action.oper)
                                                  ELSE RetreatFrom(combat.action.tile)

ActUseSkill == Act("UseSkill") /\ Same /\ \E done \in BOOLEAN : Sub(done) /\ Acted(combat.bullet /\ ~done)

\* It looks at the next action, which must be there and of the right kind.
ActBulletTime ==
  /\ Act("BulletTime") /\ Same
  /\ \/ combat.left > 0 /\ \E done \in BOOLEAN : Acted(combat.bullet \/ done)
     \/ Goes("thrown") /\ UNCHANGED combat

\* move_camera waits for the wave that runs to end, and begins anew.
ActMoveCamera ==
  /\ Act("MoveCamera")
  /\ \E in \in BOOLEAN : UpdateDeployment(in)
  /\ Acted(combat.bullet)

\* wait_until_end, of SkillDaemon and at the end of SSS
WaitForEnd ==
  /\ Act("SkillDaemon") \/ at = "end"
  /\ stopped \/ war.phase = "over" \/ FALSE \in SeesBattle
  /\ IF stopped THEN UNCHANGED field ELSE WaitUntilEnd
  /\ SameGame
  /\ IF at = "end" THEN Goes("succeeded") /\ UNCHANGED combat ELSE Acted(combat.bullet)

ActOther == Act("Other") /\ Same /\ Acted(combat.bullet)

CombatTask ==
  \/ BattleBegins \/ FirstLook \/ PlanEnds \/ (\E a \in Acting : NextAction(a))
  \/ WaitOn \/ WaitFails \/ WaitDone \/ StrategyCore \/ (\E o \in Oper : StrategyMan(o))
  \/ ActDeploy \/ ActRetreat \/ ActUseSkill \/ ActBulletTime \/ ActMoveCamera \/ WaitForEnd \/ ActOther

CombatNext == CombatTask \/ (GameNext(at \notin {"run", "begin"}) /\ UNCHANGED combat)
=============================================================================
