---------------------------- MODULE BattleHelper ----------------------------
(***************************************************************************)
(* What the tasks that fight have in common: the list of operators that    *)
(* can be deployed, as it was read last, and who stands where, as far as   *)
(* the task knows.  It knows of its own deployments and retreats; that     *)
(* somebody else has left the field it learns only when it sees him        *)
(* cooling down in the list.                                               *)
(*                                                                         *)
(* The game: who really stands where, who cools down, and whether the      *)
(* battle is on.  Swipes and clicks may be lost; pictures may be blurred,  *)
(* but faces are not mistaken for others.                                  *)
(***************************************************************************)
EXTENDS Worker, FiniteSets

CONSTANTS
  Oper,      \* the operators of the squad
  Tile,      \* the places of the stage
  Nowhere,   \* no place
  Nobody     \* no operator

ASSUME BattleAssumption == Nowhere \notin Tile /\ Nobody \notin Oper

VARIABLES
  field,   \* what BattleHelper keeps
  war      \* the game

battle == <<field, war>>

\* clear()
Cleared0 == [inBattle |-> FALSE,                          \* m_in_battle
             deck     |-> [o \in Oper |-> "absent"],      \* m_cur_deployment_opers
             opers    |-> [o \in Oper |-> Nowhere],       \* m_battlefield_opers
             used     |-> [t \in Tile |-> Nobody]]        \* m_used_tiles

\* doubt: those whose swipe was lost, or who were back before they were seen cooling, or
\* were deployed while the list that was read last still had them cooling
FieldInit ==
  /\ field = Cleared0
  /\ war = [phase |-> "before", stands |-> [o \in Oper |-> Nowhere], cooling |-> {}, doubt |-> {}]

Stands(o) == war.stands[o] # Nowhere
On(t) == {o \in Oper : war.stands[o] = t}

-----------------------------------------------------------------------------
\* The list; for the cost of somebody in it the tasks wait as long as they like.
Reading == [o \in Oper |-> IF Stands(o) THEN "absent" ELSE IF o \in war.cooling THEN "cooling" ELSE "ready"]

\* Fault: who is seen cooling down is kept on the field.
WithoutCoolingKept == [field EXCEPT !.deck = Reading]

\* remove_cooling_from_battlefield, for all who are seen cooling
WithoutCooling ==
  LET gone == {o \in war.cooling : field.opers[o] # Nowhere}
  IN [field EXCEPT !.deck = Reading,
        !.opers = [o \in Oper |-> IF o \in gone THEN Nowhere ELSE @[o]],
        !.used = [t \in Tile |-> IF \E o \in gone : field.opers[o] = t THEN Nobody ELSE @[t]]]

\* check_in_battle, on a picture that may be blurred
SeesBattle == IF war.phase = "on" THEN BOOLEAN ELSE {FALSE}

\* update_deployment, with its result: the list is read and taken over, or it is
\* not recognised; in both cases the battle may be.
UpdateDeployment(in) ==
  /\ in \in SeesBattle
  /\ UNCHANGED war
  /\ \/ ~in /\ \E seen \in SeesBattle : field' = [field EXCEPT !.inBattle = seen]
     \/ war.phase = "on" /\ field' = [WithoutCooling EXCEPT !.inBattle = in]

\* wait_until_start: the battle was seen, or a stop
WaitUntilStart == stopped \/ war.phase # "before"

\* wait_until_end and its check_in_battle
WaitUntilEnd == field' = [field EXCEPT !.inBattle = FALSE]

\* deploy_oper: he is noted where there is no note yet.  The game takes him if it
\* can, and if the swipe is not lost.
DeployOper(f, o, t) ==
  /\ field' = [f EXCEPT !.opers[o] = IF @ = Nowhere THEN t ELSE @,
                        !.used[t] = IF @ = Nobody THEN o ELSE @]
  /\ war' \in {[war EXCEPT !.doubt = @ \cup {o}]}
        \cup (IF war.phase = "on" /\ ~Stands(o) /\ o \notin war.cooling /\ On(t) = {}
                THEN {[war EXCEPT !.stands[o] = t, !.doubt = IF f.deck[o] = "cooling" THEN @ \cup {o} ELSE @]} ELSE {})

\* Whoever stands there leaves, or the click is lost.
Leaves(os) ==
  war' \in {[war EXCEPT !.doubt = @ \cup os],
            [war EXCEPT !.stands = [o \in Oper |-> IF o \in os THEN Nowhere ELSE @[o]], !.cooling = @ \cup os]}

\* retreat_oper(name); a task that does not know him does nothing.
RetreatOper(o) ==
  LET t == field.opers[o]
  IN /\ t # Nowhere
     /\ field' = [field EXCEPT !.opers[o] = Nowhere, !.used[t] = Nobody]
     /\ Leaves(On(t))

\* retreat_oper(loc)
RetreatFrom(t) ==
  /\ field' = [field EXCEPT !.opers = [o \in Oper |-> IF @[o] = t THEN Nowhere ELSE @[o]], !.used[t] = Nobody]
  /\ Leaves(On(t))

-----------------------------------------------------------------------------
\* The enemy, the clock and the end.
Falls(o) ==
  /\ war.phase = "on" /\ Stands(o)
  /\ war' = [war EXCEPT !.stands[o] = Nowhere, !.cooling = @ \cup {o}]

CoolingEnds(o) ==
  /\ war.phase = "on" /\ o \in war.cooling
  /\ war' = [war EXCEPT !.cooling = @ \ {o}, !.doubt = IF field.deck[o] # "cooling" THEN @ \cup {o} ELSE @]

BattleStarts == war.phase = "before" /\ war' = [war EXCEPT !.phase = "on"]

\* No battle ends before the task has seen it.
BattleEnds(seen) == war.phase = "on" /\ seen /\ war' = [war EXCEPT !.phase = "over"]

GameNext(seen) ==
  /\ UNCHANGED <<worker, field>>
  /\ BattleStarts \/ BattleEnds(seen) \/ \E o \in Oper : Falls(o) \/ CoolingEnds(o)

GameGoesOn(seen) == UNCHANGED <<worker, field>> /\ (BattleStarts \/ BattleEnds(seen))
-----------------------------------------------------------------------------
\* Where somebody stands is known, although it is seen only in the list when somebody
\* leaves the field: unless a swipe or a click on him was lost, he was back in the list
\* before he was seen cooling down, or was deployed by an old list that had him cooling.
FieldIsKnown ==
  task \in {"copilot", "roguelike"} => \A o \in Oper \ war.doubt : Stands(o) => field.opers[o] = war.stands[o]
=============================================================================
