---------------------------- MODULE InfrastShift ----------------------------
(***************************************************************************)
(* One of the two production tasks of the infrastructure, trading or       *)
(* manufacture: it goes from room to room and shifts the operators, those  *)
(* the plan of the user names or the best it finds, and uses the drones.   *)
(* The plan is consumed while it is carried out: a name that was found is  *)
(* erased from it and counted as selected.                                 *)
(*                                                                         *)
(* The game shows a list of operators in which names may be misread; what  *)
(* is selected there becomes the room's when it is confirmed.              *)
(***************************************************************************)
EXTENDS Worker, FiniteSets

CONSTANTS
  Operator,              \* the operators a plan may name
  Rooms,                 \* bound on the rooms of the facility
  RoomSize,              \* max_num_of_opers
  OperSelectRetryTimes,  \* OperSelectRetryTimes, 3 in the code
  TaskRetryTimes         \* TaskRetryTimes, 3 in the code

ASSUME InfrastAssumption ==
  /\ IsFiniteSet(Operator) /\ Rooms \in Nat /\ RoomSize \in Nat
  /\ OperSelectRetryTimes \in Nat /\ TaskRetryTimes \in Nat

VARIABLES
  plan,   \* m_custom_config: per room names, selected and skip; m_is_custom
  shift,  \* the rest of what InfrastProductionTask keeps
  house    \* the game, the plan as it was given and what was done with them

infrastVars == <<worker, plan, shift, house>>

RoomPlan == [names : SUBSET Operator, selected : {0}, skip : BOOLEAN]

\* Any plan for the first so many rooms, or none.
InfrastInit ==
  /\ plan \in [custom : {FALSE}, rooms : {<< >>}]
        \cup [custom : {TRUE}, rooms : UNION {[1..n -> RoomPlan] : n \in 1..Rooms}]
  /\ shift \in [index : {1}, tries : {0}, drone : {"none", "pre", "post", "wanted"}]
  /\ shift.drone \in (IF plan.custom THEN {"none", "pre", "post"} ELSE {"none", "wanted"})
  /\ house = [asked |-> plan.rooms, picked |-> {}, held |-> [r \in 1..Rooms |-> {}], changed |-> {},
             drones |-> 0, unsure |-> FALSE]

InPlan(r) == plan.custom /\ r <= Len(plan.rooms)
Names == IF InPlan(shift.index) THEN plan.rooms[shift.index].names ELSE {}
Selected == IF InPlan(shift.index) THEN plan.rooms[shift.index].selected ELSE 0
Skips == InPlan(shift.index) /\ plan.rooms[shift.index].skip
Restored(room) == [plan EXCEPT !.rooms[shift.index] = room]

-----------------------------------------------------------------------------
\* on_run_fails returns to the overview before the task is run again.
InfrastFails == \E back \in BOOLEAN : Sub(back) /\ RunFails(IF back THEN TaskRetryTimes ELSE 0)

\* _run, the first room and its list of tabs
EnterFacility ==
  /\ at = "run"
  /\ \/ Sub(TRUE) /\ Goes("tab") /\ shift' = [shift EXCEPT !.index = 1]
     \/ InfrastFails /\ UNCHANGED shift
  /\ UNCHANGED <<plan, house>>

\* Fault: m_uses_of_drones is not cleared.
UseDroneAgain(works, used) ==
  /\ works => used /\ ~stopped
  /\ house' = [house EXCEPT !.drones = IF used THEN @ + 1 ELSE @, !.unsure = @ \/ (used /\ ~works)]
  /\ UNCHANGED shift

\* The drones work in the room; a call that reports no success may have used them.
UseDrone(works, used) ==
  /\ works => used /\ ~stopped
  /\ house' = [house EXCEPT !.drones = IF used THEN @ + 1 ELSE @, !.unsure = @ \/ (used /\ ~works)]
  /\ shift' = IF shift.drone = "wanted" /\ works THEN [shift EXCEPT !.drone = "none"] ELSE shift

\* The first room is the one the drones are for.
DronesHere(order) == shift.drone = order /\ shift.index = 1

NextTab ==
  /\ at = "tab"
  /\ \/ stopped /\ InfrastFails /\ UNCHANGED shift
     \/ /\ shift.index > Rooms \/ (plan.custom /\ shift.index > 1 /\ ~InPlan(shift.index))
        /\ Goes("succeeded") /\ UNCHANGED shift
     \/ \* no button to add operators with
        /\ ~stopped /\ shift.index <= Rooms /\ (shift.index > 1 /\ plan.custom => InPlan(shift.index))
        /\ Stays /\ shift' = [shift EXCEPT !.index = @ + 1]
  /\ UNCHANGED <<plan, house>>

OpenRoom ==
  /\ at = "tab" /\ ~stopped
  /\ shift.index <= Rooms /\ (shift.index > 1 /\ plan.custom => InPlan(shift.index))
  /\ UNCHANGED plan
  /\ IF DronesHere("pre")
       THEN \E works, used \in BOOLEAN : UseDrone(works, used) /\ Goes("opened")
       ELSE Goes("opened") /\ UNCHANGED <<shift, house>>

EnterOperators ==
  /\ at = "opened"
  /\ IF Skips THEN Goes("tab") /\ shift' = [shift EXCEPT !.index = @ + 1]
              ELSE Goes("select") /\ shift' = [shift EXCEPT !.tries = 0]
  /\ house' = [house EXCEPT !.picked = house.held[shift.index]]
  /\ UNCHANGED plan

\* click_clear_button, whose result nobody looks at
Cleared == {{}, house.picked}

TryAgain == shift' = [shift EXCEPT !.tries = @ + 1] /\ Stays

-----------------------------------------------------------------------------
\* swipe_and_select_custom_opers: the names seen in the list are selected and
\* erased.  If some are left it fails, and they are not restored; they are if the
\* review of what is selected fails.
SelectCustom ==
  /\ at = "select" /\ shift.tries <= OperSelectRetryTimes /\ ~stopped /\ Names # {}
  /\ \E seen \in SUBSET Names, kept \in Cleared, passes \in BOOLEAN :
        LET room == plan.rooms[shift.index]
            left == [room EXCEPT !.names = @ \ seen, !.selected = @ + Cardinality(seen)]
            chosen == kept \cup seen
        IN /\ Cardinality(seen) <= RoomSize
           /\ passes => left.names = {} /\ Names \subseteq chosen
           /\ IF passes THEN Goes("confirm") /\ UNCHANGED shift ELSE TryAgain
           /\ plan' = Restored(IF left.names = {} /\ ~passes THEN room ELSE left)
           /\ house' = [house EXCEPT !.picked = chosen]

\* The best operators are looked for; nobody whom the plan names is among them.
SelectBest ==
  /\ at = "select" /\ shift.tries <= OperSelectRetryTimes /\ ~stopped /\ Names = {}
  /\ \/ InfrastFails /\ UNCHANGED <<shift, house>>
     \/ /\ \E kept \in Cleared : house' = [house EXCEPT !.picked = kept]
        /\ (Goes("confirm") /\ UNCHANGED shift) \/ TryAgain
  /\ UNCHANGED plan

SelectStops ==
  /\ at = "select" /\ stopped
  /\ InfrastFails
  /\ UNCHANGED <<plan, shift, house>>

\* All the tries are used up: what there is will be confirmed.
SelectGivesUp ==
  /\ at = "select" /\ shift.tries > OperSelectRetryTimes
  /\ Goes("confirm")
  /\ UNCHANGED <<plan, shift, house>>

ConfirmRoom ==
  /\ at = "confirm"
  /\ Goes("after")
  /\ house' \in {house, [house EXCEPT !.held[shift.index] = house.picked,
                                   !.changed = @ \cup {shift.index}]}
  /\ UNCHANGED <<plan, shift>>

LeaveRoom ==
  /\ at = "after"
  /\ UNCHANGED plan
  /\ IF DronesHere("post") \/ shift.drone = "wanted"
       THEN \E works, used \in BOOLEAN : UseDrone(works, used) /\ Goes("next")
       ELSE Goes("next") /\ UNCHANGED <<shift, house>>

NextRoom ==
  /\ at = "next"
  /\ Goes("tab")
  /\ shift' = [shift EXCEPT !.index = @ + 1]
  /\ UNCHANGED <<plan, house>>

InfrastNext ==
  \/ EnterFacility \/ NextTab \/ OpenRoom \/ EnterOperators
  \/ SelectCustom \/ SelectBest \/ SelectStops \/ SelectGivesUp
  \/ ConfirmRoom \/ LeaveRoom \/ NextRoom

-----------------------------------------------------------------------------
\* A task with a plan changes no room that the plan skips or does not have; without
\* one the drones that a product was to get are used once, through all the retries,
\* unless a call that had used them reported a failure.
PlanIsFollowed ==
  task = "infrast" =>
    IF plan.custom THEN \A r \in house.changed : r <= Len(house.asked) /\ ~house.asked[r].skip
                   ELSE house.drones > 1 => house.unsure
=============================================================================
