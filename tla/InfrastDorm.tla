---------------------------- MODULE InfrastDorm ----------------------------
(***************************************************************************)
(* The dormitories: one after the other is filled, first with those whom   *)
(* the plan of the user names, then with who is tired, then with who does  *)
(* not trust fully yet, then with anybody.  The list of operators is read  *)
(* page by page, and a click on one selects him or, if he was selected,    *)
(* lets him go again, whatever the task believes.                          *)
(***************************************************************************)
EXTENDS Worker, FiniteSets

CONSTANTS
  Person,        \* the operators in the list
  Working,       \* those who work in another room
  Tired,         \* those who are not in the best of moods
  Dorms,         \* m_max_num_of_dorm, 4 in the code
  DormSize,      \* max_num_of_opers, 5
  EnoughSeen,    \* 6: so many who need no rest, or who trust fully, are enough
  DormRetries    \* TaskRetryTimes, 3

ASSUME DormAssumption ==
  /\ IsFiniteSet(Person) /\ Working \subseteq Person /\ Tired \subseteq Person
  /\ Dorms \in Nat /\ DormSize \in Nat /\ EnoughSeen \in Nat /\ DormRetries \in Nat

VARIABLES
  dorm,    \* what InfrastDormTask keeps, and the locals of opers_choose
  rooms    \* the game: who is selected in the list, and what was confirmed

dormVars == <<worker, dorm, rooms>>

\* There is a plan for the first dormitory only, as for Fiammetta, or for none.
DormInit ==
  /\ dorm \in
      [index : {1}, custom : BOOLEAN, autofill : BOOLEAN, skip : BOOLEAN, trust : BOOLEAN, names : SUBSET Person,
       selected : {0}, origin : {[names |-> {}, selected |-> 0]}, step : {"Rest"},
       num : {0}, resting : {0}, trusted : {0}, fill : {FALSE}]
  /\ dorm.custom \/ (dorm.names = {} /\ ~dorm.autofill /\ ~dorm.skip)
  /\ dorm.skip => dorm.names = {} /\ ~dorm.autofill
  /\ Cardinality(dorm.names) <= DormSize
  /\ rooms = [picked |-> {}, unread |-> {}, full |-> TRUE, idle |-> TRUE]

DormCount == IF dorm.custom THEN 1 ELSE Dorms
DormPlan == [names |-> dorm.names, selected |-> dorm.selected]
DormClick(p) == (rooms.picked \cup {p}) \ (rooms.picked \cap {p})

\* The review has failed, or the task has before it: the plan is put back or not.
DormFails(restore) ==
  /\ dorm' = IF restore THEN [dorm EXCEPT !.names = dorm.origin.names, !.selected = dorm.origin.selected]
                        ELSE dorm
  /\ \E back \in BOOLEAN : Sub(back) /\ RunFails(IF back THEN DormRetries ELSE 0)
  /\ UNCHANGED rooms

-----------------------------------------------------------------------------
\* A dormitory that cannot be entered is taken for one that is not there.
EnterDorm ==
  /\ at = "run"
  /\ \/ (dorm.index > DormCount \/ ~stopped) /\ Goes("succeeded") /\ UNCHANGED <<dorm, rooms>>
     \/ dorm.index <= DormCount /\ (stopped \/ ~dorm.skip) /\ DormFails(FALSE)
     \/ dorm.index <= DormCount /\ ~stopped /\ dorm.skip
        /\ Stays /\ dorm' = [dorm EXCEPT !.index = @ + 1] /\ UNCHANGED rooms
     \/ /\ dorm.index <= DormCount /\ ~stopped /\ ~dorm.skip
        /\ Goes("plan")
        /\ dorm' = [dorm EXCEPT !.origin = DormPlan, !.num = 0, !.trusted = 0, !.fill = FALSE]
        /\ \E held \in SUBSET Person : Cardinality(held) <= DormSize /\ rooms' = [rooms EXCEPT !.picked = held]

\* swipe_and_select_custom_opers(true), whose result is not looked at, or the list
\* is cleared; then the rest is filled or not.
SelectNames ==
  /\ at = "plan"
  /\ \E seen \in SUBSET dorm.names, kept \in {{}, rooms.picked} :
        /\ rooms' = [rooms EXCEPT !.picked = kept \cup seen]
        /\ dorm' = [dorm EXCEPT !.names = @ \ seen, !.selected = @ + Cardinality(seen),
                      !.num = IF dorm.custom /\ ~dorm.autofill THEN 0
                              ELSE IF dorm.custom THEN dorm.selected + Cardinality(seen) ELSE 0]
  /\ Goes(IF dorm.custom /\ ~dorm.autofill THEN "review" ELSE "page")

\* The head of the loop over the pages.
ReadPage ==
  /\ at = "page"
  /\ \/ dorm.num < DormSize /\ DormFails(FALSE)
     \/ /\ UNCHANGED rooms
        /\ dorm' = [dorm EXCEPT !.resting = 0]
        /\ IF dorm.num >= DormSize THEN Goes("review") ELSE ~stopped /\ Goes("oper")

\* He is clicked, and counts as selected from now on.
PutInDorm(p, d) == /\ dorm' = [d EXCEPT !.num = @ + 1]
             /\ rooms' = [rooms EXCEPT !.picked = DormClick(p)]

FillWith(p) ==
  /\ at = "oper" /\ ~stopped /\ dorm.num < DormSize
  /\ IF dorm.fill THEN p \notin Working \cup rooms.picked /\ PutInDorm(p, dorm)
     ELSE p \notin Tired /\ dorm.step = "Fill" /\ PutInDorm(p, [dorm EXCEPT !.fill = TRUE])
  /\ Stays

RestInDorm(p) ==
  /\ at = "oper" /\ ~stopped /\ ~dorm.fill /\ dorm.num < DormSize
  /\ p \in Tired \ (Working \cup rooms.picked)
  /\ PutInDorm(p, dorm)
  /\ Stays

\* His trust is read, and if it is not full and he has no room he is put here.
ReadTrust(p, full) ==
  /\ at = "oper" /\ ~stopped /\ ~dorm.fill /\ dorm.num < DormSize
  /\ p \notin Tired \cup Working \cup rooms.picked
  /\ dorm.trust /\ dorm.step \notin {"Rest", "Fill"}
  /\ IF ~full THEN PutInDorm(p, dorm) /\ Stays
     ELSE /\ UNCHANGED rooms
          /\ IF dorm.trusted + 1 >= EnoughSeen
               THEN /\ dorm' = [dorm EXCEPT !.trusted = @ + 1, !.step = "Fill", !.fill = TRUE]
                    /\ Goes("page")
               ELSE dorm' = [dorm EXCEPT !.trusted = @ + 1] /\ Stays

\* One more who needs no rest; enough of them, and all who do were seen.
SeeRested(p) ==
  /\ at = "oper" /\ ~stopped /\ ~dorm.fill /\ dorm.num < DormSize
  /\ p \notin Tired /\ dorm.step # "Fill"
  /\ dorm.trust /\ dorm.step # "Rest" => p \in Working \cup rooms.picked
  /\ UNCHANGED rooms
  /\ IF dorm.resting + 1 < EnoughSeen THEN dorm' = [dorm EXCEPT !.resting = @ + 1] /\ Stays
     ELSE IF dorm.trust THEN dorm' = [dorm EXCEPT !.resting = 0, !.step = "Trust"] /\ Goes("page")
     ELSE dorm' = [dorm EXCEPT !.resting = @ + 1, !.step = "Fill"] /\ Stays

PageEnds ==
  /\ at = "oper"
  /\ Goes("page")
  /\ UNCHANGED <<dorm, rooms>>

-----------------------------------------------------------------------------
\* Fault: how many are selected is not looked at.
DormReviewUncounted(unread) ==
  /\ dorm.origin.names \subseteq rooms.picked
  /\ (rooms.picked \ (dorm.origin.names \cup unread)) \cap Working = {}

\* select_opers_review: enough are selected, all that were named among them, and
\* nobody else who works; whose name cannot be read is passed over before it is seen
\* whether he works.
DormReview(unread) ==
  /\ Cardinality(rooms.picked) >= dorm.num
  /\ dorm.origin.names \subseteq rooms.picked
  /\ (rooms.picked \ (dorm.origin.names \cup unread)) \cap Working = {}

\* A picture may be misread, so that the review fails, or lets one of those pass.
ReviewDorm ==
  /\ at = "review"
  /\ \/ DormFails(TRUE)
     \/ \E unread \in SUBSET ((rooms.picked \cap Working) \ dorm.origin.names) :
          DormReview(unread) /\ Goes("confirm") /\ rooms' = [rooms EXCEPT !.unread = unread] /\ UNCHANGED dorm

ConfirmDorm ==
  /\ at = "confirm"
  /\ Goes("run")
  /\ rooms' = [rooms EXCEPT !.picked = {}, !.unread = {},
                 !.full = @ /\ (dorm.num > 0 => Cardinality(rooms.picked) >= DormSize),
                 !.idle = @ /\ (rooms.picked \ (dorm.origin.names \cup rooms.unread)) \cap Working = {}]
  /\ dorm' = [dorm EXCEPT !.index = @ + 1]

DormNext ==
  \/ EnterDorm \/ SelectNames \/ ReadPage \/ PageEnds \/ ReviewDorm \/ ConfirmDorm
  \/ \E p \in Person : FillWith(p) \/ RestInDorm(p) \/ SeeRested(p) \/ \E full \in BOOLEAN : ReadTrust(p, full)
-----------------------------------------------------------------------------
\* A dormitory that is confirmed after it was filled is full, although the task only
\* counts its clicks and some of them let somebody go again; and nobody is taken from
\* his work to it, unless the plan names him or the review could not read his name,
\* although the filling starts with whoever comes first.
DormsAreFilled == task = "dorm" => rooms.full /\ rooms.idle
=============================================================================
