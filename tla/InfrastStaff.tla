---------------------------- MODULE InfrastStaff ----------------------------
(***************************************************************************)
(* How the tasks of the infrastructure find the best operators for a room  *)
(* and select them; for trading and manufacture it is what InfrastShift    *)
(* calls SelectBest, the power plants, the control centre and the office   *)
(* do it with a loop of their own.  A task goes through the list and       *)
(* remembers those it may take (opers_detect), works out the best          *)
(* combination of skills (optimal_calc), and goes through the list again   *)
(* to click on operators with those skills (opers_choose).  What was       *)
(* remembered is kept for the next room.                                   *)
(*                                                                         *)
(* The game shows the operators page after page, those whose skills help   *)
(* in this facility first, wherever they work now.  Clicks may be lost and *)
(* the button that clears the selection may not work.                      *)
(***************************************************************************)
EXTENDS Worker, FiniteSets, SequencesExt

CONSTANTS
  StaffPages,    \* the operators with skills, as the pages show them
  SkillOf,       \* the skills of an operator
  Worth,         \* efficient, of each of the skills
  Formula,       \* the skills whose efficient_regex reads a number of Status
  MaxNum,        \* max_num of each of the skills
  SkillGroups,   \* skillsGroup: combinations that are worth more together
  MayTire,       \* who is tired, if anybody is
  StaffRooms, StaffSize, StaffRetries

ASSUME StaffAssumption ==
  /\ {StaffRooms, StaffSize, StaffRetries} \subseteq Nat
  /\ DOMAIN Worth = DOMAIN MaxNum /\ Formula \subseteq DOMAIN Worth
  /\ StaffPages \in Seq(Seq(DOMAIN SkillOf)) \ {<<>>}
  /\ \A p \in DOMAIN StaffPages : IsInjective(StaffPages[p])   \* an operator is shown once on a page

VARIABLES
  staff,   \* m_all_available_opers, m_optimal_combs and where the code is
  desk     \* the game, and what was worked out for this room

staffVars == <<worker, staff, desk>>

NoNumber == -1   \* Status has no such number
Filtered == UNION {UNION {g.optional[i].names : i \in DOMAIN g.optional} : g \in ToSet(SkillGroups)}

\* Who works in the room when it is opened: they are selected, and the first of the list.
Before == {{}, {StaffPages[1][1]}}

\* The facility may be smaller than its best combinations, for a lower level or for
\* operators that are locked in.
StaffInit ==
  /\ staff = [avail |-> <<>>, todo |-> {}, page |-> 1, next |-> {}, here |-> {}, count |-> 0, error |-> FALSE, tries |-> 0,
              room |-> 1]
  /\ desk \in [kind : {"production", "power", "control", "office"}, tired : {{}, MayTire}, unread : SUBSET Filtered,
               locked : 0..1, number : {NoNumber, 3}, endless : BOOLEAN,
               chosen : Before, cleared : {TRUE}, best : {<<>>}, worked : {FALSE}]

\* InfrastOperImageAnalyzer: those that are wholly on the page; the mood of the tired ones
\* is below the threshold.
Page(p) == IF p <= Len(StaffPages) THEN StaffPages[p] ELSE IF desk.endless THEN StaffPages[Len(StaffPages)] ELSE <<>>
Rested(s) == s \notin desk.tired
Seen(p) ==
  {[place |-> i, who |-> Page(p)[i], selected |-> Page(p)[i] \in desk.chosen] : i \in {k \in DOMAIN Page(p) : Rested(Page(p)[k])}}

\* How a skill is told by its picture.  The ids of one family are what they begin with and
\* a suffix, here in the order of the texts; the levels are its digits, the others are
\* skills of their own.  found has the score of each that was matched, in steps of 0.05.
Suffix == <<"&cost", "1", "2", "_add">>
Levels == {k \in DOMAIN Suffix : Suffix[k] \in {"1", "2"}}
Close(found) == {k \in DOMAIN found : \A l \in DOMAIN found : found[l] - found[k] <= 1}
BestScored(found) == {k \in DOMAIN found : \A l \in DOMAIN found : found[l] <= found[k]}

\* Fault: the best score decides.
RecognizedByScore(found) == BestScored(found)

\* The best score tells the family; of those whose id begins with it and that are close,
\* the one with the last suffix.
Recognized(found) == {IF b \in Levels THEN CHOOSE k \in Close(found) : \A l \in Close(found) : l <= k ELSE b : b \in BestScored(found)}

\* efficient_regex_calc: a number that is not known counts as 0.
Efficient(skill, f) == IF skill \in Formula THEN (IF f.number = NoNumber THEN 0 ELSE f.number) ELSE Worth[skill]

StaffFails == RunFails(0) /\ UNCHANGED <<staff, desk>>

-----------------------------------------------------------------------------
\* What the loops differ in: whether the next room knows who is left, whether the selection
\* is cleared, and whether each try looks for a stop.
KeepsOpers == desk.kind \in {"production", "power"}
ClearsOpers == desk.kind \in {"production", "control"}
RoomsOfKind == IF KeepsOpers THEN StaffRooms ELSE 1

EntersOr(kind, Else) == desk.kind = kind /\ at = "run" /\ UNCHANGED <<staff, desk>> /\ (Goes("try") \/ Else)

EnterProduction == EntersOr("production", RunFails(0)) /\ (stopped => at' # "try")

\* A power plant that cannot be entered is not there.
EnterPower == EntersOr("power", RunFails(0) \/ (~stopped /\ Goes("succeeded"))) /\ (stopped => at' # "try")

EnterControl == EntersOr("control", RunFails(0))

\* Nobody looks whether the office was entered.
EnterOffice == EntersOr("office", FALSE)

\* The head of the loop over the tries
ClearStaff ==
  /\ at = "try"
  /\ \/ stopped /\ desk.kind # "power" /\ StaffFails
     \/ /\ stopped => desk.kind = "power"
        /\ Goes("detect")
        /\ \E works \in BOOLEAN :
             LET clears == works /\ ClearsOpers
             IN  desk' = [desk EXCEPT !.chosen = IF clears THEN {} ELSE @, !.cleared = clears \/ desk.chosen = {}]
        /\ staff' = [staff EXCEPT !.page = 1, !.avail = IF KeepsOpers THEN @ ELSE <<>>]

\* opers_detect: how many are new
NewOnPage(p) == SelectSeq(Page(p), LAMBDA s : Rested(s) /\ s \notin ToSet(staff.avail))

\* With somebody left from the last room only the first page is looked at.  Else page
\* after page, up to one that has nobody new, be they all tired.
DetectStaff ==
  /\ at = "detect" /\ UNCHANGED desk
  /\ LET more == NewOnPage(staff.page)
         kept == staff.avail # <<>> /\ staff.page = 1
     IN  \/ kept /\ staff' = [staff EXCEPT !.avail = @ \o more] /\ Goes("calc")
         \/ ~kept /\ ~stopped /\ more # <<>> /\ staff' = [staff EXCEPT !.avail = @ \o more, !.page = @ + 1] /\ Stays
         \/ ~kept /\ ~stopped /\ more = <<>> /\ staff.avail # <<>> /\ staff' = [staff EXCEPT !.page = 1] /\ Goes("calc")

\* Nobody is there, or a stop is seen on the way.
DetectFails ==
  /\ at = "detect" /\ StaffFails
  /\ IF staff.avail = <<>> THEN stopped \/ NewOnPage(1) = <<>> ELSE stopped /\ staff.page > 1

-----------------------------------------------------------------------------
\* A facility f, as far as the calculation asks: how many places are locked, the number in
\* Status, and the names that cannot be read.
Facility == [locked : 0..1, number : {NoNumber, 3}, unread : SUBSET Filtered]
ThisFacility == [locked |-> desk.locked, number |-> desk.number, unread |-> desk.unread]

Free(f) == StaffSize - f.locked
Total(combs) == FoldLeft(LAMBDA sum, c : sum + c.worth, 0, combs)
AsComb(s, f) == [skill |-> SkillOf[s], worth |-> Efficient(SkillOf[s], f), names |-> {}]

\* Everybody in A by what they are worth; those that are equal in any order
Orders(A, f) ==
  {o \in SetToSeqs(A) : \A i, j \in DOMAIN o : i < j => Efficient(SkillOf[o[i]], f) >= Efficient(SkillOf[o[j]], f)}

\* The best ones by themselves, no more of a skill than count together
Singles(order, f) ==
  FoldLeft(LAMBDA combs, s : IF Len(combs) < Free(f) /\ Cardinality({i \in DOMAIN combs : combs[i].skill = SkillOf[s]}) < MaxNum[SkillOf[s]]
                             THEN Append(combs, AsComb(s, f)) ELSE combs,
           <<>>, order)

\* necessary: none may lack.
WithNecessary(group, order) ==
  FoldLeft(LAMBDA r, c : LET who == SelectSeq(r.left, LAMBDA s : SkillOf[s] = c.skill)
                         IN  IF r.out # "made" \/ who = <<>> THEN [r EXCEPT !.out = "lacks"]
                             ELSE [r EXCEPT !.combs = Append(@, c), !.left = Remove(@, who[1])],
           [combs |-> <<>>, left |-> order, out |-> "made"], group.necessary)

\* optional: for each of them whoever has the skill, while there is room.  One whose name
\* is asked for and cannot be read is looked at again and again.
WithOptional(made, group, f) ==
  FoldLeft(LAMBDA r, c : FoldLeft(LAMBDA q, s : IF q.out # "made" \/ Len(q.combs) = Free(f) \/ SkillOf[s] # c.skill THEN q
                                                ELSE IF c.names # {} /\ s \in f.unread THEN [q EXCEPT !.out = "hangs"]
                                                ELSE IF c.names # {} /\ s \notin c.names THEN q
                                                ELSE [q EXCEPT !.combs = Append(@, c), !.left = Remove(@, s)],
                                  r, r.left),
           made, SortSeq(group.optional, LAMBDA c, d : c.worth > d.worth))

\* allow_external: the places that are left go to the best of the others, who must be
\* enough.
WithExternal(made, group, f) ==
  LET lack == Free(f) - Len(made.combs)
  IN  IF made.out # "made" \/ lack <= 0 THEN made
      ELSE IF ~group.external THEN [made EXCEPT !.out = "lacks"]
      ELSE IF lack > Len(made.left) THEN [made EXCEPT !.out = "thrown"]
      ELSE [made EXCEPT !.combs = @ \o [i \in 1..lack |-> AsComb(made.left[i], f)]]

MeetsCondition(group, f) == f.number = NoNumber \/ group.number \in {NoNumber, f.number}

GroupOf(group, order, f) ==
  IF ~MeetsCondition(group, f) THEN [combs |-> <<>>, left |-> order, out |-> "lacks"]
  ELSE WithExternal(WithOptional(WithNecessary(group, order), group, f), group, f)

\* Fault: the last combination that can be made is taken.
LastOf(best, made) ==
  IF best.out # "made" \/ made.out = "lacks" THEN best
  ELSE IF made.out # "made" THEN [best EXCEPT !.out = made.out]
  ELSE made

\* The groups count only in a facility that is all free; a better one replaces the best.
Better(best, made) ==
  IF best.out # "made" \/ made.out = "lacks" THEN best
  ELSE IF made.out # "made" THEN [best EXCEPT !.out = made.out]
  ELSE IF Total(made.combs) > Total(best.combs) THEN made ELSE best

OptimalOf(order, f) ==
  LET singles == [combs |-> Singles(order, f), left |-> order, out |-> "made"]
  IN  IF f.locked # 0 THEN singles ELSE FoldLeft(LAMBDA best, g : Better(best, GroupOf(g, order, f)), singles, SkillGroups)

\* All that optimal_calc may come to, whoever is there
Optimal ==
  UNION {{[who |-> A, facility |-> f, made |-> OptimalOf(order, f)] : order \in Orders(A, f)} : A \in SUBSET DOMAIN SkillOf, f \in Facility}

OptimalCalc ==
  /\ at = "calc"
  /\ \E o \in Optimal :
       /\ o.who = ToSet(staff.avail) /\ o.facility = ThisFacility
       /\ Goes(IF o.made.out = "made" THEN "look" ELSE IF o.made.out = "hangs" THEN "hangs" ELSE "thrown")
       /\ staff' = [staff EXCEPT !.todo = DOMAIN o.made.combs, !.page = 1, !.count = 0, !.error = FALSE]
       /\ desk' = [desk EXCEPT !.best = o.made.combs]

-----------------------------------------------------------------------------
\* opers_choose fails: again, with a list of its own, or else with what there is.
ChooseFails ==
  /\ staff' = [staff EXCEPT !.avail = <<>>, !.tries = @ + 1]
  /\ IF staff.tries < StaffRetries THEN Goes("try") ELSE Goes("confirm")
  /\ UNCHANGED desk

\* The next page.  One where nobody has a skill is too far: back to the first, once.
LookAtPage ==
  /\ at = "look"
  /\ \/ stopped /\ ChooseFails
     \/ ~stopped /\ Page(staff.page) = <<>> /\ staff.error /\ ChooseFails
     \/ /\ ~stopped /\ Page(staff.page) = <<>> /\ ~staff.error /\ Stays /\ UNCHANGED desk
        /\ staff' = [staff EXCEPT !.error = TRUE, !.page = 1]
     \/ /\ ~stopped /\ Page(staff.page) # <<>> /\ Goes("pick") /\ UNCHANGED desk
        /\ staff' = [staff EXCEPT !.next = staff.todo, !.here = Seen(staff.page)]

FitsComb(o, comb) == SkillOf[o.who] = comb.skill /\ (comb.names = {} \/ o.who \in comb.names \ desk.unread)

\* One combination after the other, the next of those that are left: somebody on this page
\* for it, who is not selected already, but for a room with one place, where the clearing
\* did not work then.
PickForComb ==
  /\ at = "pick" /\ Stays
  /\ \E i \in staff.next :
       /\ \A j \in staff.next : i <= j
       /\ LET fitting == {o \in staff.here : FitsComb(o, desk.best[i])}
              Taken(o) == staff' = [staff EXCEPT !.here = @ \ {o}, !.avail = Remove(@, o.who), !.count = @ + 1,
                                                 !.todo = @ \ {i}, !.next = @ \ {i}]
          IN  \/ fitting = {} /\ staff' = [staff EXCEPT !.next = @ \ {i}] /\ UNCHANGED desk
              \/ \E o \in fitting :
                   /\ \A q \in fitting : o.place <= q.place
                   /\ \/ o.selected /\ Free(desk) # 1 /\ staff' = [staff EXCEPT !.here = @ \ {o}] /\ UNCHANGED desk
                      \/ o.selected /\ Free(desk) = 1 /\ Taken(o) /\ UNCHANGED desk
                      \/ /\ ~o.selected /\ Taken(o)
                         /\ \E clicked \in BOOLEAN :
                              desk' = [desk EXCEPT !.chosen = IF clicked /\ Cardinality(@) < Free(desk) THEN @ \cup {o.who} ELSE @]

PageDone ==
  /\ at = "pick" /\ staff.next = {} /\ UNCHANGED desk
  /\ IF staff.todo = {} THEN Goes("review") /\ UNCHANGED staff
     ELSE Goes("look") /\ staff' = [staff EXCEPT !.page = IF @ <= Len(StaffPages) THEN @ + 1 ELSE @]

\* Fault: nobody looks whether the clicks worked.
ReviewNobody == at = "review" /\ Goes("confirm") /\ desk' = [desk EXCEPT !.worked = TRUE] /\ UNCHANGED staff

\* select_opers_review: as many as were clicked on are selected.
ReviewStaff ==
  /\ at = "review"
  /\ IF Cardinality(desk.chosen) < staff.count THEN ChooseFails
     ELSE Goes("confirm") /\ desk' = [desk EXCEPT !.worked = TRUE] /\ UNCHANGED staff

\* Nobody looks whether the confirmation works; then the next room.
ConfirmStaff ==
  /\ at = "confirm"
  /\ IF staff.room = RoomsOfKind THEN Goes("succeeded") ELSE Goes("run")
  /\ staff' = [staff EXCEPT !.room = @ + 1, !.tries = 0]
  /\ \E before \in Before : desk' = [desk EXCEPT !.chosen = before, !.worked = FALSE, !.cleared = TRUE, !.best = <<>>]

StaffNext ==
  \/ EnterProduction \/ EnterPower \/ EnterControl \/ EnterOffice
  \/ ClearStaff \/ DetectStaff \/ DetectFails \/ OptimalCalc \/ LookAtPage \/ PickForComb \/ PageDone \/ ReviewStaff \/ ConfirmStaff
-----------------------------------------------------------------------------
\* The loop of a name that cannot be read: it ends with the process.
Hangs == at = "hangs"

\* A level of a skill is told from the lower ones, whose pictures are a part of its own,
\* as long as no other skill looks like it.
LevelsAreTold ==
  \A level \in Levels : \A known \in SUBSET (DOMAIN Suffix \ {k \in Levels : k > level}) : \A found \in [known -> 0..3] :
    level \in Close(found) /\ Close(found) \subseteq Levels => Recognized(found) = {level}

Having(set, skill) == Cardinality({s \in set : SkillOf[s] = skill})
Asks(combs, skill) == Cardinality({i \in DOMAIN combs : combs[i].skill = skill})
AnySingles ==
  {S \in SUBSET ToSet(staff.avail) : Cardinality(S) <= Free(desk) /\ \A skill \in DOMAIN Worth : Having(S, skill) <= MaxNum[skill]}

\* What is looked for in the list is not less than what the best operators are worth by
\* themselves, it is not more than the room can take, and those who were remembered have
\* each skill of it as often as it is asked for.
RoomsGetTheBest ==
  task = "staff" /\ at = "look" /\ staff.page = 1 /\ staff.count = 0 /\ ~staff.error =>
    /\ Len(desk.best) <= Free(desk)
    /\ \A skill \in DOMAIN Worth : Asks(desk.best, skill) <= Having(ToSet(staff.avail), skill)
    /\ \A S \in AnySingles : Total(desk.best) >= Total(SetToSeq({[AsComb(s, desk) EXCEPT !.names = {s}] : s \in S}))

\* After the review, and if the selection had been cleared, exactly the skills of the
\* combination are selected, and nobody who is tired; however many pages, tries and lost
\* clicks there were.
StaffIsSelected ==
  task = "staff" /\ at = "confirm" /\ desk.worked /\ desk.cleared =>
    /\ \A skill \in DOMAIN Worth : Having(desk.chosen, skill) = Asks(desk.best, skill)
    /\ desk.chosen \cap desk.tired = {}
=============================================================================
