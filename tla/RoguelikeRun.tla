---------------------------- MODULE RoguelikeRun ----------------------------
(***************************************************************************)
(* Integrated Strategies, one expedition after the other: a ProcessTask    *)
(* that is run again and again follows the game from the start page to the *)
(* end, and its plugins act where a task starts or ends.  What a plugin    *)
(* leaves for the others is kept in Status, which all tasks of one         *)
(* Assistant share and which a new expedition clears.  The tasks of the    *)
(* graph are left out but for those that count or call a plugin.           *)
(***************************************************************************)
EXTENDS Worker, FiniteSets, SequencesExt

CONSTANTS
  Member,       \* the operators
  NoMember,
  Goods,        \* shopping.json, in its order
  TripRuns,     \* how often the task is in m_subtasks, 100 in the code
  TripAsks,     \* the params it may be given: starts_count, investments_count and the rest
  InvestFull,   \* InvestLimit, 999 in the code
  MaxFloors,    \* of the game: what an expedition may consist of
  TripSets      \* bound on the calls of set_params while the task runs

ASSUME TripAssumption ==
  /\ {TripRuns, InvestFull, MaxFloors, TripSets} \subseteq Nat
  /\ TripAsks \subseteq [mode : 0..2, starts : Nat, invests : Nat, invest : BOOLEAN, full : BOOLEAN, core : Member \cup {NoMember}]

VARIABLES
  trip,    \* RoguelikeTask with its ProcessTask and plugins, and Status
  quest    \* the game

tripVars == <<worker, trip, quest>>

Strengths == {"none", "low", "strong", "ready"}   \* in CharOverview: below 60, above, waiting for promotion
NobodyKnown == [m \in Member |-> "none"]

Status0 == [over |-> NobodyKnown, known |-> FALSE, core |-> NoMember, noBuy |-> FALSE, full |-> FALSE]

\* stop_when_investment_full sets a limit of its own in place of investments_count.
InvestLimit(p) == IF p.full THEN InvestFull ELSE p.invests

\* set_params.  Mode 1 leaves the expedition after the first shop, mode 2 after the money
\* box.  The status is what a former task has left.
TripInit ==
  \E p \in TripAsks :
    /\ trip = [runs |-> 0, enabled |-> TRUE, starts |-> 0, invests |-> 0,
               maxStarts |-> p.starts, maxInvest |-> InvestLimit(p), investing |-> p.invest, stopFull |-> p.full,
               leave |-> p.mode = 1, cancel |-> p.mode = 2, core |-> p.core,
               status |-> [Status0 EXCEPT !.over = [m \in Member |-> "ready"], !.known = TRUE, !.noBuy = TRUE]]
    /\ quest = [on |-> FALSE, hired |-> {}, floor |-> 0, begun |-> 0, paid |-> 0, coreSet |-> FALSE, last |-> FALSE,
                sets |-> 0, mostStarts |-> p.starts, mostInvest |-> InvestLimit(p)]

Larger(a, b) == IF a > b THEN a ELSE b

\* set_params of the running task, from the client's thread, at once: what limits a
\* number is set anew, what switches something is never switched back.
SetTrip(p) ==
  /\ quest.sets < TripSets
  /\ trip' = [trip EXCEPT !.maxStarts = p.starts, !.maxInvest = InvestLimit(p),
                          !.investing = @ /\ p.invest, !.stopFull = @ \/ p.full,
                          !.leave = @ \/ p.mode = 1, !.cancel = @ \/ p.mode = 2,
                          !.core = IF p.core = NoMember THEN @ ELSE p.core]
  /\ quest' = [quest EXCEPT !.sets = @ + 1, !.mostStarts = Larger(@, p.starts), !.mostInvest = Larger(@, InvestLimit(p))]
  /\ Stays

EndsRun == Goes("run")

\* PackageTask::run; a run that fails is ignored.
NextRun ==
  /\ at = "run"
  /\ UNCHANGED quest
  /\ IF trip.runs = TripRuns \/ (~trip.enabled /\ ~stopped) THEN Goes("succeeded") /\ UNCHANGED trip
     ELSE IF stopped THEN Goes("failed") /\ UNCHANGED trip
     ELSE Goes("begin") /\ trip' = [trip EXCEPT !.runs = @ + 1]

\* The graph finds nothing that it knows, or a stop: the run is over.
GraphEnds == at \notin {"run"} \cup Over /\ EndsRun /\ UNCHANGED <<trip, quest>>

\* A limit is reached: RoguelikeControlTaskPlugin, and the graph has no way on.
LimitReached == trip' = [trip EXCEPT !.enabled = FALSE] /\ EndsRun

-----------------------------------------------------------------------------
\* Fault: what is kept as text stays.
StartExploreKeepsTexts ==
  /\ at = "begin" /\ ~stopped /\ ~quest.on
  /\ IF trip.starts >= trip.maxStarts THEN LimitReached /\ UNCHANGED quest
     ELSE /\ trip' = [trip EXCEPT !.starts = @ + 1, !.status = [@ EXCEPT !.noBuy = FALSE, !.full = FALSE]]
          /\ \/ Stays /\ UNCHANGED quest
             \/ /\ quest' = [quest EXCEPT !.on = TRUE, !.hired = {}, !.floor = 0, !.begun = @ + 1, !.coreSet = FALSE, !.last = FALSE]
                /\ Goes("squad")

\* RoguelikeResetTaskPlugin; the click may have no effect, and is made again.
StartExplore ==
  /\ at = "begin" /\ ~stopped /\ ~quest.on
  /\ IF trip.starts >= trip.maxStarts THEN LimitReached /\ UNCHANGED quest
     ELSE /\ trip' = [trip EXCEPT !.starts = @ + 1, !.status = Status0]
          /\ \/ Stays /\ UNCHANGED quest
             \/ /\ quest' = [quest EXCEPT !.on = TRUE, !.hired = {}, !.floor = 0, !.begun = @ + 1, !.coreSet = FALSE, !.last = FALSE]
                /\ Goes("squad")

\* The start page of an expedition that goes on: to the next level, or it is given up.
ContinueExplore ==
  /\ at = "begin" /\ ~stopped /\ quest.on
  /\ \/ Goes("field") /\ UNCHANGED quest
     \/ Stays /\ quest' = [quest EXCEPT !.on = FALSE]
  /\ UNCHANGED trip

\* hijack_squad and hijack_roles are about what is clicked only; hijack_core_char, when
\* the role is found, asks for the core.
HijackCoreChar ==
  /\ at = "squad" /\ ~stopped
  /\ \/ /\ trip.core # NoMember
        /\ trip' = [trip EXCEPT !.status.core = trip.core]
        /\ quest' = [quest EXCEPT !.coreSet = TRUE]
     \/ UNCHANGED <<trip, quest>>
  /\ Goes("recruit")

\* RoguelikeRecruitTaskPlugin (see RoguelikeRecruit): the core is asked for once, one
\* operator or nobody is clicked, and remembered as he is shown.
RecruitOne ==
  /\ at = "recruit" /\ ~stopped
  /\ \/ \E m \in Member, s \in Strengths \ {"none"} :
          /\ trip' = [trip EXCEPT !.status = [@ EXCEPT !.core = NoMember, !.over[m] = s, !.known = TRUE]]
          /\ quest' = [quest EXCEPT !.hired = @ \cup {m}]
     \/ trip' = [trip EXCEPT !.status.core = NoMember] /\ UNCHANGED quest
  /\ Goes("field")

-----------------------------------------------------------------------------
FurtherFloor == quest.floor < MaxFloors /\ quest' = [quest EXCEPT !.floor = @ + 1]

\* The next node: a battle, a shop, or an operator to recruit; or it was the last one.
EnterNode ==
  /\ at = "field" /\ ~stopped
  /\ \/ FurtherFloor /\ \E node \in {"formation", "shop", "recruit"} : Goes(node)
     \/ quest' = [quest EXCEPT !.on = FALSE] /\ Goes("begin")
  /\ UNCHANGED trip

\* RoguelikeFormationTaskPlugin clicks, RoguelikeSkillSelectionTaskPlugin reads who is in
\* the team: who is taken for known when nobody was recruited, and whether all are grown.
SelectSkills ==
  /\ at = "formation" /\ ~stopped
  /\ \/ UNCHANGED trip
     \/ \E team \in SUBSET quest.hired, grown \in BOOLEAN :
          trip' = [trip EXCEPT !.status =
                     [@ EXCEPT !.full = grown, !.known = TRUE,
                               !.over = IF trip.status.known THEN trip.status.over ELSE [m \in Member |-> IF m \in team THEN "ready" ELSE "none"]]]
  /\ Goes("battle") /\ UNCHANGED quest

\* RoguelikeBattleTaskPlugin (see RoguelikeBattle); the battle is won or the expedition over.
FightBattle ==
  /\ at = "battle" /\ ~stopped
  /\ \/ Goes("field") /\ UNCHANGED quest
     \/ Goes("begin") /\ quest' = [quest EXCEPT !.on = FALSE]
  /\ UNCHANGED trip

GivesUp == Goes("begin") /\ quest' = [quest EXCEPT !.on = FALSE] /\ UNCHANGED trip

\* StageTraderInvestCancel, the way out of the box: to the goods, or out altogether.
InvestCancel == IF trip.cancel THEN GivesUp ELSE Goes("goods") /\ UNCHANGED <<trip, quest>>

\* The money box takes what is given, or is full: that press is not counted.
Invest ==
  /\ at = "shop" /\ ~stopped /\ trip.investing
  /\ IF trip.invests >= trip.maxInvest THEN LimitReached /\ UNCHANGED quest
     ELSE \/ /\ trip' = [trip EXCEPT !.invests = @ + 1] /\ quest' = [quest EXCEPT !.paid = @ + 1]
             /\ Stays
          \/ IF trip.stopFull THEN LimitReached /\ UNCHANGED quest
             ELSE InvestCancel

\* It does not open, or has an error.
InvestNoMore ==
  /\ at = "shop" /\ ~stopped
  /\ (Goes("goods") /\ UNCHANGED <<trip, quest>>) \/ (trip.investing /\ InvestCancel)

-----------------------------------------------------------------------------
Strong == {m \in Member : trip.status.over[m] \in {"strong", "ready"}}
Waiting == {m \in Member : trip.status.over[m] = "ready"}

\* Who is in the team wants it, as far as Status tells.
WantedGood(g) ==
  /\ trip.status.noBuy => g.ignore
  /\ g.roles # {} => g.roles \cap Strong # {}
  /\ g.promotion => Waiting # {} /\ (g.roles # {} => g.roles \cap Waiting # {})
  /\ g.chars # {} => g.chars \cap Strong # {}

\* The first of the list that is wanted and offered; nothing, and the shop is left.
Buy(offered) ==
  /\ at = "goods" /\ ~stopped
  /\ LET want == {i \in DOMAIN Goods : i \in offered /\ WantedGood(Goods[i])}
     IN  IF want = {} THEN Goes("leave") /\ UNCHANGED <<trip, quest>>
         ELSE LET g == Goods[Min(want)] IN
              /\ trip' = [trip EXCEPT !.status.noBuy = @ \/ g.last]
              /\ quest' = [quest EXCEPT !.last = @ \/ g.last]
              /\ Goes("goods more")

\* It is bought and the shop shows what is left, or there is no money for it.
BoughtOrNot ==
  /\ at = "goods more" /\ ~stopped
  /\ \/ FurtherFloor /\ Goes("goods")
     \/ UNCHANGED quest /\ Goes("leave")
  /\ UNCHANGED trip

\* StageTraderLeaveConfirm: the limit of mode 1 is looked at after the click.
LeaveShop ==
  /\ at = "leave" /\ ~stopped
  /\ IF trip.leave THEN GivesUp ELSE Goes("field") /\ UNCHANGED <<trip, quest>>

TripWorks ==
  \/ NextRun \/ GraphEnds \/ StartExplore \/ ContinueExplore \/ HijackCoreChar \/ RecruitOne \/ EnterNode
  \/ SelectSkills \/ FightBattle \/ Invest \/ InvestNoMore \/ (\E offered \in SUBSET DOMAIN Goods : Buy(offered))
  \/ BoughtOrNot \/ LeaveShop

TripNext == TripWorks \/ (\E p \in TripAsks : SetTrip(p))
-----------------------------------------------------------------------------
\* Through all runs of the task there are no more expeditions and no more investments
\* than the most that was asked for while it ran (where the box is to be filled, than the
\* code's own limit), and none after a limit was met; and in an expedition nobody is
\* taken for a member, asked for as the core, or kept from buying, because of what an
\* earlier expedition or an earlier task has left in Status.
ExpeditionIsOwn ==
  task = "explore" =>
    /\ quest.begun <= quest.mostStarts /\ quest.paid <= quest.mostInvest
    /\ ~trip.enabled => at \in {"run"} \cup Over
    /\ quest.on =>
         /\ \A m \in Member : trip.status.over[m] # "none" => m \in quest.hired
         /\ trip.status.core # NoMember => quest.coreSet
         /\ trip.status.noBuy => quest.last
=============================================================================
