-------------------------- MODULE RoguelikeBattle --------------------------
(***************************************************************************)
(* A battle of Integrated Strategies: RoguelikeBattleTaskPlugin fights it  *)
(* without a plan.  Around each home it wants somebody who blocks and a    *)
(* medic; when a blocker is seen cooling down his home is urgent, and is   *)
(* served first.  After eight minutes all who stand on the ground retreat, *)
(* after ten the battle is given up.                                       *)
(***************************************************************************)
EXTENDS BattleHelper

CONSTANTS
  Homes,     \* the homes of the stage are numbered
  Blocking,  \* the operators that block; the others are medics
  Melee      \* the places on the ground, for blockers; the others are for medics

ASSUME RogueAssumption == Homes \in Nat \ {0} /\ Blocking \subseteq Oper /\ Melee \subseteq Tile

VARIABLE rogue   \* what the plugin keeps besides

rogueVars == <<worker, battle, rogue>>

Home == 0..Homes - 1

RogueStart ==
  [cur |-> 0, first |-> TRUE,                                     \* m_cur_home_index, m_first_deploy
   meleeFull |-> FALSE, rangedFull |-> FALSE,
   wait |-> [h \in Home |-> TRUE], waitMedic |-> [h \in Home |-> TRUE],   \* m_homes_status
   blockers |-> [t \in Tile |-> {}], medics |-> [t \in Tile |-> {}],      \* m_blocking_for_home_index, m_medic_...
   urgent |-> << >>, timeout |-> FALSE,
   blind |-> FALSE]   \* a failed look has taken a cooling operator for granted

RogueInit == FieldInit /\ rogue = RogueStart

FullFor(r, o) == IF o \in Blocking THEN r.meleeFull ELSE r.rangedFull
SetFull(r, ts, full) ==
  [r EXCEPT !.meleeFull = IF ts \cap Melee # {} THEN full ELSE @,
            !.rangedFull = IF ts \ Melee # {} THEN full ELSE @]

-----------------------------------------------------------------------------
\* calc_stage_info
RogueBegins ==
  /\ at = "run"
  /\ UNCHANGED war
  /\ \/ RunFails(0) /\ UNCHANGED <<field, rogue>>
     \/ Goes("first") /\ field' = Cleared0 /\ rogue' = RogueStart

RogueFirstLook ==
  /\ at = "first" /\ WaitUntilStart
  /\ \E in \in BOOLEAN : UpdateDeployment(in)
  /\ Goes("once")
  /\ UNCHANGED rogue

RogueEnds == at = "once" /\ stopped /\ Goes("succeeded") /\ UNCHANGED <<battle, rogue>>

\* do_once finds no battle: the end of it, if anybody was deployed.
OnceFails ==
  /\ at = "once" /\ ~stopped
  /\ UpdateDeployment(FALSE)
  /\ rogue' = [rogue EXCEPT !.blind = @ \/ \E o \in Oper : field'.deck[o] = "cooling" /\ field.deck[o] # "cooling"]
  /\ IF rogue.first THEN Stays ELSE Goes("succeeded")

\* check_urgent: those who are seen cooling for the first time, and the places they left
Left == {field.opers[o] : o \in {p \in war.cooling : field.deck[p] # "cooling"}} \ {Nowhere}

Sorted(hs) == CHOOSE s \in [1..Cardinality(hs) -> hs] : \A i, j \in DOMAIN s : i < j => s[i] < s[j]

\* Fault: the home is urgent, but it does not wait for a blocker.
CheckUrgentOnly ==
  LET homes == UNION {rogue.blockers[t] : t \in Left}
      new == homes \ {rogue.urgent[i] : i \in DOMAIN rogue.urgent}
  IN SetFull([rogue EXCEPT !.blockers = [t \in Tile |-> IF t \in Left THEN {} ELSE @[t]],
                           !.urgent = @ \o Sorted(new)], Left, FALSE)

CheckUrgent ==
  LET homes == UNION {rogue.blockers[t] : t \in Left}
      medics == UNION {rogue.medics[t] : t \in {s \in Left : rogue.blockers[s] = {}}}
      new == homes \ {rogue.urgent[i] : i \in DOMAIN rogue.urgent}
      r == [rogue EXCEPT
              !.wait = [h \in Home |-> @[h] \/ h \in homes],
              !.waitMedic = [h \in Home |-> @[h] \/ h \in medics],
              !.medics = [t \in Tile |-> IF t \in Left /\ rogue.blockers[t] = {} THEN {} ELSE @[t]],
              !.blockers = [t \in Tile |-> IF t \in Left THEN {} ELSE @[t]],
              !.urgent = @ \o Sorted(new)]
  IN SetFull(r, Left, FALSE)

\* The home that is served now: the one in need, or the next.
ToHome(r) == IF r.urgent # << >> THEN [r EXCEPT !.cur = Head(r.urgent)] ELSE r

\* A look, after which nobody is deployed: skills were used, it is better to wait,
\* or nobody fits.
OnceWaits ==
  /\ at = "once" /\ ~stopped /\ war.phase = "on"
  /\ UNCHANGED war /\ Stays
  /\ \/ ~rogue.first /\ UNCHANGED <<field, rogue>>
     \/ /\ field' = [WithoutCooling EXCEPT !.inBattle = TRUE]
        /\ rogue' = ToHome(CheckUrgent)

\* calc_best_oper: a blocker or a medic, if the home lacks one and the list has one
Fits(r, o) ==
  /\ Reading[o] = "ready" /\ ~FullFor(r, o)
  /\ r.wait[r.cur] /\ ~r.meleeFull /\ (\E p \in Blocking : ~Stands(p)) => o \in Blocking
  /\ ~(r.wait[r.cur] /\ ~r.meleeFull /\ \E p \in Blocking : ~Stands(p))
     /\ r.waitMedic[r.cur] /\ ~r.rangedFull /\ (\E p \in Oper \ Blocking : ~Stands(p)) => o \notin Blocking

\* available_locations and calc_best_loc
FreeFor(o) == {t \in Tile : WithoutCooling.used[t] = Nobody /\ (t \in Melee <=> o \in Blocking)}

\* postproc_of_deployment_conditions; a medic serves the blockers in his range.
Postproc(r, o, t, range) ==
  IF o \in Blocking
    THEN [r EXCEPT !.blockers[t] = IF r.wait[r.cur] /\ @ = {} THEN {r.cur} ELSE @, !.wait[r.cur] = FALSE]
    ELSE [r EXCEPT !.waitMedic = [h \in Home |-> @[h] /\ h \notin range /\ h # r.cur],
                   !.medics[t] = IF @ = {} THEN range ELSE @]

OnceDeploys(o, t) ==
  LET looked == CheckUrgent
      r == ToHome(looked)
      normal == IF r.urgent = << >> THEN r.cur ELSE rogue.cur
  IN /\ at = "once" /\ ~stopped /\ war.phase = "on"
     /\ Fits(r, o) /\ t \in FreeFor(o)
     /\ DeployOper([WithoutCooling EXCEPT !.inBattle = TRUE], o, t)
     /\ \E range \in SUBSET (UNION {r.blockers[s] : s \in Tile}) :
           rogue' = [Postproc(r, o, t, range) EXCEPT
                       !.first = FALSE, !.cur = (normal + 1) % Homes,
                       !.urgent = IF @ = << >> THEN @ ELSE Tail(@)]
     /\ Stays

OnceIsFull(o) ==
  LET r == ToHome(CheckUrgent)
  IN /\ at = "once" /\ ~stopped /\ war.phase = "on"
     /\ Fits(r, o) /\ FreeFor(o) = {}
     /\ field' = [WithoutCooling EXCEPT !.inBattle = TRUE]
     /\ rogue' = SetFull(r, IF o \in Blocking THEN Melee ELSE Tile \ Melee, TRUE)
     /\ UNCHANGED war /\ Stays

\* all_melee_retreat, of whoever the notes say is there
RogueTimeout ==
  LET ts == {t \in Melee : field.used[t] # Nobody}
  IN /\ at = "once" /\ ~stopped /\ ~rogue.timeout
     /\ rogue' = [rogue EXCEPT !.timeout = TRUE]
     /\ field' = [field EXCEPT !.used = [t \in Tile |-> IF t \in ts THEN Nobody ELSE @[t]],
                               !.opers = [o \in Oper |-> IF @[o] \in ts THEN Nowhere ELSE @[o]]]
     /\ Leaves(UNION {On(t) : t \in ts})
     /\ Stays

RogueAbandons == at = "once" /\ ~stopped /\ rogue.timeout /\ Goes("succeeded") /\ UNCHANGED <<battle, rogue>>

RogueTask ==
  \/ RogueBegins \/ RogueFirstLook \/ RogueEnds \/ OnceFails \/ OnceWaits
  \/ (\E o \in Oper : OnceIsFull(o) \/ \E t \in Tile : OnceDeploys(o, t))
  \/ RogueTimeout \/ RogueAbandons

RogueNext == RogueTask \/ (GameNext(at \notin {"run", "first"}) /\ UNCHANGED rogue)
-----------------------------------------------------------------------------
Sighted == task = "roguelike" /\ war.doubt = {} /\ ~rogue.timeout /\ ~rogue.blind

\* A home that does not wait for a blocker has one: his place counts as used, or he
\* has left it and was not seen yet.  And a place that is taken counts as used, so
\* that nobody is sent there.
NoHomeForgotten ==
  Sighted =>
    /\ \A h \in Home : ~rogue.wait[h] => \E t \in Tile : h \in rogue.blockers[t] /\ field.used[t] # Nobody
    /\ \A o \in Oper : Stands(o) => field.used[war.stands[o]] = o
=============================================================================
