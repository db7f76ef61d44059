------------------------------- MODULE MCTasks -------------------------------
(***************************************************************************)
(* Small instances of all the tasks.                                       *)
(***************************************************************************)
EXTENDS Tasks

\* Recruitment: twice, once, without an end, and calculating only.
Ask(times, refresh, speedUp, confirms) == [times |-> times, refresh |-> refresh, speedUp |-> speedUp, confirms |-> confirms]
MCAsks == {Ask(2, TRUE, TRUE, TRUE), Ask(1, FALSE, TRUE, TRUE), Ask(-1, FALSE, TRUE, TRUE), Ask(0, TRUE, FALSE, FALSE)}

\* Integrated Strategies: the modes, with and without the money box, once or twice.
Explore(mode, starts, invests, invest, full, core) ==
  [mode |-> mode, starts |-> starts, invests |-> invests, invest |-> invest, full |-> full, core |-> core]
MCTripAsks == {Explore(0, 2, 1, TRUE, FALSE, "a"), Explore(1, 1, 2, TRUE, TRUE, NoMember), Explore(2, 2, 1, TRUE, FALSE, NoMember),
               Explore(0, 1, 0, FALSE, TRUE, "a")}

\* Three operators, the second too low, the third of the second
\* elite stage and for a temporary team.
MCHand == {"a", "b", "c"}
MCElite == [h \in MCHand |-> CASE h = "a" -> "fit" [] h = "b" -> "low" [] h = "c" -> "elite 2"]

Wishes(alt, r, rf, p, pf, off, m) ==
  [alternate |-> alt, recruit |-> r, recruitFull |-> rf, promote |-> p, promoteFull |-> pf, offsets |-> off, byMelee |-> m,
   melee |-> ~alt]
MCWish ==
  [h \in MCHand |-> CASE h = "a" -> Wishes(FALSE, 2, 0, 1, 3, <<>>, FALSE)
                       [] h = "b" -> Wishes(FALSE, 1, 1, 0, 2, << <<1, -2>>, <<2, 3>> >>, TRUE)
                       [] h = "c" -> Wishes(TRUE, 1, 0, 0, 0, <<>>, FALSE)]

\* No page, two that overlap, and one more than is looked at.
MCPages == {<<{}>>, <<{"a", "b"}, {"b", "c"}>>, <<{"c"}, {"b"}, {"a"}>>}
MCTeams == {{}, {"b", "c"}}

\* Goods for the grown that are the last to be bought, and goods for one operator.
MCGoods == <<[roles |-> {"a"}, chars |-> {}, promotion |-> TRUE, ignore |-> FALSE, last |-> TRUE],
             [roles |-> {}, chars |-> {"a"}, promotion |-> FALSE, ignore |-> TRUE, last |-> FALSE]>>

\* A dialogue in the market: two options, and the talk between them is skipped.
MCOptions == <<"option", "Skip", "option">>

\* A list of three pages; the first group takes one by name and others by what they are
\* worth, the second is for a facility with the number 3.
MCStaffPages == << <<"s">>, <<"t", "u">>, <<"v">> >>
MCSkillOf == [s |-> "x", t |-> "y", u |-> "x", v |-> "z"]
MCWorth == [x |-> 2, y |-> 0, z |-> 1]
MCMaxNum == [x |-> 1, y |-> 2, z |-> 2]
Place(skill, worth, names) == [skill |-> skill, worth |-> worth, names |-> names]
MCSkillGroups == <<
  [necessary |-> <<>>, optional |-> <<Place("x", 2, {"u"})>>, external |-> TRUE, number |-> NoNumber],
  [necessary |-> <<Place("z", 2, {})>>, optional |-> <<Place("x", 1, {}), Place("y", 2, {})>>, external |-> FALSE, number |-> 3] >>

\* A tower whose stages are planned, and one with another stage at its top; a wish for a role, one for a name, and
\* a recruit whose role is not known.
MCTowers == {<<"s", "t">>, <<"t", "u">>}
MCPlanned == [s |-> 1, t |-> 0]
MCDrops == <<"guard", "a", "medic">>
MCRoleOf == [a |-> "medic", b |-> "guard", c |-> "guard", d |-> ""]

\* Three goods, two of which an entry of a list may stand for; enough credit for some.
MCCommodities == <<"stone", "bricks of stone", "sofa">>
MCPrice == <<2, 1, 2>>
MCWithin == [n \in ToSet(MCCommodities) |-> CASE n = "stone" -> {"stone"} [] n = "sofa" -> {"sofa"} [] OTHER -> {"stone", "bricks"}]
MCUnread == -1
Shopping(first, black, force, fight) == [first |-> first, black |-> black, force |-> force, fight |-> fight]
MCShoppings ==
  {Shopping(<<"sofa", "stone">>, <<"stone">>, TRUE, FALSE), Shopping(<<"bricks", "stone">>, <<"sofa">>, TRUE, TRUE),
   Shopping(<<>>, <<>>, FALSE, FALSE), Shopping(<<"stone">>, <<"stone">>, FALSE, TRUE)}

\* Five materials, the second of which looks a little like its neighbours, and one that is
\* new; the depot holds any of them.
MCMaterials == <<"m1", "m2", "m3", "m4", "m5">>
MCAlike == [i \in {"m1", "m2", "m3", "m4", "m5", "new"} |-> CASE i = "m2" -> {"m1", "m3"} [] i = "m4" -> {"m5"} [] OTHER -> {}]
MCHas == [i \in {"m1", "m2", "m3", "m4", "m5", "new"} |-> CASE i = "m2" -> 25 [] i = "m3" -> 1 [] OTHER -> 3]
MCContents ==
  {SelectSeq(o, LAMBDA i : i \in S) : S \in SUBSET {"m1", "m2", "m3", "m4", "m5", "new"},
                                      o \in {<<"m1", "m2", "new", "m3", "m4", "m5">>, <<"m1", "m2", "m3", "m4", "new", "m5">>}}
=============================================================================
