-------------------------- MODULE RoguelikeRecruit --------------------------
(***************************************************************************)
(* RoguelikeRecruitTaskPlugin picks one operator of a recruitment of       *)
(* Integrated Strategies: the one the run is built around, from the list   *)
(* or from a friend, while he is not there yet; else the one that is worth *)
(* most of all pages of the list; else anybody of the second elite stage.  *)
(* A click takes an operator; what it asks the game for is confirmed by    *)
(* other tasks.                                                            *)
(***************************************************************************)
EXTENDS Worker, FiniteSets, SequencesExt

CONSTANTS
  Hand,            \* the operators
  NoHand,
  Elite,           \* the level he is shown with: "low", "fit" or "elite 2"
  Wish,            \* what recruitment.json says of each
  Pages,           \* the lists that may be shown, page by page
  Teams,           \* those who may be in the team already
  SwipeTimes,      \* max_times of RoguelikeRecruitSwipeMaxTime
  CheckTimes,      \* the looks of check_char
  MaxRefresh,      \* special_params of RoguelikeRefreshSupportBtnOcr
  PluginRetries    \* RetryTimesDefault

\* A list without operators has one page; no page is the same as the one before it.
ASSUME HireAssumption ==
  /\ {SwipeTimes, CheckTimes, MaxRefresh, PluginRetries} \subseteq Nat /\ CheckTimes > SwipeTimes /\ SwipeTimes > 0
  /\ NoHand \notin Hand /\ Pages \subseteq Seq(SUBSET Hand) \ {<<>>}
  /\ \A pages \in Pages : \A p \in 2..Len(pages) : {} \notin {pages[p - 1], pages[p]} /\ pages[p] # pages[p - 1]

VARIABLES
  hire,     \* RoguelikeRecruitTaskPlugin and what it keeps in Status
  list      \* the game: the pages, and the one that is shown

hireVars == <<worker, hire, list>>

HireInit ==
  /\ hire \in [core : Hand \cup {NoHand}, support : BOOLEAN, full : BOOLEAN, team : Teams,
               i : {0}, found : {{}}, seen : {[h \in Hand |-> -1]}, goal : {NoHand}, left : {FALSE},
               pre : {{}}, same : {FALSE}, asked : {0}, picked : {NoHand}]
  /\ list \in [pages : Pages, shown : 0..2, sharp : BOOLEAN, friends : {FALSE}, wanted : {NoHand}]
  /\ list.shown < Len(list.pages)

\* A page may be read in part; sharp: all of it always is, and every swipe has its effect.
Shown == IF list.friends THEN {} ELSE list.pages[list.shown + 1]
HireLook(names) == names \subseteq Shown /\ (list.sharp => names = Shown)

LastPage == Len(list.pages) - 1
FurtherPage(p) == {IF p < LastPage THEN p + 1 ELSE p} \cup (IF list.sharp THEN {} ELSE {p})
EarlierPage(p) == {IF p > 0 THEN p - 1 ELSE p} \cup (IF list.sharp THEN {} ELSE {p})
FirstPages(p, times) == IF list.sharp THEN {IF p > times THEN p - times ELSE 0} ELSE 0..p
ShowOneOf(ps) == \E p \in ps : list' = [list EXCEPT !.shown = p]

HireSelect(h) == hire' = [hire EXCEPT !.picked = h]

\* What a pair <<n, add>> of a list of offsets adds: the last one with so many in the team.
OffsetFor(offsets, n) ==
  LET reached == {j \in DOMAIN offsets : n >= offsets[j][1]}
  IN  IF reached = {} THEN 0 ELSE offsets[Max(reached)][2]

\* The roles in the team are never known: only the offsets for melee, and for none, count.
Priority(h) ==
  LET w == Wish[h]
      recruit == IF hire.full THEN w.recruitFull ELSE w.recruit
      melee == Cardinality({t \in hire.team : Wish[t].melee})
      offset == IF w.alternate THEN 0 ELSE OffsetFor(w.offsets, IF w.byMelee THEN melee ELSE 0)
  IN  IF h \in hire.team
      THEN IF w.alternate THEN recruit ELSE IF hire.full THEN w.promoteFull ELSE w.promote
      ELSE (IF Elite[h] = "low" THEN 0 ELSE recruit) + offset

-----------------------------------------------------------------------------
\* check_support_char and check_core_char: the core is forgotten before it is looked for.
HireBegins ==
  /\ at = "run"
  /\ hire' = [hire EXCEPT !.core = NoHand, !.goal = hire.core, !.left = FALSE, !.i = 0, !.pre = {}, !.same = FALSE,
                          !.asked = 0, !.seen = [h \in Hand |-> -1], !.found = {}]
  /\ list' = [list EXCEPT !.wanted = IF @ = NoHand THEN hire.core ELSE @]
  /\ Goes(IF hire.core = NoHand THEN "list" ELSE IF hire.support THEN "support" ELSE "check core")

\* The button is there in the first recruitment only.
OpenSupport ==
  /\ at = "support"
  /\ \/ Goes("friends") /\ list' = [list EXCEPT !.friends = TRUE]
     \/ Goes("list") /\ UNCHANGED list
  /\ UNCHANGED hire

\* Two pages, then a refresh and both again; no stop is looked for in between.
FriendFound == at = "friends" /\ HireSelect(hire.goal) /\ list' = [list EXCEPT !.friends = FALSE] /\ Goes("succeeded")

FriendMissing ==
  /\ at = "friends"
  /\ \/ hire.asked < 2 * MaxRefresh + 1 /\ hire' = [hire EXCEPT !.asked = @ + 1] /\ Stays /\ UNCHANGED list
     \/ /\ hire.asked = 2 * MaxRefresh + 1 \/ hire.asked % 2 = 1   \* or the button for a refresh is not found
        /\ Goes("list") /\ UNCHANGED hire
        /\ \E back \in BOOLEAN : Sub(back) /\ (list.sharp /\ ~stopped => back) /\ list' = [list EXCEPT !.friends = ~back]

-----------------------------------------------------------------------------
\* swipe_to_the_left_of_operlist: the list may not begin at its first page.
ToFirstPage ==
  /\ at = "list"
  /\ ShowOneOf(FirstPages(list.shown, 2)) /\ Goes("pages")
  /\ UNCHANGED hire

SeeStopInList ==
  /\ stopped
  /\ \/ at = "pages" /\ hire.i < SwipeTimes
     \/ at \in {"check core", "check"} /\ hire.i < CheckTimes
  /\ RunFails(PluginRetries)
  /\ UNCHANGED <<hire, list>>

\* Who is worth something comes on the list, with the first page he was seen on.
Added(names) ==
  hire.found \cup {[name |-> h, page |-> hire.i] : h \in {n \in names : Priority(n) > 0 /\ \A c \in hire.found : c.name # n}}

Listed == Goes(IF hire.found' = {} THEN "nobody" ELSE "choose") /\ UNCHANGED list

\* Nothing is read: of the first page, that there is nobody to take.
ReadNothing ==
  /\ at = "pages" /\ ~stopped /\ hire.i < SwipeTimes
  /\ HireLook({})
  /\ UNCHANGED hire
  /\ IF hire.i = 0 THEN Goes("succeeded") /\ UNCHANGED list ELSE Listed

\* The page is where it was before, or not full, or has the same names: it is the last
\* one.  Of a page that has not moved those are left out that come after one seen before.
ReadLastPage(names) ==
  /\ at = "pages" /\ ~stopped /\ hire.i < SwipeTimes
  /\ names # {} /\ HireLook(names)
  /\ LET unmoved == {h \in names : hire.seen[h] = list.shown}
     IN  IF unmoved # {} THEN \E some \in SUBSET (names \ unmoved) : hire' = [hire EXCEPT !.found = Added(some)]
         ELSE /\ names = hire.pre \/ list.shown = LastPage \/ ~list.sharp
              /\ hire' = [hire EXCEPT !.found = Added(names)]
  /\ Listed

ReadPageAndSwipe(names) ==
  /\ at = "pages" /\ ~stopped /\ hire.i < SwipeTimes
  /\ names # {} /\ HireLook(names) /\ names # hire.pre
  /\ \A h \in names : hire.seen[h] # list.shown
  /\ hire' = [hire EXCEPT !.found = Added(names), !.i = @ + 1, !.pre = names,
                          !.seen = [h \in Hand |-> IF h \in names THEN list.shown ELSE @[h]]]
  /\ ShowOneOf(FurtherPage(list.shown)) /\ Stays

ReadEnough == at = "pages" /\ hire.i = SwipeTimes /\ UNCHANGED hire /\ Listed

\* Nobody is worth it: anybody of the second elite stage, from the first page.
RecruitRandom ==
  /\ at = "nobody"
  /\ \E p \in (IF hire.i = 0 THEN {list.shown} ELSE FirstPages(list.shown, hire.i + 1)) : \E names \in SUBSET Hand :
       LET page == IF list.friends THEN {} ELSE list.pages[p + 1] IN
       /\ list' = [list EXCEPT !.shown = p]
       /\ names \subseteq page /\ (list.sharp => names = page)
       /\ IF names = {} THEN RunFails(PluginRetries) /\ UNCHANGED hire
          ELSE /\ Goes("succeeded")
               /\ IF \A h \in names : Elite[h] # "elite 2" THEN UNCHANGED hire
                  ELSE \E h \in names : Elite[h] = "elite 2" /\ HireSelect(h)

\* max_element: of those worth most, one that was seen first.
Best(c) == \A d \in hire.found :
             /\ Priority(d.name) <= Priority(c.name)
             /\ Priority(d.name) = Priority(c.name) => c.page <= d.page

\* Fault: the list stays at its last page, from which the search goes on to the right.
ChooseFromHere(c) ==
  /\ at = "choose" /\ c \in hire.found /\ Best(c)
  /\ hire' = [hire EXCEPT !.goal = c.name, !.left = 2 * c.page >= hire.i /\ hire.i # 0, !.pre = {}, !.same = FALSE, !.i = 0]
  /\ Goes("check") /\ UNCHANGED list

\* The nearer way to his page: back to the left, or from the first page to the right.
Choose(c) ==
  /\ at = "choose" /\ c \in hire.found /\ Best(c)
  /\ LET left == 2 * c.page >= hire.i /\ hire.i # 0
     IN  /\ ShowOneOf(IF left \/ hire.i = 0 THEN {list.shown} ELSE FirstPages(list.shown, hire.i + 1))
         /\ hire' = [hire EXCEPT !.goal = c.name, !.left = left, !.pre = {}, !.same = FALSE, !.i = 0]
  /\ Goes("check")

-----------------------------------------------------------------------------
\* check_char
Checking == at \in {"check core", "check"}

HireFound(names) ==
  /\ Checking /\ ~stopped /\ hire.i < CheckTimes
  /\ HireLook(names) /\ hire.goal \in names
  /\ HireSelect(hire.goal) /\ Goes("succeeded") /\ UNCHANGED list

NotOnThisPage(names) ==
  /\ Checking /\ ~stopped /\ hire.i < CheckTimes
  /\ HireLook(names) /\ hire.goal \notin names
  /\ names # {} /\ names = hire.pre => ~hire.same
  /\ hire' = IF names = {} THEN [hire EXCEPT !.i = @ + 1]
             ELSE [hire EXCEPT !.i = @ + 1, !.pre = names, !.same = (names = hire.pre)]
  /\ ShowOneOf(IF hire.left THEN EarlierPage(list.shown) ELSE FurtherPage(list.shown)) /\ Stays

\* Not found in so many looks, or the list does not change any more.
NotFound ==
  /\ Checking
  /\ hire.i = CheckTimes \/ (~stopped /\ hire.same /\ hire.pre # {} /\ HireLook(hire.pre))
  /\ ShowOneOf(FirstPages(list.shown, hire.i + 1))
  /\ IF at = "check" THEN UNCHANGED hire /\ RunFails(PluginRetries)
     ELSE hire' = [hire EXCEPT !.i = 0, !.pre = {}, !.same = FALSE] /\ Goes("list")

HireNext ==
  \/ HireBegins \/ OpenSupport \/ FriendFound \/ FriendMissing
  \/ ToFirstPage \/ SeeStopInList \/ ReadNothing \/ ReadEnough \/ RecruitRandom
  \/ (\E names \in SUBSET Hand : ReadLastPage(names) \/ ReadPageAndSwipe(names) \/ HireFound(names) \/ NotOnThisPage(names))
  \/ (\E c \in hire.found : Choose(c)) \/ NotFound
-----------------------------------------------------------------------------
\* If every page is read as it is, a recruitment takes the core, or one of those that
\* are worth most on all the pages that are looked at, however the way back to his page
\* leads; and nobody only when nobody is worth anything and the first page has none of
\* the second elite stage.
RogueHiresBest ==
  LET looked == UNION {list.pages[p] : p \in 1..(IF SwipeTimes < Len(list.pages) THEN SwipeTimes ELSE Len(list.pages))}
      worth == {h \in looked : Priority(h) > 0}
  IN  task = "hire" /\ at \in {"succeeded", "failed"} /\ list.sharp /\ ~stopped =>
        /\ at = "succeeded"
        /\ hire.picked # list.wanted \/ list.wanted = NoHand =>
             IF worth # {} THEN hire.picked \in worth /\ \A h \in worth : Priority(h) <= Priority(hire.picked)
             ELSE IF \E h \in list.pages[1] : Elite[h] = "elite 2" THEN hire.picked \in list.pages[1] /\ Elite[hire.picked] = "elite 2"
             ELSE hire.picked = NoHand
=============================================================================
