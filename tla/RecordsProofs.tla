---------------------------- MODULE RecordsProofs ----------------------------
(***************************************************************************)
(* What is proved of the tasks that choose and count (see TasksProofs):    *)
(* that squads are those of the plan and the best recruit is hired, and    *)
(* that records, of drops, gold, expeditions, tries and the depot, are of  *)
(* what has happened.                                                      *)
(***************************************************************************)
EXTENDS TasksProofs

\* Of all steps a squad can take part in its own and a stop,
LEMMA StepOfForm ==
  ASSUME [Next]_vars, task = "formation"
  PROVE  FormNext \/ (UNCHANGED <<at, form, squad>> /\ (stopped => stopped'))
BY Zenon DEF Next, Only, vars, Own, StopWorker, worker

\* and the allocation likewise.
LEMMA StepOfAlloc ==
  ASSUME [Next]_vars, task = "allocate"
  PROVE  AllocNext \/ UNCHANGED <<at, alloc>>
BY Zenon DEF Next, Only, vars, Own, StopWorker, worker
-----------------------------------------------------------------------------
OfForm == {"groups", "todo", "tries", "random"}

FormTypeOK ==
  /\ DOMAIN form = OfForm
  /\ form.groups \in [Group -> SUBSET Recruit \ {{}}]
  /\ form.todo \in [Group -> Nat]
  /\ form.tries \in Nat

\* Nothing was done before the first try.
Untried == form.tries = 0 => at = "run" /\ \A g \in Group : form.todo[g] = 0

\* In the first try a group that is still to be served has nobody selected, the others
\* have one.
FirstTry ==
  form.tries = 1 /\ Disjoint /\ at \in {"pick", "succeeded"} =>
    /\ squad \subseteq UNION {form.groups[g] : g \in Group}
    /\ \A g \in Group : \/ form.todo[g] = 1 /\ squad \cap form.groups[g] = {}
                        \/ form.todo[g] = 0 /\ \E o \in form.groups[g] : squad \cap form.groups[g] = {o}

AllServed == at = "succeeded" /\ ~stopped => Wanted = {}

FormInv == FormTypeOK /\ Untried /\ FirstTry /\ AllServed

\* FormInv holds before the first try
LEMMA FormStarts == ASSUME WorkerInit("formation"), FormInit PROVE FormInv
<1>1. /\ DOMAIN form = OfForm /\ form.groups \in [Group -> SUBSET Recruit \ {{}}]
      /\ form.todo = [g \in Group |-> 0] /\ form.tries = 0
  BY DEF FormInit, OfForm
<1>2. at = "run"
  BY DEF WorkerInit
<1> QED
  BY <1>1, <1>2 DEF FormInv, FormTypeOK, Untried, FirstTry, AllServed

\* and after each step of it and of the next ones.
LEMMA FormGoesOn == ASSUME FormInv, FormNext PROVE FormInv'
<1> USE DEF FormInv
<1>1. CASE FormBegins
  <2>1. /\ DOMAIN form' = OfForm /\ form'.groups = form.groups /\ form'.tries = form.tries + 1
        /\ form'.todo = [g \in Group |-> form.todo[g] + 1]
    BY <1>1 DEF FormBegins, FormTypeOK, OfForm
  <2>2. FormTypeOK'
    BY <2>1 DEF FormTypeOK
  <2>3. Untried'
    BY <2>1 DEF Untried, FormTypeOK
  <2>4. at' \in {"run", "failed"} \/ (at' = "pick" /\ squad' = {})
    BY <1>1 DEF FormBegins, RunFails, Goes
  <2>5. FirstTry'
    <3> SUFFICES ASSUME form'.tries = 1, at' = "pick" PROVE FirstTry'
      BY <2>4 DEF FirstTry
    <3>1. \A g \in Group : form.todo[g] = 0
      BY <2>1 DEF Untried, FormTypeOK
    <3>2. \A g \in Group : form'.todo[g] = 1
      BY <2>1, <3>1
    <3> QED
      BY <2>4, <3>2 DEF FirstTry
  <2>6. AllServed'
    BY <2>4 DEF AllServed
  <2> QED
    BY <2>2, <2>3, <2>5, <2>6
<1>2. CASE ConfirmSquad
  <2>1. UNCHANGED <<form, squad, stopped>> /\ at' \in {"run", "failed", "succeeded"} /\ at = "pick" /\ (stopped \/ Wanted = {})
    BY <1>2 DEF ConfirmSquad, RunFails, Goes
  <2>2. FormTypeOK' /\ Untried'
    BY <2>1 DEF FormTypeOK, Untried
  <2>3. FirstTry'
    BY <2>1 DEF FirstTry, Disjoint
  <2>4. AllServed'
    BY <2>1 DEF AllServed, Wanted
  <2> QED
    BY <2>2, <2>3, <2>4
<1>3. ASSUME NEW o \in Recruit, NEW g \in Group, PickOper(o, g) PROVE FormInv'
  <2>1. /\ at = "pick" /\ at' = "pick" /\ stopped' = stopped /\ o \in form.groups[g]
        /\ form.todo[g] > 0 /\ squad' = (squad \cup {o}) \ (squad \cap {o})
    BY <1>3 DEF PickOper, Wanted, Stays, worker
  <2>2. /\ DOMAIN form' = OfForm /\ form'.groups = form.groups /\ form'.tries = form.tries
        /\ form'.todo = [form.todo EXCEPT ![g] = @ - 1]
    BY <1>3 DEF PickOper, FormTypeOK, OfForm
  <2>3. FormTypeOK'
    BY <2>1, <2>2 DEF FormTypeOK
  <2>4. Untried' /\ AllServed'
    BY <2>1, <2>2, <2>3 DEF Untried, AllServed
  <2>5. FirstTry'
    <3> SUFFICES ASSUME form.tries = 1, Disjoint
                 PROVE  /\ squad' \subseteq UNION {form.groups[h] : h \in Group}
                        /\ \A h \in Group : \/ form'.todo[h] = 1 /\ squad' \cap form.groups[h] = {}
                                            \/ form'.todo[h] = 0 /\ \E p \in form.groups[h] : squad' \cap form.groups[h] = {p}
      BY <2>2 DEF FirstTry, Disjoint
    <3>1. form.todo[g] = 1 /\ squad \cap form.groups[g] = {}
      BY <2>1 DEF FirstTry
    <3>2. squad' = squad \cup {o}
      BY <2>1, <3>1
    <3>3. squad' \subseteq UNION {form.groups[h] : h \in Group}
      BY <2>1, <3>2 DEF FirstTry
    <3>4. form'.todo[g] = 0 /\ squad' \cap form.groups[g] = {o}
      BY <2>1, <2>2, <3>1, <3>2 DEF FormTypeOK
    <3>5. ASSUME NEW h \in Group, h # g
          PROVE  form'.todo[h] = form.todo[h] /\ squad' \cap form.groups[h] = squad \cap form.groups[h]
      BY <2>1, <2>2, <3>2, <3>5 DEF Disjoint, FormTypeOK
    <3> QED
      BY <2>1, <3>3, <3>4, <3>5 DEF FirstTry
  <2> QED
    BY <2>3, <2>4, <2>5
<1> QED
  BY <1>1, <1>2, <1>3 DEF FormNext

\* A stop changes nothing that was done.
LEMMA FormStops == ASSUME FormInv, UNCHANGED <<at, form, squad>>, stopped => stopped' PROVE FormInv'
BY DEF FormInv, FormTypeOK, Untried, FirstTry, AllServed, Disjoint, Wanted

\* A first try that has served all groups has one of each.
LEMMA FormIsAsked == ASSUME FormInv PROVE OneOfEachGroup
BY DEF FormInv, FormTypeOK, FirstTry, AllServed, Wanted, OneOfEachGroup

-----------------------------------------------------------------------------
OfAlloc == {"groups", "have", "rows", "columns", "answer"}
AllRows == TakenRows(alloc.groups, alloc.have) \cup LeftRows(alloc.groups, alloc.have)
AllColumns == CharGroup \cup UNION LeftRows(alloc.groups, alloc.have)

AllocTypeOK ==
  /\ DOMAIN alloc = OfAlloc
  /\ alloc.groups \in [CharGroup -> SUBSET Char] /\ alloc.have \in SUBSET Char
  /\ alloc.rows \subseteq AllRows /\ alloc.answer \in Seq(AllRows)

\* Rows of the answer share no column, with each other or with a row that is left, and
\* the columns that are left are those they do not cover.
AnswerIsApart ==
  /\ \A i, j \in DOMAIN alloc.answer : i # j => alloc.answer[i] \cap alloc.answer[j] = {}
  /\ \A i \in DOMAIN alloc.answer : \A r \in alloc.rows : r \cap alloc.answer[i] = {}
  /\ \A c \in AllColumns \ alloc.columns : \E i \in DOMAIN alloc.answer : c \in alloc.answer[i]

AllCovered == at = "succeeded" => alloc.columns = {}

AllocInv == AllocTypeOK /\ AnswerIsApart /\ AllCovered

\* AllocInv holds before anybody is allocated
LEMMA AllocStarts == ASSUME WorkerInit("allocate"), AllocInit PROVE AllocInv
<1>1. PICK gs \in [CharGroup -> SUBSET Char], have \in SUBSET Char :
        alloc = [groups |-> gs, have |-> have, rows |-> TakenRows(gs, have) \cup LeftRows(gs, have),
                 columns |-> CharGroup \cup UNION LeftRows(gs, have), answer |-> << >>]
  BY DEF AllocInit
<1>2. /\ DOMAIN alloc = OfAlloc /\ alloc.groups = gs /\ alloc.have = have
      /\ alloc.rows = AllRows /\ alloc.columns = AllColumns /\ alloc.answer = << >>
  BY <1>1 DEF OfAlloc, AllRows, AllColumns
<1>3. AllocTypeOK
  BY <1>2 DEF AllocTypeOK
<1>4. AnswerIsApart
  BY <1>2 DEF AnswerIsApart
<1> QED
  BY <1>3, <1>4 DEF AllocInv, AllCovered, WorkerInit

\* and after each operator that is.
LEMMA AllocGoesOn == ASSUME AllocInv, AllocNext PROVE AllocInv'
<1>1. CASE Dance
  <2>1. PICK row \in alloc.rows :
          alloc' = [alloc EXCEPT !.rows = {r \in @ : r \cap row = {}}, !.columns = @ \ row, !.answer = Append(@, row)]
    BY <1>1 DEF Dance, RowsOf
  <2>2. /\ DOMAIN alloc' = OfAlloc /\ alloc'.groups = alloc.groups /\ alloc'.have = alloc.have
        /\ alloc'.rows = {r \in alloc.rows : r \cap row = {}} /\ alloc'.columns = alloc.columns \ row
        /\ alloc'.answer = Append(alloc.answer, row)
    BY <2>1 DEF AllocInv, AllocTypeOK, OfAlloc
  <2>3. AllRows' = AllRows /\ AllColumns' = AllColumns
    BY <2>2 DEF AllRows, AllColumns
  <2>4. row \in alloc.rows /\ row \in AllRows
    BY DEF AllocInv, AllocTypeOK
  <2> DEFINE n == Len(alloc.answer)
  <2>5. /\ alloc'.answer \in Seq(AllRows) /\ n \in Nat
        /\ DOMAIN alloc.answer = 1..n /\ DOMAIN alloc'.answer = 1..n+1
        /\ \A i \in 1..n : alloc'.answer[i] = alloc.answer[i]
        /\ alloc'.answer[n+1] = row
    BY <2>2, <2>4 DEF AllocInv, AllocTypeOK
  <2> HIDE DEF n
  <2>6. AllocTypeOK'
    BY <2>2, <2>3, <2>5 DEF AllocInv, AllocTypeOK
  <2>7. \A i \in 1..n : row \cap alloc.answer[i] = {}
    BY <2>4, <2>5 DEF AllocInv, AnswerIsApart
  <2>8. AnswerIsApart'
    <3>1. ASSUME NEW i \in DOMAIN alloc'.answer, NEW j \in DOMAIN alloc'.answer, i # j
          PROVE  alloc'.answer[i] \cap alloc'.answer[j] = {}
      <4>1. CASE i \in 1..n /\ j \in 1..n
        BY <2>5, <3>1, <4>1 DEF AllocInv, AnswerIsApart
      <4>2. CASE i = n + 1
        BY <2>5, <2>7, <3>1, <4>2
      <4>3. CASE j = n + 1
        BY <2>5, <2>7, <3>1, <4>3
      <4> QED
        BY <2>5, <4>1, <4>2, <4>3
    <3>2. ASSUME NEW i \in DOMAIN alloc'.answer, NEW r \in alloc'.rows PROVE r \cap alloc'.answer[i] = {}
      <4>1. CASE i \in 1..n
        BY <2>2, <2>5, <4>1 DEF AllocInv, AnswerIsApart
      <4>2. CASE i = n + 1
        BY <2>2, <2>5, <4>2
      <4> QED
        BY <2>5, <4>1, <4>2
    <3>3. ASSUME NEW c \in AllColumns \ alloc'.columns PROVE \E i \in DOMAIN alloc'.answer : c \in alloc'.answer[i]
      <4>1. CASE c \in row
        BY <2>5, <4>1
      <4>2. CASE c \notin row
        BY <2>2, <2>5, <4>2 DEF AllocInv, AnswerIsApart
      <4> QED
        BY <4>1, <4>2
    <3> QED
      BY <2>3, <3>1, <3>2, <3>3 DEF AnswerIsApart
  <2>9. AllCovered'
    BY <1>1 DEF Dance, Stays, worker, AllCovered
  <2> QED
    BY <2>6, <2>8, <2>9 DEF AllocInv
<1>2. CASE DeadEnd \/ Covered
  <2>1. UNCHANGED alloc /\ (at' = "failed" \/ (at' = "succeeded" /\ alloc.columns = {}))
    BY <1>2 DEF DeadEnd, Covered, Goes
  <2> QED
    BY <2>1 DEF AllocInv, AllocTypeOK, AnswerIsApart, AllCovered, AllRows, AllColumns
<1> QED
  BY <1>1, <1>2 DEF AllocNext

\* A stop changes nothing of it.
LEMMA AllocStops == ASSUME AllocInv, UNCHANGED <<at, alloc>> PROVE AllocInv'
BY DEF AllocInv, AllocTypeOK, AnswerIsApart, AllCovered, AllRows, AllColumns

\* An allocation that has ended gives distinct operators if that is possible.
LEMMA AllocIsExact == ASSUME AllocInv PROVE AllocationIsExact
<1> SUFFICES ASSUME at = "succeeded"
             PROVE  LET pairs == {alloc.answer[i] : i \in DOMAIN alloc.answer} \ LeftRows(alloc.groups, alloc.have)
                    IN /\ \A g \in CharGroup : \E c \in alloc.groups[g] \cap alloc.have : {p \in pairs : g \in p} = {{g, c}}
                       /\ \A c \in Char : Cardinality({p \in pairs : c \in p}) <= 1
                       /\ Allocation \subseteq pairs
  BY DEF AllocationIsExact
<1> DEFINE pairs == {alloc.answer[i] : i \in DOMAIN alloc.answer} \ LeftRows(alloc.groups, alloc.have)
<1> USE AllocationAssumption
<1>1. alloc.columns = {}
  BY DEF AllocInv, AllCovered
<1>2. \A i \in DOMAIN alloc.answer : alloc.answer[i] \in AllRows
  BY DEF AllocInv, AllocTypeOK
<1>3. \A p \in pairs : \E g \in CharGroup : \E c \in alloc.groups[g] \cap alloc.have : p = {g, c}
  BY <1>2 DEF AllRows, TakenRows
<1>4. \A g \in CharGroup : \A c \in Char : g # c
  OBVIOUS
<1>5. \A p, q \in pairs : p = q \/ p \cap q = {}
  BY DEF AllocInv, AnswerIsApart
<1>6. ASSUME NEW g \in CharGroup PROVE \E c \in alloc.groups[g] \cap alloc.have : {p \in pairs : g \in p} = {{g, c}}
  <2>1. PICK i \in DOMAIN alloc.answer : g \in alloc.answer[i]
    BY <1>1 DEF AllocInv, AnswerIsApart, AllColumns
  <2>2. alloc.answer[i] \notin LeftRows(alloc.groups, alloc.have)
    <3> SUFFICES ASSUME alloc.answer[i] \in LeftRows(alloc.groups, alloc.have) PROVE FALSE
      OBVIOUS
    <3>1. PICK h \in CharGroup : \E c \in alloc.groups[h] \cap alloc.have : alloc.answer[i] = {c}
      BY DEF LeftRows
    <3> QED
      BY <1>4, <2>1, <3>1 DEF AllocInv, AllocTypeOK
  <2>3. alloc.answer[i] \in pairs
    BY <2>2
  <2>4. PICK h \in CharGroup : \E c \in alloc.groups[h] \cap alloc.have : alloc.answer[i] = {h, c}
    BY <1>3, <2>3
  <2>5. PICK c \in alloc.groups[h] \cap alloc.have : alloc.answer[i] = {h, c}
    BY <2>4
  <2>6. c \in Char
    BY <2>5 DEF AllocInv, AllocTypeOK
  <2>7. h = g
    BY <1>4, <2>1, <2>5, <2>6
  <2>8. \A p \in pairs : g \in p => p = {g, c}
    BY <1>5, <2>1, <2>3, <2>5, <2>7
  <2>9. {g, c} \in pairs
    BY <2>3, <2>5, <2>7
  <2>10. {p \in pairs : g \in p} = {{g, c}}
    BY <2>8, <2>9
  <2> QED
    BY <2>5, <2>7, <2>10
<1>7. ASSUME NEW c \in Char PROVE Cardinality({p \in pairs : c \in p}) <= 1
  <2>1. CASE \A p \in pairs : c \notin p
    <3>1. {p \in pairs : c \in p} = {}
      BY <2>1
    <3> QED
      BY <3>1, FS_EmptySet
  <2>2. CASE \E p \in pairs : c \in p
    <3>1. PICK p \in pairs : c \in p
      BY <2>2
    <3>2. {q \in pairs : c \in q} = {p}
      BY <1>5, <3>1
    <3>3. Cardinality({q \in pairs : c \in q}) = 1
      BY Zenon, <3>2, FS_Singleton
    <3> QED
      BY <3>3
  <2> QED
    BY <2>1, <2>2
<1>8. Allocation \subseteq pairs
  <2> SUFFICES ASSUME NEW i \in DOMAIN alloc.answer, \A k \in FirstLeft : i < k PROVE alloc.answer[i] \in pairs
    BY DEF Allocation
  <2>1. i \in Nat
    BY DEF AllocInv, AllocTypeOK
  <2>2. Cardinality(alloc.answer[i]) # 1
    BY <2>1 DEF FirstLeft
  <2>3. \A r \in LeftRows(alloc.groups, alloc.have) : Cardinality(r) = 1
    BY FS_Singleton DEF LeftRows
  <2> QED
    BY <2>2, <2>3
<1> QED
  BY <1>6, <1>7, <1>8

-----------------------------------------------------------------------------
\* Of the steps a recruitment can take part in its own and a stop,
LEMMA StepOfHire ==
  ASSUME [Next]_vars, task = "hire"
  PROVE  HireNext \/ (UNCHANGED <<at, hire, list>> /\ (stopped => stopped'))
BY Zenon DEF Next, Only, vars, Own, StopWorker, worker

OfHire == {"core", "support", "full", "team", "i", "found", "seen", "goal", "left", "pre", "same", "asked", "picked"}
OfList == {"pages", "shown", "sharp", "friends", "wanted"}

HireTypeOK ==
  /\ DOMAIN hire = OfHire /\ DOMAIN list = OfList
  /\ hire.core \in Hand \cup {NoHand} /\ hire.i \in Nat /\ hire.seen \in [Hand -> Int]
  /\ list.pages \in Pages /\ list.shown \in Nat /\ list.shown < Len(list.pages)

\* How many pages are looked at, and who is worth something on the first n
Looked == IF SwipeTimes < Len(list.pages) THEN SwipeTimes ELSE Len(list.pages)
OnPages(n, h) == \E p \in 1..n : h \in list.pages[p]
Listing(n) ==
  /\ \A c \in hire.found : /\ Priority(c.name) > 0 /\ c.page \in 0..(n - 1)
                           /\ c.name \in list.pages[c.page + 1]
  /\ \A h \in Hand : OnPages(n, h) /\ Priority(h) > 0 => \E c \in hire.found : c.name = h

\* Nothing was looked at.
Fresh == hire.i = 0 /\ hire.found = {} /\ hire.pre = {} /\ ~hire.same /\ hire.seen = [h \in Hand |-> -1]

\* After i swipes the page that is shown is the i-th, or the last one, which has been seen then.
PagesAreRead ==
  /\ hire.i <= SwipeTimes /\ hire.i <= Len(list.pages)
  /\ list.shown = IF hire.i < Len(list.pages) THEN hire.i ELSE hire.i - 1
  /\ Listing(hire.i)
  /\ \A h \in Hand : hire.seen[h] < hire.i
  /\ hire.i = Len(list.pages) => \A h \in list.pages[hire.i] : hire.seen[h] = list.shown
  /\ IF hire.i = 0 THEN hire.pre = {} ELSE hire.pre = list.pages[hire.i]
  /\ hire.i > 0 => list.pages[1] # {}

\* All pages that are looked at have been read.
ListIsRead ==
  /\ list.pages[1] # {} /\ list.shown <= hire.i /\ list.shown <= SwipeTimes
  /\ Listing(Looked)
  /\ \A c \in hire.found : c.page <= list.shown
  /\ at = "nobody" => hire.found = {}

\* What an operator is worth depends on who is in the team, and whether it is full.
WorthIn(full, team, h) ==
  LET w == Wish[h]
      hired == IF full THEN w.recruitFull ELSE w.recruit
      melee == Cardinality({t \in team : Wish[t].melee})
      offset == IF w.alternate THEN 0 ELSE OffsetFor(w.offsets, IF w.byMelee THEN melee ELSE 0)
  IN  IF h \in team
      THEN IF w.alternate THEN hired ELSE IF full THEN w.promoteFull ELSE w.promote
      ELSE (IF Elite[h] = "low" THEN 0 ELSE hired) + offset

\* Who is worth something on the pages that are looked at, and who of them most
Deserving(pages, full, team) ==
  {h \in Hand : (\E p \in 1..(IF SwipeTimes < Len(pages) THEN SwipeTimes ELSE Len(pages)) : h \in pages[p]) /\ WorthIn(full, team, h) > 0}
DeservingHere == Deserving(list.pages, hire.full, hire.team)
Top(pages, full, team) ==
  LET deserving == Deserving(pages, full, team)
  IN  {h \in deserving : \A g \in deserving : WorthIn(full, team, g) <= WorthIn(full, team, h)}
TopHere == Top(list.pages, hire.full, hire.team)

\* One of the pages with the best is ahead, near enough, and each page on the way there is
\* another than the one before.
WayIsKnown ==
  /\ hire.goal \in TopHere
  /\ list.pages[1] # {} /\ ~hire.same
  /\ \E q \in 0..(Len(list.pages) - 1) :
       /\ hire.goal \in list.pages[q + 1]
       /\ IF hire.left THEN q <= list.shown /\ list.shown + hire.i <= q + SwipeTimes
                       ELSE list.shown <= q /\ q + hire.i <= list.shown + SwipeTimes
  /\ \/ hire.pre = {}
     \/ IF hire.left THEN list.shown + 1 < Len(list.pages) /\ hire.pre = list.pages[list.shown + 2]
                     ELSE list.shown > 0 /\ hire.pre = list.pages[list.shown]

HiredBest ==
  \/ hire.picked = list.wanted /\ list.wanted # NoHand
  \/ hire.picked \in TopHere
  \/ /\ DeservingHere = {}
     /\ IF \E h \in list.pages[1] : Elite[h] = "elite 2" THEN hire.picked \in list.pages[1] /\ Elite[hire.picked] = "elite 2"
        ELSE hire.picked = NoHand

HirePhases ==
  /\ at \in {"run", "support", "friends", "list", "pages", "nobody", "choose", "check core", "check", "succeeded"}
  /\ at # "succeeded" => hire.picked = NoHand
  /\ at # "friends" => ~list.friends
  /\ at = "run" => list.wanted = NoHand
  /\ at \in {"run", "support", "friends", "list"} => list.shown <= 2
  /\ at \in {"support", "friends", "check core"} => hire.goal = list.wanted /\ list.wanted # NoHand
  /\ at \in {"support", "friends", "list"} => Fresh
  /\ at = "check core" => hire.found = {} /\ hire.seen = [h \in Hand |-> -1] /\ list.shown <= 2 + hire.i
  /\ at = "pages" => PagesAreRead
  /\ at \in {"nobody", "choose"} => ListIsRead
  /\ at = "check" => WayIsKnown
  /\ at = "succeeded" => HiredBest

HireInv == HireTypeOK /\ (list.sharp /\ ~stopped => HirePhases)

LEMMA PriorityIsWorth == \A h : Priority(h) = WorthIn(hire.full, hire.team, h)
BY Zenon DEF Priority, WorthIn

\* What all steps of a recruitment leave alone: the list itself, and what the team is like.
ListKept == list'.pages = list.pages /\ list'.sharp = list.sharp
TeamKept == hire'.full = hire.full /\ hire'.team = hire.team

LEMMA PrioritiesAreKept == TeamKept => \A h : Priority(h)' = Priority(h)
<1> SUFFICES ASSUME TeamKept, NEW h PROVE Priority(h)' = Priority(h)
  OBVIOUS
<1>1. Priority(h)' = WorthIn(hire'.full, hire'.team, h)
  BY Zenon DEF Priority, WorthIn
<1> QED
  BY Zenon, <1>1, PriorityIsWorth DEF TeamKept

LEMMA HireKeeps ==
  ASSUME HireTypeOK, HireNext
  PROVE  HireTypeOK' /\ ListKept /\ TeamKept /\ stopped' = stopped
<1>0. list.pages \in Seq(SUBSET Hand) /\ Len(list.pages) \in Nat \ {0} /\ list.shown \in 0..(Len(list.pages) - 1)
  BY HireAssumption DEF HireTypeOK
<1>a. ASSUME NEW ps \in SUBSET 0..(Len(list.pages) - 1), ShowOneOf(ps)
      PROVE  ListKept /\ DOMAIN list' = OfList /\ list'.shown \in ps
  BY <1>a DEF ShowOneOf, HireTypeOK, OfList, ListKept
<1>b. \A times \in Nat : FirstPages(list.shown, times) \subseteq 0..(Len(list.pages) - 1)
  BY <1>0 DEF FirstPages
<1>c. FurtherPage(list.shown) \cup EarlierPage(list.shown) \subseteq 0..(Len(list.pages) - 1)
  BY <1>0 DEF FurtherPage, EarlierPage, LastPage
<1>1. CASE HireBegins
  <2>1. ListKept /\ DOMAIN list' = OfList /\ list'.shown = list.shown /\ stopped' = stopped
    BY <1>1 DEF HireBegins, Goes, HireTypeOK, OfList, ListKept
  <2>2. /\ DOMAIN hire' = OfHire /\ TeamKept /\ hire'.core = NoHand /\ hire'.i = 0
        /\ hire'.seen = [h \in Hand |-> -1]
    BY <1>1 DEF HireBegins, HireTypeOK, OfHire, TeamKept
  <2> QED
    BY <1>0, <2>1, <2>2 DEF HireTypeOK, ListKept
<1>2. CASE OpenSupport
  BY <1>2 DEF OpenSupport, Goes, HireTypeOK, OfHire, OfList, ListKept, TeamKept
<1>3. CASE FriendFound
  BY <1>3 DEF FriendFound, HireSelect, Goes, HireTypeOK, OfHire, OfList, ListKept, TeamKept
<1>4. CASE FriendMissing
  BY <1>4 DEF FriendMissing, Goes, Stays, worker, HireTypeOK, OfHire, OfList, ListKept, TeamKept
<1>5. CASE ToFirstPage
  BY <1>5, <1>a, <1>b DEF ToFirstPage, Goes, HireTypeOK, ListKept, TeamKept
<1>6. CASE SeeStopInList
  BY <1>6 DEF SeeStopInList, RunFails, HireTypeOK, ListKept, TeamKept
<1>7. CASE ReadNothing \/ ReadEnough
  BY <1>7 DEF ReadNothing, ReadEnough, Listed, Goes, HireTypeOK, ListKept, TeamKept
<1>8. CASE RecruitRandom
  <2>1. PICK p \in 0..(Len(list.pages) - 1) : list' = [list EXCEPT !.shown = p]
    <3>1. \E p \in (IF hire.i = 0 THEN {list.shown} ELSE FirstPages(list.shown, hire.i + 1)) : list' = [list EXCEPT !.shown = p]
      BY <1>8, Zenon DEF RecruitRandom
    <3>2. hire.i + 1 \in Nat
      BY DEF HireTypeOK
    <3> QED
      BY <1>0, <1>b, <3>1, <3>2
  <2>2. stopped' = stopped /\ (hire' = hire \/ \E h : HireSelect(h))
    BY <1>8, Zenon DEF RecruitRandom, RunFails, Goes
  <2> QED
    BY <1>0, <2>1, <2>2 DEF HireSelect, HireTypeOK, OfHire, OfList, ListKept, TeamKept
<1>9. ASSUME NEW names \in SUBSET Hand, ReadLastPage(names)
      PROVE  HireTypeOK' /\ ListKept /\ TeamKept /\ stopped' = stopped
  <2>1. list' = list /\ stopped' = stopped /\ \E found : hire' = [hire EXCEPT !.found = found]
    BY <1>9, Zenon DEF ReadLastPage, Listed, Goes
  <2> QED
    BY <2>1 DEF HireTypeOK, OfHire, ListKept, TeamKept
<1>10. ASSUME NEW names \in SUBSET Hand, ReadPageAndSwipe(names)
       PROVE  HireTypeOK' /\ ListKept /\ TeamKept /\ stopped' = stopped
  <2>1. ListKept /\ DOMAIN list' = OfList /\ list'.shown \in 0..(Len(list.pages) - 1) /\ stopped' = stopped
    BY <1>10, <1>a, <1>c DEF ReadPageAndSwipe, Stays, worker
  <2>2. /\ DOMAIN hire' = OfHire /\ TeamKept /\ hire'.core = hire.core /\ hire'.i = hire.i + 1
        /\ hire'.seen = [h \in Hand |-> IF h \in names THEN list.shown ELSE hire.seen[h]]
    BY <1>10 DEF ReadPageAndSwipe, HireTypeOK, OfHire, TeamKept
  <2>3. hire'.seen \in [Hand -> Int]
    BY <1>0, <2>2 DEF HireTypeOK
  <2> QED
    BY <1>0, <2>1, <2>2, <2>3 DEF HireTypeOK, ListKept
<1>11. ASSUME NEW names \in SUBSET Hand, HireFound(names) \/ NotOnThisPage(names)
       PROVE  HireTypeOK' /\ ListKept /\ TeamKept /\ stopped' = stopped
  <2>1. CASE HireFound(names)
    BY <2>1 DEF HireFound, HireSelect, Goes, HireTypeOK, OfHire, ListKept, TeamKept
  <2>2. CASE NotOnThisPage(names)
    <3>1. ListKept /\ DOMAIN list' = OfList /\ list'.shown \in 0..(Len(list.pages) - 1) /\ stopped' = stopped
      BY <2>2, <1>a, <1>c DEF NotOnThisPage, Stays, worker
    <3>2. DOMAIN hire' = OfHire /\ TeamKept /\ hire'.core = hire.core /\ hire'.i = hire.i + 1 /\ hire'.seen = hire.seen
      BY <2>2 DEF NotOnThisPage, HireTypeOK, OfHire, TeamKept
    <3> QED
      BY <1>0, <3>1, <3>2 DEF HireTypeOK, ListKept
  <2> QED
    BY <1>11, <2>1, <2>2
<1>12. ASSUME NEW c \in hire.found, Choose(c)
       PROVE  HireTypeOK' /\ ListKept /\ TeamKept /\ stopped' = stopped
  <2>1. ListKept /\ DOMAIN list' = OfList /\ list'.shown \in 0..(Len(list.pages) - 1) /\ stopped' = stopped
    BY <1>12, <1>0, <1>a, <1>b DEF Choose, Goes, HireTypeOK
  <2>2. DOMAIN hire' = OfHire /\ TeamKept /\ hire'.core = hire.core /\ hire'.i = 0 /\ hire'.seen = hire.seen
    BY <1>12 DEF Choose, HireTypeOK, OfHire, TeamKept
  <2> QED
    BY <1>0, <2>1, <2>2 DEF HireTypeOK, ListKept
<1>13. CASE NotFound
  <2>1. ListKept /\ DOMAIN list' = OfList /\ list'.shown \in 0..(Len(list.pages) - 1) /\ stopped' = stopped
    BY <1>13, <1>0, <1>a, <1>b DEF NotFound, RunFails, Goes, HireTypeOK
  <2>2. DOMAIN hire' = OfHire /\ TeamKept /\ hire'.core = hire.core /\ hire'.i \in {0, hire.i} /\ hire'.seen = hire.seen
    BY <1>13 DEF NotFound, HireTypeOK, OfHire, TeamKept
  <2> QED
    BY <1>0, <2>1, <2>2 DEF HireTypeOK, ListKept
<1> QED
  BY Zenon, <1>1, <1>2, <1>3, <1>4, <1>5, <1>6, <1>7, <1>8, <1>9, <1>10, <1>11, <1>12, <1>13 DEF HireNext

\* The list with one page more
LEMMA PageIsListed ==
  ASSUME HireTypeOK, ListKept, TeamKept, hire.i < Len(list.pages), Listing(hire.i), hire'.found = Added(list.pages[hire.i + 1]),
         NEW n, n = hire.i + 1
  PROVE  Listing(n)'
<1>1. list.pages \in Seq(SUBSET Hand) /\ Len(list.pages) \in Nat \ {0} /\ hire.i \in Nat
  BY HireAssumption DEF HireTypeOK
<1>2. \A h : Priority(h)' = Priority(h)
  BY PrioritiesAreKept
<1>3. ASSUME NEW c \in hire'.found
      PROVE  Priority(c.name)' > 0 /\ c.page \in 0..(n - 1) /\ c.name \in list'.pages[c.page + 1]
  <2>1. CASE c \in hire.found
    <3>1. Priority(c.name) > 0 /\ c.page \in 0..(hire.i - 1) /\ c.name \in list.pages[c.page + 1]
      BY <2>1 DEF Listing
    <3> QED
      BY <1>1, <1>2, <3>1 DEF ListKept
  <2>2. CASE c \notin hire.found
    <3>1. PICK h \in list.pages[hire.i + 1] : Priority(h) > 0 /\ c = [name |-> h, page |-> hire.i]
      BY <2>2 DEF Added
    <3> QED
      BY <1>1, <1>2, <3>1 DEF ListKept
  <2> QED
    BY <2>1, <2>2
<1>4. ASSUME NEW h \in Hand, OnPages(n, h)', Priority(h)' > 0
      PROVE  \E c \in hire'.found : c.name = h
  <2>1. CASE \E c \in hire.found : c.name = h
    BY <2>1 DEF Added
  <2>2. CASE ~\E c \in hire.found : c.name = h
    <3>1. Priority(h) > 0
      BY <1>2, <1>4
    <3>2. ~OnPages(hire.i, h)
      BY <2>2, <3>1 DEF Listing
    <3>3. PICK p \in 1..n : h \in list.pages[p]
      BY <1>4 DEF OnPages, ListKept
    <3>4. p = hire.i + 1
      BY <1>1, <3>2, <3>3 DEF OnPages
    <3>5. [name |-> h, page |-> hire.i] \in Added(list.pages[hire.i + 1])
      BY <2>2, <3>1, <3>3, <3>4 DEF Added
    <3> QED
      BY <3>5
  <2> QED
    BY <2>1, <2>2
<1> QED
  BY <1>3, <1>4 DEF Listing

\* Where the list and the team stay, nothing changes that is said of them.
LEMMA ListingKept ==
  ASSUME ListKept, TeamKept, hire'.found = hire.found, NEW n
  PROVE  Listing(n)' <=> Listing(n)
<1>1. \A h : Priority(h)' = Priority(h)
  BY PrioritiesAreKept
<1>2. \A h : OnPages(n, h)' <=> OnPages(n, h)
  BY DEF OnPages, ListKept
<1> QED
  BY <1>1, <1>2, Zenon DEF Listing, ListKept

LEMMA TopKept ==
  ASSUME ListKept, TeamKept
  PROVE  Looked' = Looked /\ DeservingHere' = DeservingHere /\ TopHere' = TopHere
BY Zenon DEF Looked, DeservingHere, TopHere, ListKept, TeamKept

\* The list of a page is one of those who deserve it.
LEMMA DeservingListed ==
  ASSUME HireTypeOK
  PROVE  DeservingHere = {h \in Hand : OnPages(Looked, h) /\ Priority(h) > 0}
BY PriorityIsWorth, Zenon DEF DeservingHere, Deserving, OnPages, Looked

LEMMA PagesOfList ==
  ASSUME HireTypeOK
  PROVE  /\ list.pages \in Seq(SUBSET Hand) /\ Len(list.pages) \in Nat \ {0} /\ list.shown \in 0..(Len(list.pages) - 1)
         /\ \A p \in 1..Len(list.pages) : list.pages[p] \subseteq Hand
         /\ \A p \in 1..(Len(list.pages) - 1) : list.pages[p + 1] # list.pages[p]
         /\ list.pages[1] = {} => Len(list.pages) = 1
         /\ list.pages[1] # {} => \A p \in 1..Len(list.pages) : list.pages[p] # {}
         /\ Looked \in 1..Len(list.pages) /\ Looked <= SwipeTimes
<1>1. list.pages \in Seq(SUBSET Hand) /\ Len(list.pages) \in Nat \ {0} /\ list.shown \in 0..(Len(list.pages) - 1)
  BY HireAssumption DEF HireTypeOK
<1>2. \A p \in 2..Len(list.pages) : {} \notin {list.pages[p - 1], list.pages[p]} /\ list.pages[p] # list.pages[p - 1]
  BY HireAssumption DEF HireTypeOK
<1>3. ASSUME NEW p \in 1..(Len(list.pages) - 1) PROVE list.pages[p + 1] # list.pages[p] /\ list.pages[p] # {}
  <2>1. p + 1 \in 2..Len(list.pages) /\ (p + 1) - 1 = p
    BY <1>1
  <2> QED
    BY <1>2, <2>1
<1>4. Looked \in 1..Len(list.pages) /\ Looked <= SwipeTimes
  BY <1>1, HireAssumption DEF Looked
<1>5. list.pages[1] = {} => Len(list.pages) = 1
  <2>1. \A n \in Nat \ {0} : n # 1 => 1 \in 1..(n - 1)
    OBVIOUS
  <2> QED
    BY <1>1, <1>3, <2>1, Zenon
<1>6. \A p \in 1..Len(list.pages) : list.pages[p] \subseteq Hand
  BY <1>1
<1>7. ASSUME list.pages[1] # {}, NEW p \in 1..Len(list.pages) PROVE list.pages[p] # {}
  <2>1. CASE p = 1
    BY <1>7, <2>1
  <2>2. CASE p \in 2..Len(list.pages)
    BY <1>2, <2>2
  <2> QED
    BY <1>1, <2>1, <2>2
<1> QED
  BY <1>1, <1>3, <1>4, <1>5, <1>6, <1>7

\* While all pages are read as they are and no stop comes, each step leads from one of these
\* phases to the next.
LEMMA HirePhasesBegin ==
  ASSUME HireTypeOK, HirePhases, list.sharp, ~stopped,
         HireBegins \/ OpenSupport \/ FriendFound \/ FriendMissing \/ ToFirstPage
  PROVE  HirePhases'
<1>0. HireTypeOK' /\ ListKept /\ TeamKept
  BY Zenon, HireKeeps DEF HireNext
<1>1. CASE HireBegins
  <2>1. /\ at = "run" /\ list.wanted = NoHand /\ hire.picked = NoHand /\ ~list.friends /\ list.shown <= 2
    BY <1>1 DEF HireBegins, HirePhases
  <2>2. list'.wanted = hire.core /\ list'.friends = list.friends /\ list'.shown = list.shown
    BY <1>1, <2>1 DEF HireBegins, HireTypeOK, OfList
  <2>3. /\ hire'.goal = hire.core /\ hire'.picked = hire.picked /\ hire'.i = 0 /\ hire'.found = {} /\ hire'.pre = {} /\ ~hire'.same
        /\ hire'.seen = [h \in Hand |-> -1]
    BY <1>1 DEF HireBegins, HireTypeOK, OfHire
  <2>4. \/ hire.core = NoHand /\ at' = "list"
        \/ hire.core # NoHand /\ at' \in {"support", "check core"}
    BY <1>1 DEF HireBegins, Goes
  <2>5. Fresh'
    BY <2>3 DEF Fresh
  <2>6. CASE hire.core = NoHand /\ at' = "list"
    BY <2>1, <2>2, <2>3, <2>5, <2>6 DEF HirePhases
  <2>7. CASE hire.core # NoHand /\ at' = "support"
    BY <2>1, <2>2, <2>3, <2>5, <2>7 DEF HirePhases
  <2>8. CASE hire.core # NoHand /\ at' = "check core"
    <3>1. list'.shown <= 2 + hire'.i
      BY <2>1, <2>2, <2>3 DEF HireTypeOK
    <3> QED
      BY <2>1, <2>2, <2>3, <2>8, <3>1 DEF HirePhases
  <2> QED
    BY <2>4, <2>6, <2>7, <2>8
<1>2. CASE OpenSupport
  <2>1. at = "support" /\ hire' = hire /\ (at' = "friends" \/ (at' = "list" /\ list' = list))
    BY <1>2 DEF OpenSupport, Goes
  <2>2. list'.wanted = list.wanted /\ list'.shown = list.shown
    BY <1>2 DEF OpenSupport, HireTypeOK, OfList
  <2> QED
    BY <2>1, <2>2 DEF HirePhases, Fresh
<1>3. CASE FriendFound
  <2>1. at = "friends" /\ at' = "succeeded" /\ hire'.picked = hire.goal /\ list'.wanted = list.wanted /\ list'.friends = FALSE
    BY <1>3 DEF FriendFound, HireSelect, Goes, HireTypeOK, OfHire, OfList
  <2> QED
    BY <2>1 DEF HirePhases, HiredBest
<1>4. CASE FriendMissing
  <2>1. CASE hire' = [hire EXCEPT !.asked = @ + 1] /\ Stays /\ UNCHANGED list
    <3>1. hire'.goal = hire.goal /\ hire'.picked = hire.picked /\ (Fresh' <=> Fresh)
      BY <2>1 DEF HireTypeOK, OfHire, Fresh
    <3> QED
      BY <1>4, <2>1, <3>1 DEF FriendMissing, HirePhases, Stays, worker
  <2>2. CASE Goes("list") /\ UNCHANGED hire /\ \E back \in BOOLEAN : (list.sharp /\ ~stopped => back) /\ list' = [list EXCEPT !.friends = ~back]
    <3>1. list'.friends = FALSE /\ list'.shown = list.shown
      BY <2>2 DEF HireTypeOK, OfList
    <3> QED
      BY <1>4, <2>2, <3>1 DEF FriendMissing, HirePhases, Goes, Fresh
  <2> QED
    BY <1>4, <2>1, <2>2, Zenon DEF FriendMissing
<1>5. CASE ToFirstPage
  <2>1. at = "list" /\ at' = "pages" /\ hire' = hire /\ list.shown <= 2 /\ Fresh /\ hire.picked = NoHand /\ ~list.friends
    BY <1>5 DEF ToFirstPage, Goes, HirePhases
  <2>2. FirstPages(list.shown, 2) = {0}
    BY <2>1 DEF FirstPages, HireTypeOK
  <2>3. list'.shown = 0 /\ list'.friends = list.friends
    BY <1>5, <2>2 DEF ToFirstPage, ShowOneOf, HireTypeOK, OfList
  <2>4. PagesAreRead'
    <3>1. hire'.i = 0 /\ hire'.found = {} /\ hire'.pre = {} /\ hire'.seen = [h \in Hand |-> -1]
      BY <2>1 DEF Fresh
    <3>2. Len(list'.pages) \in Nat \ {0}
      BY PagesOfList, <1>0 DEF ListKept
    <3>3. Listing(0)'
      BY <3>1 DEF Listing, OnPages
    <3> QED
      BY <2>3, <3>1, <3>2, <3>3, HireAssumption DEF PagesAreRead
  <2> QED
    BY <2>1, <2>3, <2>4 DEF HirePhases
<1> QED
  BY <1>1, <1>2, <1>3, <1>4, <1>5

\* A page is read as it is.
LEMMA SharpLook ==
  ASSUME list.sharp, ~list.friends, NEW names, HireLook(names)
  PROVE  names = list.pages[list.shown + 1]
BY DEF HireLook, Shown

LEMMA HirePhasesPages ==
  ASSUME HireTypeOK, HirePhases, list.sharp, ~stopped,
         ReadNothing \/ ReadEnough \/ \E names \in SUBSET Hand : ReadLastPage(names) \/ ReadPageAndSwipe(names)
  PROVE  HirePhases'
<1> DEFINE L == Len(list.pages)
<1>0. HireTypeOK' /\ ListKept /\ TeamKept
  BY Zenon, HireKeeps DEF HireNext
<1>1. at = "pages" /\ PagesAreRead /\ ~list.friends /\ hire.picked = NoHand
  BY Zenon DEF ReadNothing, ReadEnough, ReadLastPage, ReadPageAndSwipe, HirePhases
<1>2. hire.i \in Nat /\ hire.i <= SwipeTimes /\ hire.i <= L /\ L \in Nat \ {0} /\ SwipeTimes \in Nat \ {0}
  BY <1>1, PagesOfList, HireAssumption DEF PagesAreRead, HireTypeOK
<1>3. Looked' = Looked /\ Looked \in 1..L /\ Looked <= SwipeTimes
  BY <1>0, TopKept, PagesOfList
<1>4. ASSUME Listed, list.pages[1] # {}, hire'.i = hire.i, hire'.picked = hire.picked, Listing(Looked)', \A c \in hire'.found : c.page <= list.shown
      PROVE  HirePhases'
  <2>1. list' = list /\ at' \in {"nobody", "choose"} /\ (at' = "nobody" => hire'.found = {})
    BY <1>4 DEF Listed, Goes
  <2>2. list.shown <= hire.i /\ list.shown <= SwipeTimes
    BY <1>1, <1>2 DEF PagesAreRead
  <2>3. ListIsRead'
    BY <1>3, <1>4, <2>1, <2>2 DEF ListIsRead
  <2> QED
    BY <1>1, <1>4, <2>1, <2>3 DEF HirePhases
<1>5. CASE ReadNothing
  <2>1. list.pages[list.shown + 1] = {}
    BY <1>1, <1>5, SharpLook DEF ReadNothing
  <2>2. list.pages[1] = {} /\ L = 1 /\ hire.i = 0
    <3>1. list.pages[1] = {}
      <4>1. list.shown + 1 \in 1..L
        BY PagesOfList
      <4> QED
        BY <2>1, <4>1, PagesOfList
    <3>2. hire.i = 0
      BY <1>1, <1>2, <3>1 DEF PagesAreRead
    <3> QED
      BY <3>1, <3>2, PagesOfList
  <2>3. at' = "succeeded" /\ list' = list /\ hire' = hire
    BY <1>5, <2>2 DEF ReadNothing, Goes
  <2>4. DeservingHere = {}
    BY <1>2, <1>3, <2>2, DeservingListed DEF OnPages
  <2>5. HiredBest'
    <3>1. hire.picked = NoHand /\ list.pages[1] = {}
      BY <1>1, <2>2
    <3>2. DeservingHere' = {}
      BY <1>0, <2>4, TopKept
    <3> QED
      BY <2>3, <3>1, <3>2 DEF HiredBest
  <2> QED
    BY <1>1, <2>3, <2>5 DEF HirePhases
<1>6. CASE ReadEnough
  <2>1. hire.i = SwipeTimes /\ hire' = hire /\ Listed
    BY <1>6 DEF ReadEnough
  <2>2. Looked = hire.i /\ list.pages[1] # {}
    BY <1>1, <1>2, <2>1 DEF Looked, PagesAreRead
  <2>3. Listing(Looked)'
    BY <1>0, <1>1, <1>3, <2>1, <2>2, ListingKept DEF PagesAreRead
  <2>4. \A c \in hire'.found : c.page <= list.shown
    BY <1>1, <1>2, <2>1 DEF PagesAreRead, Listing
  <2> QED
    BY <1>4, <2>1, <2>2, <2>3, <2>4
<1>7. ASSUME NEW names \in SUBSET Hand, ReadLastPage(names) PROVE HirePhases'
  <2>1. names = list.pages[list.shown + 1] /\ names # {} /\ hire.i < SwipeTimes /\ Listed
    BY <1>1, <1>7, SharpLook DEF ReadLastPage
  <2>2. list.pages[1] # {}
    BY <1>1, <2>1, PagesOfList DEF PagesAreRead
  <2> DEFINE unmoved == {h \in names : hire.seen[h] = list.shown}
  <2>3. CASE hire.i < L
    <3>1. list.shown = hire.i /\ unmoved = {}
      BY <1>1, <1>2, <2>1, <2>3 DEF PagesAreRead
    <3>2. (names = hire.pre \/ list.shown = LastPage) /\ hire' = [hire EXCEPT !.found = Added(names)]
      BY <1>7, <3>1 DEF ReadLastPage
    <3>3. names # hire.pre
      <4>1. CASE hire.i = 0
        BY <1>1, <2>1, <4>1 DEF PagesAreRead
      <4>2. CASE hire.i # 0
        <5>1. hire.pre = list.pages[hire.i] /\ hire.i \in 1..(L - 1) /\ names = list.pages[hire.i + 1]
          BY <1>1, <1>2, <2>1, <2>3, <3>1, <4>2 DEF PagesAreRead
        <5> QED
          BY <5>1, PagesOfList
      <4> QED
        BY <4>1, <4>2
    <3>4. hire.i = L - 1 /\ Looked = hire.i + 1
      BY <1>2, <2>1, <3>1, <3>2, <3>3 DEF LastPage, Looked
    <3>5. hire'.found = Added(list.pages[hire.i + 1]) /\ hire'.i = hire.i /\ hire'.picked = hire.picked
      BY <2>1, <3>1, <3>2 DEF HireTypeOK, OfHire
    <3>6. Listing(Looked)'
      BY <1>0, <1>1, <1>2, <1>3, <2>3, <3>4, <3>5, PageIsListed DEF PagesAreRead
    <3>7. \A c \in hire'.found : c.page <= list.shown
      BY <1>2, <1>3, <3>1, <3>4, <3>6 DEF Listing
    <3> QED
      BY <1>4, <2>1, <2>2, <3>5, <3>6, <3>7
  <2>4. CASE hire.i = L
    <3>1. list.shown = L - 1 /\ names = list.pages[L]
      BY <1>1, <1>2, <2>1, <2>4 DEF PagesAreRead
    <3>2. \A h \in names : hire.seen[h] = list.shown
      BY <1>1, <2>4, <3>1 DEF PagesAreRead
    <3>3. hire' = [hire EXCEPT !.found = Added({})]
      BY <1>7, <2>1, <3>2 DEF ReadLastPage
    <3>4. hire'.found = hire.found /\ hire'.i = hire.i /\ hire'.picked = hire.picked
      BY <3>3 DEF Added, HireTypeOK, OfHire
    <3>5. Looked = hire.i
      BY <1>2, <2>1, <2>4 DEF Looked
    <3>6. Listing(Looked)'
      BY <1>0, <1>1, <1>3, <3>4, <3>5, ListingKept DEF PagesAreRead
    <3>7. \A c \in hire'.found : c.page <= list.shown
      BY <1>1, <1>2, <2>4, <3>1, <3>4 DEF PagesAreRead, Listing
    <3> QED
      BY <1>4, <2>1, <2>2, <3>4, <3>6, <3>7
  <2> QED
    BY <1>2, <2>3, <2>4
<1>8. ASSUME NEW names \in SUBSET Hand, ReadPageAndSwipe(names) PROVE HirePhases'
  <2>1. /\ names = list.pages[list.shown + 1] /\ names # {} /\ hire.i < SwipeTimes /\ at' = at
        /\ \A h \in names : hire.seen[h] # list.shown
        /\ ShowOneOf(FurtherPage(list.shown))
    BY <1>1, <1>8, SharpLook DEF ReadPageAndSwipe, Stays, worker
  <2>2. hire.i < L /\ list.shown = hire.i
    <3>1. hire.i = L => list.shown + 1 = hire.i
      BY <1>1, <1>2 DEF PagesAreRead
    <3> QED
      BY <1>1, <1>2, <2>1, <3>1 DEF PagesAreRead
  <2>3. /\ hire'.found = Added(names) /\ hire'.i = hire.i + 1 /\ hire'.pre = names /\ hire'.picked = hire.picked
        /\ hire'.seen = [h \in Hand |-> IF h \in names THEN list.shown ELSE hire.seen[h]]
    BY <1>8 DEF ReadPageAndSwipe, HireTypeOK, OfHire
  <2>4. list'.shown = (IF hire.i + 1 < L THEN hire.i + 1 ELSE hire.i) /\ list'.friends = list.friends
    BY <1>2, <2>1, <2>2 DEF ShowOneOf, FurtherPage, LastPage, HireTypeOK, OfList
  <2>5. PICK n : n = hire.i + 1
    OBVIOUS
  <2>6. Listing(n)'
    <3>1. hire'.found = Added(list.pages[hire.i + 1])
      BY <2>1, <2>2, <2>3
    <3> QED
      BY <1>0, <1>1, <2>2, <2>5, <3>1, PageIsListed DEF PagesAreRead
  <2>7. Listing(hire.i)'
    BY <2>3, <2>5, <2>6 DEF Listing, OnPages
  <2>8. \A h \in Hand : hire'.seen[h] < hire'.i
    BY <1>1, <1>2, <2>2, <2>3 DEF PagesAreRead, HireTypeOK
  <2>9. hire'.i = L => \A h \in list.pages[hire'.i] : hire'.seen[h] = list'.shown
    BY <1>2, <2>1, <2>2, <2>3, <2>4
  <2>10. PagesAreRead'
    <3>1. hire'.pre = list.pages[hire'.i] /\ hire'.i \in Nat \ {0} /\ list.pages[1] # {}
      BY <1>1, <1>2, <2>1, <2>2, <2>3, PagesOfList DEF PagesAreRead
    <3>2. list'.shown = IF hire'.i < L THEN hire'.i ELSE hire'.i - 1
      BY <1>2, <2>3, <2>4
    <3> QED
      BY <1>0, <1>2, <2>1, <2>2, <2>3, <2>7, <2>8, <2>9, <3>1, <3>2 DEF PagesAreRead, ListKept
  <2> QED
    BY <1>1, <2>1, <2>3, <2>4, <2>10 DEF HirePhases
<1> QED
  BY <1>5, <1>6, <1>7, <1>8

LEMMA HirePhasesChoice ==
  ASSUME HireTypeOK, HirePhases, list.sharp, ~stopped,
         RecruitRandom \/ \E c \in hire.found : Choose(c)
  PROVE  HirePhases'
<1> DEFINE L == Len(list.pages)
<1>0. HireTypeOK' /\ ListKept /\ TeamKept
  BY Zenon, HireKeeps DEF HireNext
<1>1. at \in {"nobody", "choose"} /\ ListIsRead /\ ~list.friends /\ hire.picked = NoHand
  BY Zenon DEF RecruitRandom, Choose, HirePhases
<1>2. L \in Nat \ {0} /\ list.shown \in 0..(L - 1) /\ hire.i \in Nat /\ Looked \in 1..L /\ Looked <= SwipeTimes
  BY PagesOfList DEF HireTypeOK
<1>3. FirstPages(list.shown, hire.i + 1) = {0}
  BY <1>1, <1>2 DEF FirstPages, ListIsRead
<1>4. Looked' = Looked /\ DeservingHere' = DeservingHere /\ TopHere' = TopHere
  BY <1>0, TopKept
<1>5. CASE RecruitRandom
  <2>1. at = "nobody" /\ (hire.i = 0 => list.shown = 0)
    <3>1. at = "nobody" /\ list.shown <= hire.i
      BY <1>1, <1>5 DEF RecruitRandom, ListIsRead
    <3> QED
      BY <1>2, <3>1
  <2>2. list' = [list EXCEPT !.shown = 0] /\ \E names \in SUBSET Hand :
          /\ names = list.pages[1]
          /\ IF names = {} THEN RunFails(PluginRetries) /\ UNCHANGED hire
             ELSE /\ Goes("succeeded")
                  /\ IF \A h \in names : Elite[h] # "elite 2" THEN UNCHANGED hire
                     ELSE \E h \in names : Elite[h] = "elite 2" /\ HireSelect(h)
    <3>1. \E p \in {0} : \E names \in SUBSET Hand :
            LET page == IF list.friends THEN {} ELSE list.pages[p + 1] IN
            /\ list' = [list EXCEPT !.shown = p]
            /\ names \subseteq page /\ (list.sharp => names = page)
            /\ IF names = {} THEN RunFails(PluginRetries) /\ UNCHANGED hire
               ELSE /\ Goes("succeeded")
                    /\ IF \A h \in names : Elite[h] # "elite 2" THEN UNCHANGED hire
                       ELSE \E h \in names : Elite[h] = "elite 2" /\ HireSelect(h)
      BY <1>3, <1>5, <2>1, Zenon DEF RecruitRandom
    <3>2. 0 + 1 = 1
      OBVIOUS
    <3> QED
      BY <1>1, <3>1, <3>2, Zenon
  <2>3. /\ at' = "succeeded"
        /\ IF \E h \in list.pages[1] : Elite[h] = "elite 2" THEN \E h \in list.pages[1] : Elite[h] = "elite 2" /\ HireSelect(h)
           ELSE hire' = hire
    BY <1>1, <2>2, Zenon DEF ListIsRead, Goes
  <2>4. \A h \in Hand : ~(OnPages(Looked, h) /\ Priority(h) > 0)
    BY <1>1, <2>1 DEF ListIsRead, Listing
  <2>5. DeservingHere' = {}
    BY <1>4, <2>4, DeservingListed
  <2>6. \A h : HireSelect(h) => hire'.picked = h
    BY DEF HireSelect, HireTypeOK, OfHire
  <2>7. HiredBest'
    BY <1>0, <1>1, <2>3, <2>5, <2>6, Zenon DEF HiredBest, ListKept
  <2>8. list'.friends = list.friends
    BY <2>2 DEF HireTypeOK, OfList
  <2> QED
    BY <1>1, <2>3, <2>7, <2>8 DEF HirePhases
<1>6. ASSUME NEW c \in hire.found, Choose(c) PROVE HirePhases'
  <2> DEFINE left == 2 * c.page >= hire.i /\ hire.i # 0
  <2>1. /\ at' = "check" /\ Best(c)
        /\ ShowOneOf(IF left \/ hire.i = 0 THEN {list.shown} ELSE FirstPages(list.shown, hire.i + 1))
        /\ hire' = [hire EXCEPT !.goal = c.name, !.left = left, !.pre = {}, !.same = FALSE, !.i = 0]
    BY <1>6, Zenon DEF Choose, Goes
  <2>2. /\ hire'.goal = c.name /\ hire'.left = left /\ hire'.pre = {} /\ ~hire'.same /\ hire'.i = 0 /\ hire'.picked = hire.picked
    BY <2>1 DEF HireTypeOK, OfHire
  <2>3. /\ Listing(Looked) /\ c.page <= list.shown /\ list.shown <= SwipeTimes /\ list.shown <= hire.i /\ list.pages[1] # {}
    BY <1>1 DEF ListIsRead
  <2>4. c.page \in 0..(Looked - 1) /\ c.name \in list.pages[c.page + 1] /\ Priority(c.name) > 0
    BY <2>3 DEF Listing
  <2>5. list'.shown = (IF left THEN list.shown ELSE 0) /\ list'.friends = list.friends
    BY <1>2, <1>3, <2>1, <2>3 DEF ShowOneOf, HireTypeOK, OfList
  <2>6. c.name \in TopHere
    <3>1. c.page + 1 \in 1..L /\ c.page + 1 \in 1..Looked
      BY <1>2, <2>4
    <3>2. c.name \in DeservingHere
      BY <2>4, <3>1, PagesOfList, DeservingListed DEF OnPages
    <3>3. ASSUME NEW g \in DeservingHere PROVE Priority(g) <= Priority(c.name)
      BY <2>1, <2>3, <3>3, DeservingListed DEF Listing, Best
    <3> QED
      BY <3>2, <3>3, PriorityIsWorth DEF TopHere, Top, DeservingHere
  <2>7. c.page \in 0..(L - 1) /\ IF left THEN c.page <= list'.shown /\ list'.shown + 0 <= c.page + SwipeTimes
                                 ELSE list'.shown <= c.page /\ c.page + 0 <= list'.shown + SwipeTimes
    <3>1. SwipeTimes \in Nat
      BY HireAssumption
    <3>2. c.page \in Int /\ 0 <= c.page /\ c.page <= L - 1 /\ c.page <= list.shown /\ c.page < SwipeTimes
      BY <1>2, <2>3, <2>4, <3>1
    <3>3. list.shown \in Nat /\ list.shown <= SwipeTimes /\ L \in Nat
      BY <1>2, <2>3
    <3> HIDE DEF left, L
    <3>4. CASE left
      <4>1. list'.shown = list.shown
        BY <2>5, <3>4
      <4> QED
        BY <3>1, <3>2, <3>3, <3>4, <4>1
    <3>5. CASE ~left
      <4>1. list'.shown = 0
        BY <2>5, <3>5
      <4> QED
        BY <3>1, <3>2, <3>3, <3>5, <4>1
    <3> QED
      BY <3>4, <3>5
  <2>8. WayIsKnown'
    <3> HIDE DEF left
    <3>1. hire'.goal \in TopHere'
      BY <1>4, <2>2, <2>6
    <3>2. list'.pages[1] # {} /\ hire'.goal \in list'.pages[c.page + 1] /\ c.page \in 0..(Len(list'.pages) - 1)
      BY <1>0, <2>2, <2>3, <2>4, <2>7 DEF ListKept
    <3> QED
      BY <2>2, <2>7, <3>1, <3>2 DEF WayIsKnown
  <2> QED
    BY <1>1, <2>1, <2>2, <2>5, <2>8 DEF HirePhases
<1> QED
  BY <1>5, <1>6

LEMMA HirePhasesCheck ==
  ASSUME HireTypeOK, HirePhases, list.sharp, ~stopped,
         NotFound \/ \E names \in SUBSET Hand : HireFound(names) \/ NotOnThisPage(names)
  PROVE  HirePhases'
<1> DEFINE L == Len(list.pages)
<1>0. HireTypeOK' /\ ListKept /\ TeamKept
  BY Zenon, HireKeeps DEF HireNext
<1>1. at \in {"check core", "check"} /\ ~list.friends /\ hire.picked = NoHand
  BY Zenon DEF NotFound, HireFound, NotOnThisPage, Checking, HirePhases
<1>2. L \in Nat \ {0} /\ list.shown \in 0..(L - 1) /\ hire.i \in Nat
  BY PagesOfList DEF HireTypeOK
<1>3. TopHere' = TopHere
  BY <1>0, TopKept
<1>4. CASE NotFound
  <2>1. at = "check core"
    <3> SUFFICES ASSUME at = "check" PROVE FALSE
      BY <1>1
    <3>1. WayIsKnown
      BY DEF HirePhases
    <3>2. SwipeTimes \in Nat /\ CheckTimes \in Nat /\ CheckTimes > SwipeTimes
      BY HireAssumption
    <3>3. ~hire.same
      BY <3>1 DEF WayIsKnown
    <3>4. hire.i <= SwipeTimes
      <4>1. PICK page \in 0..(Len(list.pages) - 1) :
              IF hire.left THEN page <= list.shown /\ list.shown + hire.i <= page + SwipeTimes
              ELSE list.shown <= page /\ page + hire.i <= list.shown + SwipeTimes
        BY <3>1 DEF WayIsKnown
      <4> QED
        BY <1>2, <3>2, <4>1
    <3> QED
      BY <1>2, <1>4, <3>2, <3>3, <3>4 DEF NotFound
  <2>2. at' = "list" /\ hire'.i = 0 /\ hire'.pre = {} /\ ~hire'.same /\ hire'.picked = hire.picked /\ hire'.found = hire.found /\ hire'.seen = hire.seen
    BY <1>4, <2>1 DEF NotFound, Goes, HireTypeOK, OfHire
  <2>3. list.shown <= 2 + hire.i /\ hire.found = {} /\ hire.seen = [h \in Hand |-> -1]
    BY <2>1 DEF HirePhases
  <2>4. list'.shown <= 2 /\ list'.friends = list.friends
    BY <1>2, <1>4, <2>3 DEF NotFound, FirstPages, ShowOneOf, HireTypeOK, OfList
  <2> QED
    BY <1>1, <2>2, <2>3, <2>4 DEF HirePhases, Fresh
<1>5. ASSUME NEW names \in SUBSET Hand, HireFound(names) PROVE HirePhases'
  <2>1. at' = "succeeded" /\ list' = list /\ hire'.picked = hire.goal
    BY <1>5 DEF HireFound, HireSelect, Goes, HireTypeOK, OfHire
  <2>2. HiredBest'
    <3>1. CASE at = "check core"
      BY <2>1, <3>1 DEF HirePhases, HiredBest
    <3>2. CASE at = "check"
      <4>1. hire.goal \in TopHere
        BY <3>2 DEF HirePhases, WayIsKnown
      <4>2. hire'.picked \in TopHere'
        BY <1>3, <2>1, <4>1
      <4> QED
        BY <4>2 DEF HiredBest
    <3> QED
      BY <1>1, <3>1, <3>2
  <2> QED
    BY <1>1, <2>1, <2>2 DEF HirePhases
<1>6. ASSUME NEW names \in SUBSET Hand, NotOnThisPage(names) PROVE HirePhases'
  <2>1. /\ at' = at /\ names = list.pages[list.shown + 1] /\ hire.goal \notin names
        /\ ShowOneOf(IF hire.left THEN EarlierPage(list.shown) ELSE FurtherPage(list.shown))
        /\ hire' = IF names = {} THEN [hire EXCEPT !.i = @ + 1]
                   ELSE [hire EXCEPT !.i = @ + 1, !.pre = names, !.same = (names = hire.pre)]
    BY <1>1, <1>6, SharpLook, Zenon DEF NotOnThisPage, Stays, worker
  <2>2. /\ hire'.i = hire.i + 1 /\ hire'.goal = hire.goal /\ hire'.left = hire.left /\ hire'.found = hire.found /\ hire'.seen = hire.seen
        /\ hire'.picked = hire.picked
        /\ names # {} => hire'.pre = names /\ hire'.same = (names = hire.pre)
    BY <2>1 DEF HireTypeOK, OfHire
  <2>3. /\ list'.friends = list.friends /\ list'.wanted = list.wanted
        /\ list'.shown = IF hire.left THEN (IF list.shown > 0 THEN list.shown - 1 ELSE list.shown)
                         ELSE (IF list.shown < L - 1 THEN list.shown + 1 ELSE list.shown)
    BY <1>2, <2>1 DEF ShowOneOf, EarlierPage, FurtherPage, LastPage, HireTypeOK, OfList
  <2>4. CASE at = "check core"
    <3>1. list.shown <= 2 + hire.i /\ hire.found = {} /\ hire.seen = [h \in Hand |-> -1] /\ hire.goal = list.wanted /\ list.wanted # NoHand
      BY <2>4 DEF HirePhases
    <3>2. list'.shown <= list.shown + 1 /\ list'.shown \in Nat
      BY <1>2, <2>3
    <3>3. list'.shown <= 2 + hire'.i
      BY <1>2, <2>2, <3>1, <3>2
    <3> QED
      BY <1>1, <2>1, <2>2, <2>3, <2>4, <3>1, <3>3 DEF HirePhases
  <2>5. CASE at = "check"
    <3>1. WayIsKnown
      BY <2>5 DEF HirePhases
    <3>2. names # {}
      <4>1. list.shown + 1 \in 1..L
        BY <1>2
      <4> QED
        BY <2>1, <3>1, <4>1, PagesOfList DEF WayIsKnown
    <3>3. PICK q \in 0..(L - 1) :
            /\ hire.goal \in list.pages[q + 1]
            /\ IF hire.left THEN q <= list.shown /\ list.shown + hire.i <= q + SwipeTimes
                            ELSE list.shown <= q /\ q + hire.i <= list.shown + SwipeTimes
      BY <3>1 DEF WayIsKnown
    <3>4. q # list.shown
      BY <2>1, <3>3
    <3>5. IF hire.left THEN q <= list'.shown /\ list'.shown + hire'.i <= q + SwipeTimes /\ list'.shown = list.shown - 1
                       ELSE list'.shown <= q /\ q + hire'.i <= list'.shown + SwipeTimes /\ list'.shown = list.shown + 1
      <4>1. CASE hire.left
        <5>1. q < list.shown /\ list.shown + hire.i <= q + SwipeTimes
          BY <1>2, <3>3, <3>4, <4>1
        <5>2. list'.shown = list.shown - 1
          BY <1>2, <2>3, <4>1, <5>1
        <5> QED
          BY <1>2, <2>2, <4>1, <5>1, <5>2
      <4>2. CASE ~hire.left
        <5>1. list.shown < q /\ q + hire.i <= list.shown + SwipeTimes
          BY <1>2, <3>3, <3>4, <4>2
        <5>2. list'.shown = list.shown + 1
          BY <1>2, <2>3, <4>2, <5>1
        <5> QED
          <6>1. \A p, i, s \in Nat : p + i <= s + SwipeTimes => p + (i + 1) <= (s + 1) + SwipeTimes
            BY HireAssumption
          <6>2. q \in Nat /\ list.shown \in Nat /\ hire'.i = hire.i + 1
            BY <1>2, <2>2
          <6>3. q + hire'.i <= list'.shown + SwipeTimes
            BY <1>2, <5>1, <5>2, <6>1, <6>2, Zenon
          <6>4. list'.shown <= q
            BY <6>2, <5>1, <5>2
          <6> QED
            BY <4>2, <5>2, <6>3, <6>4
      <4> QED
        BY <4>1, <4>2
    <3>6. names # hire.pre
      <4>1. CASE hire.pre = {}
        BY <3>2, <4>1
      <4>2. CASE hire.left /\ list.shown + 1 < L /\ hire.pre = list.pages[list.shown + 2]
        <5>1. list.shown + 1 \in 1..(L - 1) /\ (list.shown + 1) + 1 = list.shown + 2
          BY <1>2, <4>2
        <5>2. list.pages[(list.shown + 1) + 1] # list.pages[list.shown + 1]
          BY <5>1, PagesOfList
        <5> QED
          BY <2>1, <4>2, <5>1, <5>2
      <4>3. CASE list.shown > 0 /\ hire.pre = list.pages[list.shown]
        <5>1. list.shown \in 1..(L - 1)
          BY <1>2, <4>3
        <5>2. list.pages[list.shown + 1] # list.pages[list.shown]
          BY <5>1, PagesOfList
        <5> QED
          BY <2>1, <4>3, <5>2
      <4> QED
        BY <3>1, <4>1, <4>2, <4>3 DEF WayIsKnown
    <3>7. WayIsKnown'
      <4>1. hire'.goal \in TopHere' /\ list'.pages[1] # {} /\ ~hire'.same /\ hire'.pre = list.pages[list.shown + 1]
        <5>1. ~hire'.same
          BY <2>2, <3>2, <3>6, Zenon
        <5>2. hire'.goal \in TopHere' /\ list'.pages[1] # {} /\ hire'.pre = list.pages[list.shown + 1]
          <6>1. hire.goal \in TopHere /\ list.pages[1] # {}
            BY <3>1 DEF WayIsKnown
          <6>2. hire'.goal = hire.goal /\ hire'.pre = names
            BY <2>2, <3>2
          <6>3. hire'.goal \in TopHere'
            BY <1>3, <6>1, <6>2
          <6>4. list'.pages[1] # {}
            BY <1>0, <6>1 DEF ListKept
          <6>5. hire'.pre = list.pages[list.shown + 1]
            BY <2>1, <6>2
          <6> QED
            BY <6>3, <6>4, <6>5
        <5> QED
          BY <5>1, <5>2
      <4>2. IF hire'.left THEN list'.shown + 1 < L /\ hire'.pre = list.pages[list'.shown + 2]
                          ELSE list'.shown > 0 /\ hire'.pre = list.pages[list'.shown]
        <5>1. hire.left => (list.shown - 1) + 2 = list.shown + 1
          BY <1>2
        <5> QED
          BY <1>2, <2>2, <3>5, <4>1, <5>1
      <4>3. /\ q \in 0..(Len(list'.pages) - 1) /\ hire'.goal \in list'.pages[q + 1]
            /\ IF hire'.left THEN q <= list'.shown /\ list'.shown + hire'.i <= q + SwipeTimes
                             ELSE list'.shown <= q /\ q + hire'.i <= list'.shown + SwipeTimes
        BY <1>0, <2>2, <3>3, <3>5 DEF ListKept
      <4>4. \/ hire'.pre = {}
            \/ IF hire'.left THEN list'.shown + 1 < Len(list'.pages) /\ hire'.pre = list'.pages[list'.shown + 2]
                             ELSE list'.shown > 0 /\ hire'.pre = list'.pages[list'.shown]
        BY <1>0, <4>2 DEF ListKept
      <4> QED
        BY Zenon, <4>1, <4>3, <4>4 DEF WayIsKnown
    <3> QED
      BY <1>1, <2>1, <2>2, <2>3, <2>5, <3>7 DEF HirePhases
  <2> QED
    BY <1>1, <2>4, <2>5
<1> QED
  BY <1>4, <1>5, <1>6

LEMMA HireInvInit == Init /\ task = "hire" => HireInv
<1> SUFFICES ASSUME Init, task = "hire" PROVE HireInv
  OBVIOUS
<1>1. HireInit /\ at = "run"
  BY DEF Init, WorkerInit
<1> QED
  <2>1. /\ DOMAIN hire = OfHire /\ hire.core \in Hand \cup {NoHand} /\ hire.i = 0 /\ hire.seen = [h \in Hand |-> -1] /\ hire.picked = NoHand
    BY <1>1 DEF HireInit, OfHire
  <2>2. /\ DOMAIN list = OfList /\ list.pages \in Pages /\ list.shown \in 0..2 /\ list.shown < Len(list.pages) /\ ~list.friends
        /\ list.wanted = NoHand
    BY <1>1 DEF HireInit, OfList
  <2> QED
    BY <1>1, <2>1, <2>2 DEF HireInv, HireTypeOK, HirePhases

LEMMA HireInvStep == HireInv /\ task = "hire" /\ [Next]_vars => HireInv'
<1> SUFFICES ASSUME HireInv, task = "hire", [Next]_vars PROVE HireInv'
  OBVIOUS
<1>1. CASE UNCHANGED <<at, hire, list>> /\ (stopped => stopped')
  <2>1. HireTypeOK'
    BY <1>1, Zenon DEF HireInv, HireTypeOK
  <2>2. HirePhases => HirePhases'
    <3>1. ListKept /\ TeamKept /\ hire'.found = hire.found
      BY <1>1 DEF ListKept, TeamKept
    <3>2. Looked' = Looked /\ TopHere' = TopHere /\ DeservingHere' = DeservingHere
      BY <3>1, TopKept
    <3>3. \A h : Priority(h)' = Priority(h)
      BY <3>1, PrioritiesAreKept
    <3>4. (PagesAreRead <=> PagesAreRead') /\ (ListIsRead <=> ListIsRead') /\ (WayIsKnown <=> WayIsKnown') /\ (HiredBest <=> HiredBest') /\ (Fresh <=> Fresh')
      <4>1. \A n : Listing(n)' <=> Listing(n)
        BY <3>1, ListingKept
      <4>2. \A n, h : OnPages(n, h)' <=> OnPages(n, h)
        BY <1>1 DEF OnPages
      <4> QED
        BY Zenon, <1>1, <3>2, <3>3, <4>1, <4>2 DEF PagesAreRead, ListIsRead, WayIsKnown, HiredBest, Fresh
    <3> QED
      BY Zenon, <1>1, <3>4 DEF HirePhases
  <2> QED
    BY <1>1, <2>1, <2>2 DEF HireInv
<1>2. CASE HireNext
  <2>1. HireTypeOK' /\ ListKept /\ stopped' = stopped
    BY <1>2, HireKeeps DEF HireInv
  <2>2. ASSUME list'.sharp, ~stopped' PROVE HirePhases'
    <3>1. HireTypeOK /\ HirePhases /\ list.sharp /\ ~stopped
      BY <2>1, <2>2 DEF HireInv, ListKept
    <3>2. ~SeeStopInList
      BY <3>1 DEF SeeStopInList
    <3> QED
      BY Zenon, <1>2, <3>1, <3>2, HirePhasesBegin, HirePhasesPages, HirePhasesChoice, HirePhasesCheck DEF HireNext
  <2> QED
    BY <2>1, <2>2 DEF HireInv
<1> QED
  BY Zenon, <1>1, <1>2, StepOfHire

\* Who is hired is the one the run is built around, or the best of all pages that are looked at.
LEMMA HireInvBest == HireInv => RogueHiresBest
<1> SUFFICES ASSUME HireInv, list.sharp, ~stopped, at \in {"succeeded", "failed"} PROVE RogueHiresBest
  BY DEF RogueHiresBest
<1>1. HireTypeOK /\ at = "succeeded" /\ HiredBest
  BY DEF HireInv, HirePhases
<1> DEFINE looked == UNION {list.pages[p] : p \in 1..(IF SwipeTimes < Len(list.pages) THEN SwipeTimes ELSE Len(list.pages))}
           worth == {h \in looked : Priority(h) > 0}
<1>2. looked \subseteq Hand
  <2>1. \A p \in 1..Looked : p \in 1..Len(list.pages)
    BY <1>1, PagesOfList
  <2> QED
    BY <1>1, <2>1, PagesOfList DEF Looked
<1>3. worth = DeservingHere
  BY <1>2, PriorityIsWorth DEF DeservingHere, Deserving
<1>4. CASE hire.picked \in TopHere
  <2>1. hire.picked \in worth /\ \A h \in worth : Priority(h) <= Priority(hire.picked)
    BY <1>3, <1>4, PriorityIsWorth DEF TopHere, Top, DeservingHere
  <2> HIDE DEF looked
  <2> QED
    BY <1>1, <2>1, Zenon DEF RogueHiresBest, looked
<1>5. CASE /\ DeservingHere = {}
           /\ IF \E h \in list.pages[1] : Elite[h] = "elite 2" THEN hire.picked \in list.pages[1] /\ Elite[hire.picked] = "elite 2"
              ELSE hire.picked = NoHand
  <2>1. worth = {}
    BY <1>3, <1>5
  <2> HIDE DEF looked
  <2> QED
    BY <1>1, <1>5, <2>1, Zenon DEF RogueHiresBest, looked
<1> QED
  BY <1>1, <1>4, <1>5 DEF HiredBest, RogueHiresBest

-----------------------------------------------------------------------------
SquadInv ==
  /\ task = "formation" => FormInv
  /\ task = "allocate" => AllocInv
  /\ task = "hire" => HireInv

\* A squad that is confirmed in its first try has exactly one operator of each group,
\* groups are given distinct operators whenever they can be, and nobody in the list is
\* worth more than who is hired for an expedition (BattleFormationTask, Algorithm.hpp,
\* RoguelikeRecruitTaskPlugin).
THEOREM SquadsAreOfThePlan == Spec => []SquadsAreAsked
<1>1. Init => SquadInv
  <2> SUFFICES ASSUME Init PROVE SquadInv
    OBVIOUS
  <2>1. task = "formation" => FormInv
    BY FormStarts DEF Init, WorkerInit
  <2>2. task = "allocate" => AllocInv
    BY AllocStarts DEF Init, WorkerInit
  <2> QED
    BY <2>1, <2>2, HireInvInit DEF SquadInv
<1>2. SquadInv /\ [Next]_vars => SquadInv'
  <2> SUFFICES ASSUME SquadInv, [Next]_vars PROVE SquadInv'
    OBVIOUS
  <2>1. task' = task
    BY TaskKept
  <2>2. ASSUME task = "formation" PROVE FormInv'
    BY <2>2, StepOfForm, FormGoesOn, FormStops DEF SquadInv
  <2>3. ASSUME task = "allocate" PROVE AllocInv'
    BY <2>3, StepOfAlloc, AllocGoesOn, AllocStops DEF SquadInv
  <2>4. ASSUME task = "hire" PROVE HireInv'
    BY <2>4, HireInvStep DEF SquadInv
  <2> QED
    BY <2>1, <2>2, <2>3, <2>4 DEF SquadInv
<1>3. SquadInv => SquadsAreAsked
  <2> SUFFICES ASSUME SquadInv PROVE SquadsAreAsked
    OBVIOUS
  <2>1. OneOfEachGroup
    BY FormIsAsked DEF SquadInv, OneOfEachGroup
  <2>2. AllocationIsExact
    BY AllocIsExact DEF SquadInv, AllocationIsExact
  <2>3. RogueHiresBest
    BY HireInvBest, Zenon DEF SquadInv, RogueHiresBest
  <2> QED
    BY <2>1, <2>2, <2>3 DEF SquadsAreAsked
<1> QED
  BY <1>1, <1>2, <1>3, PTL DEF Spec
-----------------------------------------------------------------------------
OfReclaim == {"mode", "sharp", "times", "gold", "badges", "bought", "flag", "order", "i", "tries", "run", "done"}
OfCamp == {"on", "battle", "dialog", "water", "left", "made", "closed", "again", "vain"}
OutOfBattle == {"between", "skip", "day", "market", "enter", "next day", "command", "forge page", "forge"}

\* What was counted
ReclaimCounts ==
  /\ DOMAIN reclaim = OfReclaim /\ DOMAIN camp = OfCamp
  /\ reclaim.gold \in Nat /\ reclaim.badges \in Nat /\ reclaim.i \in Nat
  /\ camp.made \in Nat /\ camp.vain \in Nat /\ camp.closed \in Nat /\ camp.again \in Nat /\ camp.dialog \in Nat
  /\ reclaim.gold = camp.made + camp.vain /\ reclaim.badges <= camp.closed + camp.again

\* What is so at each step if options are seen as they are
WaterIsBought ==
  /\ at \in {"home", "give up", "start"} => ~reclaim.bought
  /\ at = "command" /\ ~stopped => reclaim.bought
  /\ reclaim.sharp /\ reclaim.bought /\ ~stopped => camp.water
  /\ reclaim.sharp /\ at \in {"forge page", "forge"} => camp.water

InDialogue ==
  reclaim.sharp /\ at = "dialog" =>
    /\ ~stopped => camp.dialog \in {reclaim.i, reclaim.i + 1} /\ (camp.dialog = reclaim.i + 1 => reclaim.done)
    /\ camp.dialog > Len(Options) => camp.water

ReclaimInv == ReclaimCounts /\ (at \in OutOfBattle => ~camp.battle) /\ WaterIsBought /\ InDialogue

\* Nothing is bought or counted before the first round.
LEMMA ReclaimStarts == ASSUME WorkerInit("reclaim"), ReclaimInit PROVE ReclaimInv
<1>1. /\ DOMAIN reclaim = OfReclaim /\ DOMAIN camp = OfCamp
      /\ reclaim.gold = 0 /\ reclaim.badges = 0 /\ reclaim.i = 0 /\ reclaim.bought = FALSE
      /\ camp.made = 0 /\ camp.vain = 0 /\ camp.closed = 0 /\ camp.again = 0 /\ camp.dialog = 0 /\ at = "run"
  BY DEF ReclaimInit, OfReclaim, OfCamp, WorkerInit
<1> QED
  BY <1>1 DEF ReclaimInv, ReclaimCounts, OutOfBattle, WaterIsBought, InDialogue

\* What is given up is closed, and its report read, once; or the click had no effect.
LEMMA GiveUpKeeps == ASSUME ReclaimInv, GiveUpLast PROVE ReclaimInv'
<1>1. CASE Goes("start") /\ CampSame
  BY <1>1 DEF GiveUpLast, ReclaimInv, CampSame, Goes, ReclaimCounts, OutOfBattle, WaterIsBought, InDialogue
<1>2. ASSUME NEW read \in 0..1, reclaim' = [reclaim EXCEPT !.badges = @ + read],
             \/ Goes("start") /\ camp' = [camp EXCEPT !.on = FALSE, !.closed = @ + 1]
             \/ Stays /\ camp' = [camp EXCEPT !.again = @ + 1]
      PROVE  ReclaimInv'
  <2>1. /\ DOMAIN reclaim' = OfReclaim /\ reclaim'.gold = reclaim.gold /\ reclaim'.badges = reclaim.badges + read
        /\ reclaim'.i = reclaim.i /\ reclaim'.sharp = reclaim.sharp /\ reclaim'.bought = reclaim.bought
    BY <1>2 DEF ReclaimInv, ReclaimCounts, OfReclaim
  <2>2. /\ DOMAIN camp' = OfCamp /\ camp'.made = camp.made /\ camp'.vain = camp.vain /\ camp'.water = camp.water
        /\ camp'.battle = camp.battle /\ camp'.dialog = camp.dialog
        /\ \/ camp'.closed = camp.closed + 1 /\ camp'.again = camp.again
           \/ camp'.closed = camp.closed /\ camp'.again = camp.again + 1
    BY <1>2 DEF ReclaimInv, ReclaimCounts, OfCamp
  <2>3. at = "give up" /\ at' \in {"give up", "start"} /\ stopped' = stopped
    BY <1>2 DEF GiveUpLast, Goes, Stays, worker
  <2>4. ReclaimCounts'
    BY <2>1, <2>2 DEF ReclaimInv, ReclaimCounts
  <2> QED
    BY <2>1, <2>2, <2>3, <2>4 DEF ReclaimInv, OutOfBattle, WaterIsBought, InDialogue
<1> QED
  BY Zenon, <1>1, <1>2 DEF GiveUpLast

\* Somebody is talked to, or it was nobody.
LEMMA TalkKeeps == ASSUME ReclaimInv, TalkTo PROVE ReclaimInv'
<1>1. CASE Dialogue
  BY <1>1, ReclamationAssumption DEF TalkTo, Dialogue, ReclaimInv, Goes, ReclaimCounts, OutOfBattle, WaterIsBought, InDialogue, OfReclaim, OfCamp
<1>2. CASE NoDialogue
  BY <1>2 DEF TalkTo, NoDialogue, ReclaimInv, Goes, ReclaimCounts, OutOfBattle, WaterIsBought, InDialogue, OfReclaim
<1>3. CASE (reclaim' = [reclaim EXCEPT !.i = @ + 1] \/ reclaim' = [reclaim EXCEPT !.order = 2, !.i = 0]) /\ UNCHANGED camp /\ Stays
  <2>1. /\ DOMAIN reclaim' = OfReclaim /\ reclaim'.gold = reclaim.gold /\ reclaim'.badges = reclaim.badges /\ reclaim'.i \in Nat
        /\ reclaim'.sharp = reclaim.sharp /\ reclaim'.bought = reclaim.bought
    <3>1. CASE reclaim' = [reclaim EXCEPT !.i = @ + 1]
      BY <3>1 DEF ReclaimInv, ReclaimCounts, OfReclaim
    <3>2. CASE reclaim' = [reclaim EXCEPT !.order = 2, !.i = 0]
      BY <3>2 DEF ReclaimInv, ReclaimCounts, OfReclaim
    <3> QED
      BY <1>3, <3>1, <3>2
  <2>2. camp' = camp /\ at = "talk" /\ at' = "talk" /\ stopped' = stopped
    BY <1>3 DEF TalkTo, Stays, worker
  <2> QED
    BY <2>1, <2>2 DEF ReclaimInv, ReclaimCounts, OutOfBattle, WaterIsBought, InDialogue
<1> QED
  BY Zenon, <1>1, <1>2, <1>3 DEF TalkTo

\* What a click on the option that is shown makes of the game
LEMMA OptionIsTaken == ASSUME ReclaimInv, camp' \in {camp, OptionTaken}
  PROVE  /\ DOMAIN camp' = OfCamp /\ camp'.made = camp.made /\ camp'.vain = camp.vain /\ camp'.closed = camp.closed
         /\ camp'.again = camp.again /\ camp'.battle = camp.battle /\ (camp.water => camp'.water)
         /\ \/ camp' = camp
            \/ /\ camp.dialog = reclaim.i /\ camp'.dialog = camp.dialog + 1
               /\ camp.dialog = Len(Options) => camp'.water
<1>1. CASE camp' = camp
  BY <1>1 DEF ReclaimInv, ReclaimCounts
<1>2. CASE camp.dialog = reclaim.i /\ camp' = [camp EXCEPT !.dialog = @ + 1, !.water = @ \/ camp.dialog = Len(Options)]
  <2>1. /\ DOMAIN camp' = OfCamp /\ camp'.made = camp.made /\ camp'.vain = camp.vain /\ camp'.closed = camp.closed
        /\ camp'.again = camp.again /\ camp'.battle = camp.battle /\ camp'.dialog = camp.dialog + 1
        /\ camp'.water = (camp.water \/ camp.dialog = Len(Options))
    BY <1>2 DEF ReclaimInv, ReclaimCounts, OfCamp
  <2> QED
    BY Zenon, <1>2, <2>1
<1> QED
  BY <1>1, <1>2 DEF OptionTaken

\* An option that is seen is clicked, with or without effect.
LEMMA ClickKeeps == ASSUME ReclaimInv, ClickOption PROVE ReclaimInv'
<1>1. /\ DOMAIN reclaim' = OfReclaim /\ reclaim'.gold = reclaim.gold /\ reclaim'.badges = reclaim.badges /\ reclaim'.i = reclaim.i
      /\ reclaim'.sharp = reclaim.sharp /\ reclaim'.bought = reclaim.bought /\ reclaim'.done
  BY DEF ClickOption, ReclaimInv, ReclaimCounts, OfReclaim
<1>2. at' = at /\ stopped' = stopped /\ at = "dialog" /\ camp' \in {camp, OptionTaken}
  BY DEF ClickOption, Stays, worker
<1>3. PICK n \in Nat : n = Len(Options)
  BY ReclamationAssumption
<1>4. ReclaimCounts'
  BY <1>1, <1>2, OptionIsTaken DEF ReclaimInv, ReclaimCounts
<1>5. reclaim.sharp => camp.dialog = reclaim.i
  BY DEF ClickOption, Sees
<1>6. InDialogue'
  BY <1>1, <1>2, <1>3, <1>5, OptionIsTaken DEF ReclaimInv, ReclaimCounts, InDialogue
<1> QED
  BY <1>1, <1>2, <1>4, <1>6, OptionIsTaken DEF ReclaimInv, OutOfBattle, WaterIsBought

\* One that is not seen has been taken, will come, or ends the dialogue.
LEMMA MissingKeeps == ASSUME ReclaimInv, OptionMissing PROVE ReclaimInv'
<1>1. CASE NoDialogue
  BY <1>1 DEF OptionMissing, NoDialogue, ReclaimInv, Goes, ReclaimCounts, OutOfBattle, WaterIsBought, InDialogue, OfReclaim
<1>2. CASE reclaim.done /\ reclaim' = NextOption /\ UNCHANGED camp /\ Stays
  <2>1. /\ DOMAIN reclaim' = OfReclaim /\ reclaim'.gold = reclaim.gold /\ reclaim'.badges = reclaim.badges /\ reclaim'.i = reclaim.i + 1
        /\ reclaim'.sharp = reclaim.sharp /\ reclaim'.bought = reclaim.bought
    BY <1>2 DEF NextOption, ReclaimInv, ReclaimCounts, OfReclaim
  <2>2. reclaim.sharp /\ ~stopped => camp.dialog = reclaim.i + 1
    BY DEF OptionMissing, Sees, ReclaimInv, InDialogue
  <2> QED
    BY <1>2, <2>1, <2>2 DEF OptionMissing, ReclaimInv, Stays, worker, ReclaimCounts, OutOfBattle, WaterIsBought, InDialogue
<1>3. CASE reclaim' = [reclaim EXCEPT !.tries = @ + 1] /\ UNCHANGED camp /\ Stays
  BY <1>3 DEF ReclaimInv, Stays, worker, ReclaimCounts, OutOfBattle, WaterIsBought, InDialogue, OfReclaim
<1> QED
  BY Zenon, <1>1, <1>2, <1>3 DEF OptionMissing

\* What is said between two options is skipped.
LEMMA SkipTalkKeeps == ASSUME ReclaimInv, SkipDialogue PROVE ReclaimInv'
<1>1. /\ DOMAIN reclaim' = OfReclaim /\ reclaim'.gold = reclaim.gold /\ reclaim'.badges = reclaim.badges /\ reclaim'.i = reclaim.i + 1
      /\ reclaim'.sharp = reclaim.sharp /\ reclaim'.bought = reclaim.bought
  BY DEF SkipDialogue, NextOption, ReclaimInv, ReclaimCounts, OfReclaim
<1>2. at' = at /\ stopped' = stopped /\ at = "dialog" /\ reclaim.i <= Len(Options)
  BY DEF SkipDialogue, Stays, worker
<1>3. camp' \in {camp, OptionTaken} /\ (reclaim.sharp /\ ~stopped => camp' = OptionTaken)
  BY DEF SkipDialogue
<1>4. PICK n \in Nat : n = Len(Options)
  BY ReclamationAssumption
<1>5. ReclaimCounts'
  <2>1. /\ DOMAIN camp' = OfCamp /\ camp'.made = camp.made /\ camp'.vain = camp.vain /\ camp'.closed = camp.closed
        /\ camp'.again = camp.again /\ camp'.dialog \in {camp.dialog, camp.dialog + 1}
    BY <1>3, OptionIsTaken
  <2> QED
    BY <1>1, <2>1 DEF ReclaimInv, ReclaimCounts
<1>6. reclaim.sharp /\ ~stopped => camp.dialog # reclaim.i \/ camp'.dialog = camp.dialog + 1
  BY <1>3 DEF OptionTaken, ReclaimInv, ReclaimCounts, OfCamp
<1>7. InDialogue'
  BY <1>1, <1>2, <1>3, <1>4, <1>6, OptionIsTaken DEF ReclaimInv, ReclaimCounts, InDialogue
<1> QED
  BY <1>1, <1>2, <1>3, <1>5, <1>7, OptionIsTaken DEF ReclaimInv, OutOfBattle, WaterIsBought

\* Gold is counted, made or not.
LEMMA ForgeKeeps == ASSUME ReclaimInv, ForgeGold PROVE ReclaimInv'
<1>1. CASE Goes("back") /\ CampSame
  BY <1>1 DEF ReclaimInv, CampSame, Goes, ReclaimCounts, OutOfBattle, WaterIsBought, InDialogue
<1>2. CASE /\ Stays /\ reclaim' = [reclaim EXCEPT !.gold = @ + 1]
           /\ camp' = [camp EXCEPT !.left = @ - 1, !.made = @ + 1] \/ camp' = [camp EXCEPT !.vain = @ + 1]
  <2>1. /\ DOMAIN reclaim' = OfReclaim /\ reclaim'.gold = reclaim.gold + 1 /\ reclaim'.badges = reclaim.badges
        /\ reclaim'.i = reclaim.i /\ reclaim'.sharp = reclaim.sharp /\ reclaim'.bought = reclaim.bought
    BY <1>2 DEF ReclaimInv, ReclaimCounts, OfReclaim
  <2>2. /\ DOMAIN camp' = OfCamp /\ camp'.closed = camp.closed /\ camp'.again = camp.again /\ camp'.water = camp.water
        /\ camp'.battle = camp.battle /\ camp'.dialog = camp.dialog
        /\ \/ camp'.made = camp.made + 1 /\ camp'.vain = camp.vain
           \/ camp'.made = camp.made /\ camp'.vain = camp.vain + 1
    BY <1>2 DEF ReclaimInv, ReclaimCounts, OfCamp
  <2>3. at' = at /\ at = "forge" /\ stopped' = stopped
    BY <1>2 DEF ForgeGold, Stays, worker
  <2>4. ReclaimCounts'
    BY <2>1, <2>2 DEF ReclaimInv, ReclaimCounts
  <2> QED
    BY <2>1, <2>2, <2>3, <2>4 DEF ReclaimInv, OutOfBattle, WaterIsBought, InDialogue
<1> QED
  BY Zenon, <1>1, <1>2 DEF ForgeGold

\* All that a round consists of
LEMMA ReclaimKeeps == ASSUME ReclaimInv, ReclaimNext PROVE ReclaimInv'
<1>1. CASE NextRound
  BY <1>1 DEF ReclaimInv, NextRound, Goes, ReclaimCounts, OutOfBattle, WaterIsBought, InDialogue, OfReclaim, OfCamp
<1>2. CASE NavigateHome
  BY <1>2 DEF ReclaimInv, NavigateHome, MustDo, Sub, CampSame, Goes, ReclaimCounts, OutOfBattle, WaterIsBought, InDialogue
<1>3. CASE StartAlgorithm
  BY <1>3 DEF ReclaimInv, StartAlgorithm, RoundEnds, CampSame, Stays, worker, Goes, ReclaimCounts, OutOfBattle, WaterIsBought,
     InDialogue, OfReclaim, OfCamp
<1>4. CASE WaitBetweenDay
  BY <1>4 DEF ReclaimInv, WaitBetweenDay, CampSame, Stays, worker, Goes, ReclaimCounts, OutOfBattle, WaterIsBought, InDialogue,
     OfReclaim, OfCamp
<1>5. CASE SkipReport
  BY <1>5 DEF ReclaimInv, SkipReport, MayDo, Sub, CampSame, Goes, ReclaimCounts, OutOfBattle, WaterIsBought, InDialogue
<1>6. CASE CampDay
  BY <1>6 DEF ReclaimInv, CampDay, CampSame, Goes, ReclaimCounts, OutOfBattle, WaterIsBought, InDialogue
<1>7. CASE EnterBattle
  BY <1>7 DEF ReclaimInv, EnterBattle, MustDo, Sub, Goes, ReclaimCounts, OutOfBattle, WaterIsBought, InDialogue, OfReclaim, OfCamp
<1>8. CASE ToMarket
  BY <1>8 DEF ReclaimInv, ToMarket, CampSame, Goes, ReclaimCounts, OutOfBattle, WaterIsBought, InDialogue
<1>9. CASE MapBegins
  BY <1>9 DEF ReclaimInv, MapBegins, CampSame, Goes, ReclaimCounts, OutOfBattle, WaterIsBought, InDialogue, OfReclaim
<1>10. CASE DialogueStopped
  <2>1. /\ camp' = camp /\ at' = at /\ stopped' = stopped /\ at = "dialog" /\ stopped
        /\ DOMAIN reclaim' = OfReclaim /\ reclaim'.gold = reclaim.gold /\ reclaim'.badges = reclaim.badges
        /\ reclaim'.i = reclaim.i + 1 /\ reclaim'.sharp = reclaim.sharp /\ reclaim'.bought = reclaim.bought
    BY <1>10 DEF DialogueStopped, NextOption, Stays, worker, ReclaimInv, ReclaimCounts, OfReclaim
  <2>2. ReclaimCounts'
    BY <2>1 DEF ReclaimInv, ReclaimCounts
  <2> QED
    BY <2>1, <2>2 DEF ReclaimInv, OutOfBattle, WaterIsBought, InDialogue
<1>11. CASE DialogueOver
  <2>1. /\ camp' = camp /\ at' = "quit" /\ stopped' = stopped /\ at = "dialog" /\ reclaim.i > Len(Options)
        /\ DOMAIN reclaim' = OfReclaim /\ reclaim'.gold = reclaim.gold /\ reclaim'.badges = reclaim.badges
        /\ reclaim'.i = reclaim.i /\ reclaim'.sharp = reclaim.sharp /\ reclaim'.bought
    BY <1>11 DEF DialogueOver, Goes, ReclaimInv, ReclaimCounts, OfReclaim
  <2>2. ReclaimCounts'
    BY <2>1 DEF ReclaimInv, ReclaimCounts
  <2>3. reclaim.sharp /\ ~stopped => camp.water
    <3>1. PICK n \in Nat : n = Len(Options)
      BY ReclamationAssumption
    <3>2. reclaim.i \in Nat
      BY DEF ReclaimInv, ReclaimCounts
    <3> QED
      BY <2>1, <3>1, <3>2 DEF ReclaimInv, InDialogue
  <2> QED
    BY <2>1, <2>2, <2>3 DEF ReclaimInv, OutOfBattle, WaterIsBought, InDialogue
<1>12. CASE Quit
  BY <1>12 DEF ReclaimInv, Quit, QuitFails, CampSame, Goes, Stays, worker, ReclaimCounts, OutOfBattle, WaterIsBought, InDialogue,
     OfReclaim, OfCamp
<1>13. CASE LevelComplete
  BY <1>13 DEF ReclaimInv, LevelComplete, MustDo, Sub, Goes, ReclaimCounts, OutOfBattle, WaterIsBought, InDialogue, OfCamp
<1>14. CASE NextDay
  BY <1>14 DEF ReclaimInv, NextDay, MayDo, Sub, Goes, ReclaimCounts, OutOfBattle, WaterIsBought, InDialogue, OfReclaim
<1>15. CASE CommandCenter
  BY <1>15 DEF ReclaimInv, CommandCenter, MustDo, Sub, CampSame, Goes, ReclaimCounts, OutOfBattle, WaterIsBought, InDialogue
<1>16. CASE ForgePage
  BY <1>16 DEF ReclaimInv, ForgePage, CampSame, Goes, ReclaimCounts, OutOfBattle, WaterIsBought, InDialogue
<1>17. CASE ToBack
  BY <1>17 DEF ReclaimInv, ToBack, CampSame, Goes, ReclaimCounts, OutOfBattle, WaterIsBought, InDialogue
<1> QED
  BY Zenon, <1>1, <1>2, <1>3, <1>4, <1>5, <1>6, <1>7, <1>8, <1>9, <1>10, <1>11, <1>12, <1>13, <1>14, <1>15, <1>16, <1>17,
     GiveUpKeeps, TalkKeeps, ClickKeeps, MissingKeeps, SkipTalkKeeps, ForgeKeeps DEF ReclaimNext

\* Of all steps a round can take part in its own and a stop.
LEMMA StepOfReclaim ==
  ASSUME [Next]_vars, task = "reclaim"
  PROVE  ReclaimNext \/ (UNCHANGED <<at, reclaim, camp>> /\ (stopped => stopped'))
BY Zenon DEF Next, Only, vars, Own, StopWorker, worker

\* A stop changes nothing of it.
LEMMA ReclaimStops == ASSUME ReclaimInv, UNCHANGED <<at, reclaim, camp>>, stopped => stopped' PROVE ReclaimInv'
BY DEF ReclaimInv, ReclaimCounts, OutOfBattle, WaterIsBought, InDialogue

\* What was counted and bought is what was to be shown.
LEMMA ReclaimIsRight == ReclaimInv => ReclamationIsTrue
BY DEF ReclaimInv, ReclaimCounts, OutOfBattle, WaterIsBought, ReclamationIsTrue
-----------------------------------------------------------------------------
OfTrip == {"runs", "enabled", "starts", "invests", "maxStarts", "maxInvest", "investing", "stopFull", "leave", "cancel",
           "core", "status"}
OfStatus == {"over", "known", "core", "noBuy", "full"}
OfQuest == {"on", "hired", "floor", "begun", "paid", "coreSet", "last", "sets", "mostStarts", "mostInvest"}

\* What was begun and paid is what was counted, and no more than may be or might have been.
TripCounts ==
  /\ trip.starts \in Nat /\ trip.invests \in Nat /\ quest.begun \in Nat /\ quest.paid \in Nat
  /\ {trip.maxStarts, trip.maxInvest, quest.mostStarts, quest.mostInvest} \subseteq Nat
  /\ trip.maxStarts <= quest.mostStarts /\ trip.maxInvest <= quest.mostInvest
  /\ trip.starts <= quest.mostStarts /\ quest.begun <= trip.starts
  /\ trip.invests <= quest.mostInvest /\ quest.paid = trip.invests

\* Who is known is in the team.
StatusIsOwn ==
  quest.on =>
    /\ \A m \in Member : trip.status.over[m] # "none" => m \in quest.hired
    /\ trip.status.core # NoMember => quest.coreSet
    /\ trip.status.noBuy => quest.last

TripInv ==
  /\ DOMAIN trip = OfTrip /\ DOMAIN trip.status = OfStatus /\ DOMAIN quest = OfQuest /\ DOMAIN trip.status.over = Member
  /\ TripCounts /\ (~trip.enabled => at \in {"run"} \cup Over) /\ StatusIsOwn

\* No expedition is on when the task begins.
LEMMA TripStarts == ASSUME WorkerInit("explore"), TripInit PROVE TripInv
<1>1. PICK p \in TripAsks :
        /\ trip = [runs |-> 0, enabled |-> TRUE, starts |-> 0, invests |-> 0,
                   maxStarts |-> p.starts, maxInvest |-> InvestLimit(p), investing |-> p.invest, stopFull |-> p.full,
                   leave |-> p.mode = 1, cancel |-> p.mode = 2, core |-> p.core,
                   status |-> [Status0 EXCEPT !.over = [m \in Member |-> "ready"], !.known = TRUE, !.noBuy = TRUE]]
        /\ quest = [on |-> FALSE, hired |-> {}, floor |-> 0, begun |-> 0, paid |-> 0, coreSet |-> FALSE, last |-> FALSE,
                    sets |-> 0, mostStarts |-> p.starts, mostInvest |-> InvestLimit(p)]
  BY Zenon DEF TripInit
<1>2. p.starts \in Nat /\ InvestLimit(p) \in Nat
  BY TripAssumption DEF TripAssumption, InvestLimit
<1>3. /\ DOMAIN trip = OfTrip /\ trip.starts = 0 /\ trip.invests = 0 /\ trip.maxStarts = p.starts /\ trip.maxInvest = InvestLimit(p)
      /\ trip.enabled = TRUE
      /\ trip.status = [[Status0 EXCEPT !.over = [m \in Member |-> "ready"], !.known = TRUE] EXCEPT !.noBuy = TRUE]
  BY <1>1 DEF OfTrip
<1>4. /\ DOMAIN quest = OfQuest /\ quest.begun = 0 /\ quest.paid = 0 /\ quest.on = FALSE
      /\ quest.mostStarts = p.starts /\ quest.mostInvest = InvestLimit(p)
  BY <1>1 DEF OfQuest
<1>5. DOMAIN trip.status = OfStatus /\ DOMAIN trip.status.over = Member
  BY <1>3 DEF Status0, OfStatus
<1>6. TripCounts
  BY <1>2, <1>3, <1>4 DEF TripCounts
<1> QED
  BY <1>3, <1>4, <1>5, <1>6 DEF TripInv, StatusIsOwn

\* New limits count for what is to come; the most that was allowed is remembered.
LEMMA SetTripKeeps == ASSUME TripInv, NEW p \in TripAsks, SetTrip(p) PROVE TripInv'
<1>1. p.starts \in Nat /\ InvestLimit(p) \in Nat
  BY TripAssumption DEF TripAssumption, InvestLimit
<1>2. UNCHANGED at
  BY DEF SetTrip, Stays, worker
<1>3. /\ DOMAIN trip' = OfTrip /\ trip'.starts = trip.starts /\ trip'.invests = trip.invests /\ trip'.enabled = trip.enabled
      /\ trip'.maxStarts = p.starts /\ trip'.maxInvest = InvestLimit(p) /\ trip'.status = trip.status
  BY Zenon DEF TripInv, SetTrip, OfTrip
<1>4. /\ DOMAIN quest' = OfQuest /\ quest'.begun = quest.begun /\ quest'.paid = quest.paid /\ quest'.on = quest.on
      /\ quest'.hired = quest.hired /\ quest'.last = quest.last /\ quest'.coreSet = quest.coreSet
      /\ quest'.mostStarts = Larger(quest.mostStarts, p.starts) /\ quest'.mostInvest = Larger(quest.mostInvest, InvestLimit(p))
  BY Zenon DEF TripInv, SetTrip, OfQuest
<1>5. \A x, y \in Nat : Larger(x, y) \in Nat /\ x <= Larger(x, y) /\ y <= Larger(x, y)
  BY DEF Larger
<1>6. TripCounts'
  <2>1. quest.mostStarts \in Nat /\ quest.mostInvest \in Nat
    BY DEF TripInv, TripCounts
  <2>2. /\ Larger(quest.mostStarts, p.starts) \in Nat /\ quest.mostStarts <= Larger(quest.mostStarts, p.starts)
        /\ p.starts <= Larger(quest.mostStarts, p.starts)
    BY ONLY Zenon, <1>1, <1>5, <2>1
  <2>3. /\ Larger(quest.mostInvest, InvestLimit(p)) \in Nat /\ quest.mostInvest <= Larger(quest.mostInvest, InvestLimit(p))
        /\ InvestLimit(p) <= Larger(quest.mostInvest, InvestLimit(p))
    BY ONLY Zenon, <1>1, <1>5, <2>1
  <2>4. \A s, x \in Nat : x <= quest.mostStarts /\ s = Larger(quest.mostStarts, p.starts) => x <= s
    BY <2>1, <2>2
  <2>5. \A s, x \in Nat : x <= quest.mostInvest /\ s = Larger(quest.mostInvest, InvestLimit(p)) => x <= s
    BY <2>1, <2>3
  <2>6. trip'.starts <= quest'.mostStarts /\ trip'.invests <= quest'.mostInvest
    BY Zenon, <1>3, <1>4, <2>2, <2>3, <2>4, <2>5 DEF TripInv, TripCounts
  <2>7. trip'.maxStarts <= quest'.mostStarts /\ trip'.maxInvest <= quest'.mostInvest
    BY Zenon, <1>3, <1>4, <2>2, <2>3
  <2>8. {trip'.maxStarts, trip'.maxInvest, quest'.mostStarts, quest'.mostInvest} \subseteq Nat
    BY <1>1, <1>3, <1>4, <2>2, <2>3
  <2>9. /\ trip'.starts \in Nat /\ trip'.invests \in Nat /\ quest'.begun \in Nat /\ quest'.paid \in Nat
        /\ quest'.begun <= trip'.starts /\ quest'.paid = trip'.invests
    BY Zenon, <1>3, <1>4 DEF TripInv, TripCounts
  <2> QED
    BY Zenon, <2>6, <2>7, <2>8, <2>9 DEF TripCounts
<1>7. StatusIsOwn'
  BY Zenon, <1>3, <1>4 DEF TripInv, StatusIsOwn
<1> QED
  BY Zenon, <1>2, <1>3, <1>4, <1>6, <1>7 DEF TripInv

\* A new expedition starts with a clear status, and only while there may be one more.
LEMMA StartExploreKeeps == ASSUME TripInv, StartExplore PROVE TripInv'
<1>1. CASE LimitReached /\ UNCHANGED quest
  <2>1. DOMAIN trip' = OfTrip /\ trip'.starts = trip.starts /\ trip'.invests = trip.invests /\ trip'.maxStarts = trip.maxStarts
                              /\ trip'.maxInvest = trip.maxInvest /\ trip'.status = trip.status
        /\ at' = "run" /\ quest' = quest
    BY <1>1 DEF TripInv, LimitReached, EndsRun, Goes, OfTrip
  <2> QED
    BY <2>1 DEF TripInv, TripCounts, StatusIsOwn
<1>2. CASE /\ trip.starts < trip.maxStarts
           /\ trip' = [trip EXCEPT !.starts = @ + 1, !.status = Status0]
           /\ \/ Stays /\ UNCHANGED quest
              \/ /\ quest' = [quest EXCEPT !.on = TRUE, !.hired = {}, !.floor = 0, !.begun = @ + 1, !.coreSet = FALSE, !.last = FALSE]
                 /\ Goes("squad")
  <2>1. DOMAIN trip' = OfTrip /\ trip'.starts = trip.starts + 1 /\ trip'.invests = trip.invests /\ trip'.maxStarts = trip.maxStarts
                              /\ trip'.maxInvest = trip.maxInvest /\ trip'.status = Status0
        /\ trip'.enabled = trip.enabled
    BY <1>2 DEF TripInv, OfTrip
  <2>2. /\ DOMAIN Status0 = OfStatus /\ DOMAIN Status0.over = Member /\ Status0.core = NoMember /\ Status0.noBuy = FALSE
        /\ \A m \in Member : Status0.over[m] = "none"
    BY DEF Status0, NobodyKnown, OfStatus
  <2>3. DOMAIN quest' = OfQuest /\ quest'.begun \in {quest.begun, quest.begun + 1} /\ quest'.paid = quest.paid /\ quest'.mostStarts = quest.mostStarts
                                /\ quest'.mostInvest = quest.mostInvest
    BY <1>2 DEF TripInv, OfQuest
  <2>4. at = "begin" /\ trip.enabled
    BY DEF TripInv, StartExplore, Over
  <2>5. TripCounts'
    BY <1>2, <2>1, <2>3, TripAssumption DEF TripInv, TripCounts
  <2>6. StatusIsOwn'
    BY Zenon, <2>1, <2>2 DEF StatusIsOwn
  <2> QED
    BY Zenon, <2>1, <2>2, <2>3, <2>4, <2>5, <2>6 DEF TripInv
<1> QED
  <2>1. trip.starts < trip.maxStarts <=> ~(trip.starts >= trip.maxStarts)
    BY DEF TripInv, TripCounts
  <2> QED
    BY Zenon, <1>1, <1>2, <2>1 DEF StartExplore

\* Where nothing is counted or learnt, an expedition goes on or ends.
LEMMA QuestGoesOn ==
  ASSUME TripInv, trip.enabled \/ at' \in {"run"} \cup Over, UNCHANGED trip,
         UNCHANGED quest \/ FurtherFloor \/ quest' = [quest EXCEPT !.on = FALSE]
  PROVE  TripInv'
<1>1. /\ DOMAIN quest' = OfQuest /\ quest'.begun = quest.begun /\ quest'.paid = quest.paid /\ quest'.mostStarts = quest.mostStarts
      /\ quest'.mostInvest = quest.mostInvest /\ quest'.on \in {quest.on, FALSE}
      /\ quest'.hired = quest.hired /\ quest'.last = quest.last /\ quest'.coreSet = quest.coreSet
  BY DEF TripInv, OfQuest, FurtherFloor
<1> QED
  BY <1>1 DEF TripInv, TripCounts, StatusIsOwn

\* An investment is paid once, and only while there may be one more.
LEMMA InvestKeeps == ASSUME TripInv, Invest PROVE TripInv'
<1>1. CASE LimitReached /\ UNCHANGED quest
  <2>1. DOMAIN trip' = OfTrip /\ trip'.starts = trip.starts /\ trip'.invests = trip.invests /\ trip'.maxStarts = trip.maxStarts
                              /\ trip'.maxInvest = trip.maxInvest /\ trip'.status = trip.status
        /\ at' = "run" /\ quest' = quest
    BY <1>1 DEF TripInv, LimitReached, EndsRun, Goes, OfTrip
  <2> QED
    BY <2>1 DEF TripInv, TripCounts, StatusIsOwn
<1>2. CASE trip.invests < trip.maxInvest /\ trip' = [trip EXCEPT !.invests = @ + 1] /\ quest' = [quest EXCEPT !.paid = @ + 1] /\ Stays
  <2>1. DOMAIN trip' = OfTrip /\ trip'.starts = trip.starts /\ trip'.invests = trip.invests + 1 /\ trip'.maxStarts = trip.maxStarts
                              /\ trip'.maxInvest = trip.maxInvest /\ trip'.status = trip.status
        /\ trip'.enabled = trip.enabled
    BY <1>2 DEF TripInv, OfTrip
  <2>2. DOMAIN quest' = OfQuest /\ quest'.begun = quest.begun /\ quest'.paid = quest.paid + 1 /\ quest'.mostStarts = quest.mostStarts
                                /\ quest'.mostInvest = quest.mostInvest /\ quest'.on = quest.on
        /\ quest'.hired = quest.hired /\ quest'.coreSet = quest.coreSet /\ quest'.last = quest.last
    BY <1>2 DEF TripInv, OfQuest
  <2>3. at' = at
    BY <1>2 DEF Stays, worker
  <2>4. TripCounts'
    BY <1>2, <2>1, <2>2, TripAssumption DEF TripInv, TripCounts
  <2>5. StatusIsOwn'
    BY Zenon, <2>1, <2>2 DEF TripInv, StatusIsOwn
  <2> QED
    BY Zenon, <2>1, <2>2, <2>3, <2>4, <2>5 DEF TripInv
<1>3. CASE InvestCancel
  <2>1. trip.enabled
    BY DEF Invest, TripInv, Over
  <2>2. UNCHANGED trip /\ (UNCHANGED quest \/ quest' = [quest EXCEPT !.on = FALSE])
    BY <1>3 DEF InvestCancel, GivesUp
  <2> QED
    BY ONLY Zenon, TripInv, <2>1, <2>2, QuestGoesOn
<1>4. trip.invests < trip.maxInvest <=> ~(trip.invests >= trip.maxInvest)
  BY DEF TripInv, TripCounts
<1> QED
  BY Zenon, <1>1, <1>2, <1>3, <1>4 DEF Invest

\* What an expedition learns is of its own members,
LEMMA RecruitOneKeeps == ASSUME TripInv, RecruitOne PROVE TripInv'
<1>1. trip.enabled
  BY DEF TripInv, RecruitOne, Over
<1>2. CASE trip' = [trip EXCEPT !.status.core = NoMember] /\ UNCHANGED quest
  <2>1. /\ DOMAIN trip' = OfTrip /\ trip'.starts = trip.starts /\ trip'.invests = trip.invests /\ trip'.maxStarts = trip.maxStarts
        /\ trip'.maxInvest = trip.maxInvest /\ trip'.enabled = trip.enabled
        /\ trip'.status = [trip.status EXCEPT !.core = NoMember]
    BY <1>2 DEF TripInv, OfTrip
  <2>2. /\ DOMAIN trip'.status = OfStatus /\ trip'.status.over = trip.status.over /\ trip'.status.core = NoMember
        /\ trip'.status.noBuy = trip.status.noBuy
    BY <2>1 DEF TripInv, OfStatus
  <2>3. StatusIsOwn' /\ TripCounts'
    BY <1>2, <2>1, <2>2 DEF TripInv, StatusIsOwn, TripCounts
  <2> QED
    BY Zenon, <1>1, <1>2, <2>1, <2>2, <2>3 DEF TripInv
<1>3. ASSUME NEW n \in Member, NEW s \in Strengths,
             trip' = [trip EXCEPT !.status = [@ EXCEPT !.core = NoMember, !.over[n] = s, !.known = TRUE]],
             quest' = [quest EXCEPT !.hired = @ \cup {n}]
      PROVE  TripInv'
  <2>1. /\ DOMAIN trip' = OfTrip /\ trip'.starts = trip.starts /\ trip'.invests = trip.invests /\ trip'.maxStarts = trip.maxStarts
        /\ trip'.maxInvest = trip.maxInvest /\ trip'.enabled = trip.enabled
        /\ trip'.status = [trip.status EXCEPT !.core = NoMember, !.over[n] = s, !.known = TRUE]
    BY <1>3 DEF TripInv, OfTrip
  <2>2. /\ DOMAIN trip'.status = OfStatus /\ trip'.status.over = [trip.status.over EXCEPT ![n] = s] /\ trip'.status.core = NoMember
        /\ trip'.status.noBuy = trip.status.noBuy
    BY <2>1 DEF TripInv, OfStatus
  <2>3. /\ DOMAIN quest' = OfQuest /\ quest'.begun = quest.begun /\ quest'.paid = quest.paid /\ quest'.mostStarts = quest.mostStarts
        /\ quest'.mostInvest = quest.mostInvest /\ quest'.on = quest.on
        /\ quest'.hired = quest.hired \cup {n} /\ quest'.last = quest.last
    BY <1>3 DEF TripInv, OfQuest
  <2>4. DOMAIN trip'.status.over = Member /\ \A m \in Member \ {n} : trip'.status.over[m] = trip.status.over[m]
    BY <2>2 DEF TripInv
  <2>5. TripCounts'
    BY <2>1, <2>3 DEF TripInv, TripCounts
  <2>6. StatusIsOwn'
    BY Zenon, <2>2, <2>3, <2>4 DEF TripInv, StatusIsOwn
  <2> QED
    BY Zenon, <1>1, <2>1, <2>2, <2>3, <2>4, <2>5, <2>6 DEF TripInv
<1> QED
  BY Zenon, <1>2, <1>3 DEF RecruitOne

\* whom the team shows when nobody is known
LEMMA SelectSkillsKeeps == ASSUME TripInv, SelectSkills PROVE TripInv'
<1>1. trip.enabled /\ quest' = quest
  BY DEF TripInv, SelectSkills, Over
<1>2. CASE UNCHANGED trip
  BY <1>1, <1>2 DEF TripInv, TripCounts, StatusIsOwn
<1>3. ASSUME NEW team \in SUBSET quest.hired, NEW grown \in BOOLEAN,
             trip' = [trip EXCEPT !.status =
                        [@ EXCEPT !.full = grown, !.known = TRUE,
                                  !.over = IF trip.status.known THEN trip.status.over ELSE [m \in Member |-> IF m \in team THEN "ready" ELSE "none"]]]
      PROVE  TripInv'
  <2> DEFINE over == IF trip.status.known THEN trip.status.over ELSE [m \in Member |-> IF m \in team THEN "ready" ELSE "none"]
  <2>1. /\ DOMAIN trip' = OfTrip /\ trip'.starts = trip.starts /\ trip'.invests = trip.invests /\ trip'.maxStarts = trip.maxStarts
        /\ trip'.maxInvest = trip.maxInvest /\ trip'.enabled = trip.enabled
        /\ trip'.status = [trip.status EXCEPT !.full = grown, !.known = TRUE, !.over = over]
    <3>1. trip' = [trip EXCEPT !.status = [trip.status EXCEPT !.full = grown, !.known = TRUE, !.over = over]]
      BY Zenon, <1>3
    <3> HIDE DEF over
    <3> QED
      BY <3>1 DEF TripInv, OfTrip
  <2>2. DOMAIN over = Member /\ \A m \in Member : over[m] # "none" => over[m] = trip.status.over[m] \/ m \in quest.hired
    BY DEF TripInv
  <2> HIDE DEF over
  <2>3. /\ DOMAIN trip'.status = OfStatus /\ trip'.status.over = over /\ trip'.status.core = trip.status.core
        /\ trip'.status.noBuy = trip.status.noBuy
    BY <2>1 DEF TripInv, OfStatus
  <2>4. TripCounts' /\ StatusIsOwn'
    BY <1>1, <2>1, <2>2, <2>3 DEF TripInv, TripCounts, StatusIsOwn
  <2> QED
    BY Zenon, <1>1, <2>1, <2>2, <2>3, <2>4 DEF TripInv
<1> QED
  BY Zenon, <1>2, <1>3 DEF SelectSkills

\* and what it has bought or asked for itself.
LEMMA BuyKeeps == ASSUME TripInv, NEW offered \in SUBSET DOMAIN Goods, Buy(offered) PROVE TripInv'
<1>1. trip.enabled
  BY DEF TripInv, Buy, Over
<1>2. CASE UNCHANGED <<trip, quest>>
  BY <1>1, <1>2 DEF TripInv, TripCounts, StatusIsOwn
<1>3. ASSUME NEW g, trip' = [trip EXCEPT !.status.noBuy = @ \/ g.last], quest' = [quest EXCEPT !.last = @ \/ g.last]
      PROVE  TripInv'
  <2>1. /\ DOMAIN trip' = OfTrip /\ trip'.starts = trip.starts /\ trip'.invests = trip.invests /\ trip'.maxStarts = trip.maxStarts
        /\ trip'.maxInvest = trip.maxInvest /\ trip'.enabled = trip.enabled
        /\ trip'.status = [trip.status EXCEPT !.noBuy = (@ \/ g.last)]
    BY <1>3 DEF TripInv, OfTrip
  <2>2. /\ DOMAIN trip'.status = OfStatus /\ trip'.status.over = trip.status.over /\ trip'.status.core = trip.status.core
        /\ trip'.status.noBuy = (trip.status.noBuy \/ g.last)
    BY <2>1 DEF TripInv, OfStatus
  <2>3. /\ DOMAIN quest' = OfQuest /\ quest'.begun = quest.begun /\ quest'.paid = quest.paid /\ quest'.mostStarts = quest.mostStarts
        /\ quest'.mostInvest = quest.mostInvest /\ quest'.on = quest.on
        /\ quest'.hired = quest.hired /\ quest'.last = (quest.last \/ g.last) /\ quest'.coreSet = quest.coreSet
    BY <1>3 DEF TripInv, OfQuest
  <2>4. TripCounts'
    BY <2>1, <2>3 DEF TripInv, TripCounts
  <2>5. StatusIsOwn'
    BY Zenon, <2>2, <2>3 DEF TripInv, StatusIsOwn
  <2> QED
    BY Zenon, <1>1, <2>1, <2>2, <2>3, <2>4, <2>5 DEF TripInv
<1> QED
  BY Zenon, <1>2, <1>3 DEF Buy

\* The core is one that was asked for in this expedition.
LEMMA HijackKeeps == ASSUME TripInv, HijackCoreChar PROVE TripInv'
<1>1. trip.enabled
  BY DEF TripInv, HijackCoreChar, Over
<1>2. CASE UNCHANGED <<trip, quest>>
  BY <1>1, <1>2 DEF TripInv, TripCounts, StatusIsOwn
<1>3. CASE trip' = [trip EXCEPT !.status.core = trip.core] /\ quest' = [quest EXCEPT !.coreSet = TRUE]
  <2>1. /\ DOMAIN trip' = OfTrip /\ trip'.starts = trip.starts /\ trip'.invests = trip.invests /\ trip'.maxStarts = trip.maxStarts
        /\ trip'.maxInvest = trip.maxInvest /\ trip'.enabled = trip.enabled
        /\ trip'.status = [trip.status EXCEPT !.core = trip.core]
    BY <1>3 DEF TripInv, OfTrip
  <2>2. /\ DOMAIN trip'.status = OfStatus /\ trip'.status.over = trip.status.over /\ trip'.status.noBuy = trip.status.noBuy
    BY <2>1 DEF TripInv, OfStatus
  <2>3. /\ DOMAIN quest' = OfQuest /\ quest'.begun = quest.begun /\ quest'.paid = quest.paid /\ quest'.mostStarts = quest.mostStarts
        /\ quest'.mostInvest = quest.mostInvest /\ quest'.on = quest.on
        /\ quest'.hired = quest.hired /\ quest'.last = quest.last /\ quest'.coreSet = TRUE
    BY <1>3 DEF TripInv, OfQuest
  <2>4. TripCounts' /\ StatusIsOwn'
    BY <2>1, <2>2, <2>3 DEF TripInv, TripCounts, StatusIsOwn
  <2> QED
    BY Zenon, <1>1, <2>1, <2>2, <2>3, <2>4 DEF TripInv
<1> QED
  BY Zenon, <1>2, <1>3 DEF HijackCoreChar

\* All that the runs of the task consist of
LEMMA TripKeeps == ASSUME TripInv, TripNext PROVE TripInv'
<1>1. CASE NextRun
  <2>1. CASE UNCHANGED trip /\ (Goes("succeeded") \/ Goes("failed"))
    BY <1>1, <2>1, QuestGoesOn DEF NextRun, Goes, Over
  <2>2. CASE Goes("begin") /\ trip' = [trip EXCEPT !.runs = @ + 1] /\ trip.enabled
    <3>1. /\ DOMAIN trip' = OfTrip /\ trip'.starts = trip.starts /\ trip'.invests = trip.invests /\ trip'.maxStarts = trip.maxStarts
          /\ trip'.maxInvest = trip.maxInvest /\ trip'.enabled = trip.enabled
          /\ trip'.status = trip.status
      BY <2>2 DEF TripInv, OfTrip
    <3> QED
      BY <1>1, <2>2, <3>1 DEF TripInv, TripCounts, StatusIsOwn, NextRun
  <2> QED
    BY Zenon, <1>1, <2>1, <2>2 DEF NextRun
<1>2. CASE GraphEnds
  BY <1>2, QuestGoesOn DEF GraphEnds, EndsRun, Goes
<1>3. CASE ContinueExplore \/ EnterNode \/ FightBattle \/ InvestNoMore \/ BoughtOrNot \/ LeaveShop
  <2>1. /\ UNCHANGED trip /\ at \notin {"run"} \cup Over
        /\ UNCHANGED quest \/ FurtherFloor \/ quest' = [quest EXCEPT !.on = FALSE]
    BY Zenon, <1>3 DEF ContinueExplore, EnterNode, FightBattle, InvestNoMore, BoughtOrNot, LeaveShop, Over, GivesUp, InvestCancel
  <2> QED
    BY <2>1, QuestGoesOn DEF TripInv
<1> QED
  BY Zenon, <1>1, <1>2, <1>3, StartExploreKeeps, HijackKeeps, RecruitOneKeeps, SelectSkillsKeeps, InvestKeeps, BuyKeeps, SetTripKeeps
     DEF TripNext, TripWorks

\* Of all steps an expedition can take part in its own and a stop.
LEMMA StepOfTrip ==
  ASSUME [Next]_vars, task = "explore"
  PROVE  TripNext \/ UNCHANGED <<at, trip, quest>>
BY Zenon DEF Next, Only, vars, Own, StopWorker, worker

\* A stop changes nothing of it.
LEMMA TripStops == ASSUME TripInv, UNCHANGED <<at, trip, quest>> PROVE TripInv'
BY DEF TripInv, TripCounts, StatusIsOwn

\* No more was begun and paid than was counted, and what is known is known of members.
LEMMA TripIsRight == TripInv => ExpeditionIsOwn
<1>1. TripInv => quest.begun <= quest.mostStarts /\ quest.paid <= quest.mostInvest
  BY DEF TripInv, TripCounts
<1> QED
  BY Zenon, <1>1 DEF TripInv, StatusIsOwn, ExpeditionIsOwn
-----------------------------------------------------------------------------
OfDrops == {"wanted", "penguin", "again", "stats", "lastRead", "tries", "ended", "body", "keys", "named", "id"}
OfServer == {"begun", "ends", "result", "counted", "used", "mixed"}
Threads == [pc : {"none", "key", "ask", "over"}, tries : Nat, cn : BOOLEAN]

DropTypes ==
  /\ DOMAIN drops = OfDrops /\ DOMAIN server = OfServer
  /\ drops.stats \in Nat /\ drops.lastRead \in Nat /\ drops.body \in Nat /\ server.begun \in Nat /\ server.ends \in Nat
  /\ drops.wanted \in Nat \ {0} /\ drops.ended \in BOOLEAN
  /\ sender \in [Battle -> Threads] /\ server.counted \in [Battle -> Nat]

\* Each battle is read once, and its report follows what was read.
DropsAreRead ==
  /\ drops.stats <= drops.lastRead /\ drops.lastRead <= server.begun /\ drops.body <= drops.lastRead
  /\ drops.stats >= drops.wanted => drops.ended
  /\ at = "fight" /\ server.ends = 0 => drops.stats < drops.wanted
  /\ at \in {"read", "body", "extra", "send"} => server.ends > 0
  /\ at = "read" => drops.lastRead # server.begun
  /\ at = "body" => drops.body < server.begun /\ drops.lastRead = server.begun
  /\ at \in {"extra", "send"} => drops.body = server.begun

\* A battle whose report has not been begun has no thread; one whose report was not
\* disturbed has none but its own, and that one is over when the next report is begun.
Report(x) ==
  /\ x > drops.body => sender[x].pc = "none" /\ server.counted[x] = 0
  /\ x \in drops.keys \cup server.used => sender[x].pc \in {"ask", "over"}
  /\ x < drops.body /\ x \notin server.mixed => sender[x].pc \notin {"key", "ask"} /\ server.counted[x] <= 1
  /\ x = drops.body /\ x \notin server.mixed =>
       /\ \A y \in Battle \ {x} : sender[y].pc \notin {"key", "ask"}
       /\ server.counted[x] <= 1
       /\ sender[x].pc \in {"none", "key"} => server.counted[x] = 0
       /\ sender[x].pc = "key" \/ at = "send" => drops.keys = {}
       /\ sender[x].pc = "ask" => drops.keys = {x} /\ (x \notin server.used => server.counted[x] = 0)
  /\ x = drops.body /\ at \in {"extra", "send"} => sender[x].pc = "none"

DropInv == DropTypes /\ DropsAreRead /\ (\A x \in Battle : Report(x))

\* No battle has begun, and no report.
LEMMA DropStarts == ASSUME WorkerInit("drops"), DropInit PROVE DropInv
<1>1. /\ DOMAIN drops = OfDrops /\ drops.stats = 0 /\ drops.lastRead = 0 /\ drops.body = 0 /\ drops.keys = {}
      /\ drops.wanted \in 1..Battles /\ drops.ended = FALSE
  BY DEF DropInit, OfDrops
<1>2. /\ DOMAIN server = OfServer /\ server.begun = 0 /\ server.ends = 0 /\ server.counted = [b \in Battle |-> 0]
      /\ server.used = {} /\ server.mixed = {}
  BY DEF DropInit, OfServer
<1>3. sender = [b \in Battle |-> [pc |-> "none", tries |-> 0, cn |-> FALSE]] /\ at = "run"
  BY DEF DropInit, WorkerInit
<1>4. DropTypes
  <2>1. sender \in [Battle -> Threads] /\ server.counted \in [Battle -> Nat]
    BY <1>2, <1>3 DEF Threads
  <2>2. drops.wanted \in Nat \ {0}
    BY <1>1, DropAssumption
  <2>3. /\ drops.stats \in Nat /\ drops.lastRead \in Nat /\ drops.body \in Nat /\ server.begun \in Nat /\ server.ends \in Nat
        /\ drops.ended \in BOOLEAN
    <3>1. 0 \in Nat
      OBVIOUS
    <3> QED
      BY Zenon, <1>1, <1>2, <3>1
  <2> QED
    BY Zenon, <1>1, <1>2, <2>1, <2>2, <2>3 DEF DropTypes
<1>6. DropsAreRead
  BY <1>1, <1>2, <1>3, DropAssumption DEF DropsAreRead
<1>5. ASSUME NEW x \in Battle PROVE Report(x)
  BY <1>1, <1>2, <1>3 DEF Report, Battle
<1> QED
  BY <1>4, <1>5, <1>6 DEF DropInv

\* Away from a report, all reports stay as they are.
LEMMA ReportsStay ==
  ASSUME DropInv, drops'.body = drops.body, drops'.keys = drops.keys, UNCHANGED sender,
         server'.counted = server.counted, server'.used = server.used, server'.mixed = server.mixed,
         at' \notin {"extra", "send"}
  PROVE  \A x \in Battle : Report(x)'
<1> SUFFICES ASSUME NEW x \in Battle PROVE Report(x)'
  OBVIOUS
<1>1. Report(x)
  BY DEF DropInv
<1> QED
  BY Zenon, <1>1 DEF Report

\* The plugin and the battles
LEMMA PluginKeeps ==
  ASSUME DropInv, StartBattle \/ EndFight \/ EndOfAction \/ NextBattle \/ ReadFails \/ ReadDrops \/ CloseReports
  PROVE  DropInv'
<1>1. CASE StartBattle
  <2>1. PICK r \in Outcomes : server' = [server EXCEPT !.begun = @ + 1, !.ends = 0, !.result = r]
    BY <1>1 DEF StartBattle
  <2>2. /\ DOMAIN server' = OfServer /\ server'.begun = server.begun + 1 /\ server'.ends = 0 /\ server'.counted = server.counted
        /\ server'.used = server.used /\ server'.mixed = server.mixed
    BY <2>1 DEF DropInv, DropTypes, OfServer
  <2>3. at' = "fight" /\ drops' = drops /\ sender' = sender /\ ~drops.ended
    BY <1>1 DEF StartBattle, Goes
  <2>4. DropTypes' /\ DropsAreRead'
    BY <2>2, <2>3 DEF DropInv, DropTypes, DropsAreRead
  <2> QED
    BY <2>2, <2>3, <2>4, ReportsStay DEF DropInv
<1>2. CASE EndFight \/ NextBattle \/ CloseReports
  <2>1. at' \in {"closing", "run", "succeeded"} /\ drops' = drops /\ sender' = sender /\ server' = server
    BY <1>2 DEF EndFight, NextBattle, CloseReports, Goes
  <2>2. DropTypes' /\ DropsAreRead'
    BY <2>1 DEF DropInv, DropTypes, DropsAreRead
  <2> QED
    BY <2>1, <2>2, ReportsStay DEF DropInv
<1>3. CASE EndOfAction
  <2>1. /\ DOMAIN server' = OfServer /\ server'.begun = server.begun /\ server'.ends = server.ends + 1 /\ server'.counted = server.counted
        /\ server'.used = server.used /\ server'.mixed = server.mixed /\ sender' = sender
    BY <1>3 DEF EndOfAction, DropInv, DropTypes, OfServer
  <2>2. CASE Stays /\ UNCHANGED drops
    <3>1. at' = "fight" /\ drops' = drops
      BY <1>3, <2>2 DEF EndOfAction, Stays, worker
    <3>2. DropTypes' /\ DropsAreRead'
      BY <2>1, <3>1 DEF DropInv, DropTypes, DropsAreRead
    <3> QED
      BY <2>1, <3>1, <3>2, ReportsStay DEF DropInv
  <2>3. CASE drops.lastRead # server.begun /\ drops' = [drops EXCEPT !.tries = 0] /\ Goes("read")
    <3>1. /\ DOMAIN drops' = OfDrops /\ drops'.stats = drops.stats /\ drops'.lastRead = drops.lastRead /\ drops'.body = drops.body
          /\ drops'.keys = drops.keys /\ drops'.wanted = drops.wanted /\ drops'.ended = drops.ended /\ at' = "read"
      BY <2>3 DEF DropInv, DropTypes, OfDrops, Goes
    <3>2. DropTypes' /\ DropsAreRead'
      BY <2>1, <2>3, <3>1 DEF DropInv, DropTypes, DropsAreRead
    <3> QED
      BY <2>1, <3>1, <3>2, ReportsStay DEF DropInv
  <2> QED
    BY <1>3, <2>2, <2>3 DEF EndOfAction
<1>4. CASE ReadFails
  <2>1. /\ DOMAIN drops' = OfDrops /\ drops'.stats = drops.stats /\ drops'.lastRead = drops.lastRead /\ drops'.body = drops.body
        /\ drops'.keys = drops.keys /\ drops'.wanted = drops.wanted /\ drops'.ended = drops.ended
        /\ at = "read" /\ at' \in {"read", "fight"} /\ sender' = sender /\ server' = server
    <3>1. CASE Stays /\ drops' = [drops EXCEPT !.tries = @ + 1]
      BY <1>4, <3>1 DEF ReadFails, DropInv, DropTypes, OfDrops, Stays, worker
    <3>2. CASE Goes("fight") /\ UNCHANGED drops
      BY <1>4, <3>2 DEF ReadFails, DropInv, DropTypes, Goes
    <3> QED
      BY Zenon, <1>4, <3>1, <3>2 DEF ReadFails
  <2>2. DropTypes' /\ DropsAreRead'
    BY <2>1 DEF DropInv, DropTypes, DropsAreRead
  <2> QED
    BY <2>1, <2>2, ReportsStay DEF DropInv
<1>5. CASE ReadDrops
  <2>1. /\ DOMAIN drops' = OfDrops /\ drops'.stats = drops.stats + 1 /\ drops'.lastRead = server.begun /\ drops'.body = drops.body
        /\ drops'.keys = drops.keys /\ drops'.wanted = drops.wanted
        /\ drops'.ended = (drops.ended \/ server.result = "no reward" \/ drops.stats + 1 >= drops.wanted)
    BY <1>5 DEF ReadDrops, DropInv, DropTypes, OfDrops
  <2>2. at = "read" /\ at' \in {"body", "fight"} /\ sender' = sender /\ server' = server
    BY <1>5 DEF ReadDrops, Goes
  <2>3. drops.lastRead < server.begun /\ drops.body < server.begun /\ server.ends > 0 /\ drops.stats < server.begun
    BY <2>2 DEF DropInv, DropTypes, DropsAreRead
  <2>6. drops'.ended \in BOOLEAN /\ (drops.stats + 1 >= drops.wanted => drops'.ended)
    BY Zenon, <2>1
  <2>7. /\ DOMAIN drops' = OfDrops /\ drops'.stats = drops.stats + 1 /\ drops'.lastRead = server.begun /\ drops'.body = drops.body
        /\ drops'.keys = drops.keys /\ drops'.wanted = drops.wanted
    BY Zenon, <2>1
  <2>4. DropTypes'
    BY <2>2, <2>6, <2>7 DEF DropInv, DropTypes
  <2>5. DropsAreRead'
    BY <2>2, <2>3, <2>6, <2>7 DEF DropInv, DropTypes, DropsAreRead
  <2> QED
    BY <2>1, <2>2, <2>4, <2>5, ReportsStay DEF DropInv
<1> QED
  BY <1>1, <1>2, <1>3, <1>4, <1>5

\* A report is begun: the body is that of the battle, which has no thread yet,
LEMMA SetBodyKeeps == ASSUME DropInv, SetBody PROVE DropInv'
<1>1. /\ DOMAIN drops' = OfDrops /\ drops'.stats = drops.stats /\ drops'.lastRead = drops.lastRead /\ drops'.body = server.begun
      /\ drops'.keys = drops.keys /\ drops'.wanted = drops.wanted /\ drops'.ended = drops.ended
  BY DEF SetBody, DropInv, DropTypes, OfDrops
<1>2. /\ DOMAIN server' = OfServer /\ server'.begun = server.begun /\ server'.ends = server.ends /\ server'.counted = server.counted
      /\ server'.used = server.used
      /\ server'.mixed = IF Alive = {} THEN server.mixed ELSE server.mixed \cup Alive \cup {server.begun}
  BY DEF SetBody, DropInv, DropTypes, OfServer
<1>3. at = "body" /\ at' = "extra" /\ sender' = sender
  BY DEF SetBody, Goes
<1>4. DropTypes' /\ DropsAreRead'
  BY <1>1, <1>2, <1>3 DEF DropInv, DropTypes, DropsAreRead
<1>5. drops.body < server.begun /\ server.begun \in Nat /\ drops.body \in Nat /\ Battle \subseteq Nat
  BY <1>3, DropAssumption DEF DropInv, DropTypes, DropsAreRead, Battle
<1>6. ASSUME NEW x \in Battle PROVE Report(x)'
  <2>1. Report(x)
    BY DEF DropInv
  <2>2. x \in Nat /\ server.counted[x] \in Nat
    BY <1>5 DEF DropInv, DropTypes
  <2>3. x \notin server'.mixed => x \notin server.mixed /\ (\A y \in Battle : sender[y].pc \in {"key", "ask"} => x # server.begun /\ y # x)
    BY <1>2 DEF Alive
  <2>4. x > server.begun => sender[x].pc = "none" /\ server.counted[x] = 0
    BY <1>5, <2>1, <2>2 DEF Report
  <2>5. x < server.begun /\ x \notin server'.mixed => sender[x].pc \notin {"key", "ask"} /\ server.counted[x] <= 1
    <3>1. x < drops.body \/ x = drops.body \/ x > drops.body
      BY <1>5, <2>2
    <3> QED
      BY <2>1, <2>2, <2>3, <3>1 DEF Report
  <2>6. x = server.begun => sender[x].pc = "none" /\ server.counted[x] = 0
    BY <1>5, <2>1 DEF Report
  <2>7. x = server.begun /\ x \notin server'.mixed => \A y \in Battle \ {x} : sender[y].pc \notin {"key", "ask"}
    BY <2>3
  <2>8. x \in drops.keys \cup server.used => sender[x].pc \in {"ask", "over"}
    BY <2>1 DEF Report
  <2> QED
    BY <1>1, <1>2, <1>3, <2>4, <2>5, <2>6, <2>7, <2>8 DEF Report
<1> QED
  BY <1>4, <1>6 DEF DropInv

\* the headers are made anew,
LEMMA SetExtraParamKeeps == ASSUME DropInv, SetExtraParam PROVE DropInv'
<1>1. /\ DOMAIN drops' = OfDrops /\ drops'.stats = drops.stats /\ drops'.lastRead = drops.lastRead /\ drops'.body = drops.body
      /\ drops'.keys = {} /\ drops'.wanted = drops.wanted /\ drops'.ended = drops.ended
  BY DEF SetExtraParam, DropInv, DropTypes, OfDrops
<1>2. at = "extra" /\ at' = "send" /\ sender' = sender /\ server' = server
  BY DEF SetExtraParam, Goes
<1>3. DropTypes' /\ DropsAreRead'
  BY <1>1, <1>2 DEF DropInv, DropTypes, DropsAreRead
<1>4. ASSUME NEW x \in Battle PROVE Report(x)'
  <2>1. Report(x)
    BY DEF DropInv
  <2>2. x = drops.body => sender[x].pc = "none"
    BY <1>2, <2>1 DEF Report
  <2> QED
    BY <1>1, <1>2, <2>1, <2>2 DEF Report
<1> QED
  BY <1>3, <1>4 DEF DropInv

\* and the thread is started.
LEMMA RunReportKeeps == ASSUME DropInv, RunReport PROVE DropInv'
<1>1. drops' = drops /\ server' = server /\ at = "send" /\ at' = "fight" /\ sender' = [sender EXCEPT ![server.begun].pc = "key"]
  BY DEF RunReport, Goes
<1>2. server.begun = drops.body /\ server.ends > 0
  BY <1>1 DEF DropInv, DropsAreRead
<1>3. sender' \in [Battle -> Threads]
  BY <1>1 DEF DropInv, DropTypes, Threads
<1>4. DropTypes' /\ DropsAreRead'
  BY <1>1, <1>2, <1>3 DEF DropInv, DropTypes, DropsAreRead
<1>5. ASSUME NEW x \in Battle PROVE Report(x)'
  <2>1. Report(x) /\ sender \in [Battle -> Threads]
    BY DEF DropInv, DropTypes
  <2>2. \A y \in Battle : sender'[y].pc = IF y = drops.body THEN "key" ELSE sender[y].pc
    BY <1>1, <1>2, <2>1 DEF Threads
  <2>3. x = drops.body => sender[x].pc = "none" /\ x \notin drops.keys /\ x \notin server.used
    BY <1>1, <2>1 DEF Report
  <2>4. CASE x # drops.body
    BY <1>1, <2>1, <2>2, <2>4 DEF Report
  <2>5. CASE x = drops.body
    <3>1. /\ x \notin server.mixed => (\A y \in Battle \ {x} : sender[y].pc \notin {"key", "ask"}) /\ server.counted[x] = 0 /\ drops.keys = {}
      BY <1>1, <2>1, <2>3, <2>5 DEF Report
    <3>2. sender'[x].pc = "key" /\ drops.body \in Nat
      BY <2>2, <2>5 DEF DropInv, DropTypes
    <3> QED
      BY <1>1, <2>2, <2>3, <2>5, <3>1, <3>2 DEF Report
  <2> QED
    BY <2>4, <2>5
<1> QED
  BY <1>4, <1>5 DEF DropInv

\* What a request that arrives does to what is counted
LEMMA CountedOnce ==
  ASSUME DropInv, server' \in Counted \cup {server}, NEW b \in Battle, sender[b].pc = "ask"
  PROVE  /\ DOMAIN server' = OfServer /\ server'.begun = server.begun /\ server'.ends = server.ends /\ server'.mixed = server.mixed
         /\ server'.counted \in [Battle -> Nat] /\ server'.used \subseteq server.used \cup drops.keys
         /\ \A x \in Battle \ {drops.body} : server'.counted[x] = server.counted[x]
         /\ drops.body \in Battle \ server.mixed =>
              /\ b = drops.body /\ server'.counted[b] <= 1
              /\ b \notin server'.used => server'.counted[b] = 0
<1>1. DropTypes
  BY DEF DropInv
<1>2. drops.body \in Battle \ server.mixed =>
        /\ b = drops.body /\ drops.keys = {b} /\ server.counted[b] <= 1 /\ (b \notin server.used => server.counted[b] = 0)
  BY DEF DropInv, Report
<1>3. CASE server' = server
  BY <1>1, <1>2, <1>3 DEF DropTypes
<1>4. ASSUME server' = [server EXCEPT !.counted[drops.body] = @ + 1], drops.keys = {}
      PROVE  /\ DOMAIN server' = OfServer /\ server'.begun = server.begun /\ server'.ends = server.ends /\ server'.mixed = server.mixed
             /\ server'.used = server.used /\ server'.counted = [server.counted EXCEPT ![drops.body] = @ + 1]
  BY <1>1, <1>4 DEF DropTypes, OfServer
<1>5. ASSUME NEW k \in drops.keys, k \notin server.used, server' = [server EXCEPT !.counted[drops.body] = @ + 1, !.used = @ \cup {k}]
      PROVE  /\ DOMAIN server' = OfServer /\ server'.begun = server.begun /\ server'.ends = server.ends /\ server'.mixed = server.mixed
             /\ server'.used = server.used \cup {k} /\ server'.counted = [server.counted EXCEPT ![drops.body] = @ + 1]
  BY <1>1, <1>5 DEF DropTypes, OfServer
<1>6. ASSUME server'.counted = [server.counted EXCEPT ![drops.body] = @ + 1]
      PROVE  /\ server'.counted \in [Battle -> Nat]
             /\ \A x \in Battle \ {drops.body} : server'.counted[x] = server.counted[x]
             /\ drops.body \in Battle => server'.counted[drops.body] = server.counted[drops.body] + 1
  <2>1. server.counted \in [Battle -> Nat]
    BY <1>1 DEF DropTypes
  <2>2. \A x \in Battle : server'.counted[x] = IF x = drops.body THEN server.counted[x] + 1 ELSE server.counted[x]
    BY <1>6, <2>1
  <2>3. DOMAIN server'.counted = Battle /\ \A x \in Battle : server'.counted[x] \in Nat
    BY <1>6, <2>1, <2>2
  <2>4. server'.counted \in [Battle -> Nat]
    BY <1>6, <2>1, <2>3
  <2> QED
    BY <2>2, <2>4
<1>7. CASE server' = [server EXCEPT !.counted[drops.body] = @ + 1] /\ drops.keys = {}
  BY <1>2, <1>4, <1>6, <1>7
<1>8. CASE \E k \in drops.keys : k \notin server.used /\ server' = [server EXCEPT !.counted[drops.body] = @ + 1, !.used = @ \cup {k}]
  <2>1. PICK k \in drops.keys : k \notin server.used /\ server' = [server EXCEPT !.counted[drops.body] = @ + 1, !.used = @ \cup {k}]
    BY <1>8
  <2>2. /\ DOMAIN server' = OfServer /\ server'.begun = server.begun /\ server'.ends = server.ends /\ server'.mixed = server.mixed
        /\ server'.used = server.used \cup {k} /\ server'.counted = [server.counted EXCEPT ![drops.body] = @ + 1]
    BY <1>5, <2>1
  <2>3. drops.body \in Battle \ server.mixed => k = b
    BY <1>2, <2>1
  <2> QED
    BY <1>2, <1>6, <2>1, <2>2, <2>3
<1> QED
  BY <1>3, <1>7, <1>8 DEF Counted

\* The thread of a report
LEMMA SendsKeeps == ASSUME DropInv, NEW b \in Battle, Sends(b) PROVE DropInv'
<1>1. /\ at' = at /\ sender[b].pc \in {"key", "ask"} /\ sender' \in [Battle -> Threads]
      /\ \A y \in Battle \ {b} : sender'[y].pc = sender[y].pc
      /\ \/ sender[b].pc = "key" /\ sender'[b].pc = "ask" /\ AddKey(b)
         \/ /\ sender[b].pc = "ask" /\ sender'[b].pc \in {"ask", "over"}
            /\ server' \in Counted \cup {server} /\ drops' \in {drops, [drops EXCEPT !.id = TRUE]}
  <2>1. sender \in [Battle -> Threads] /\ sender[b].pc \in {"key", "ask"} /\ at' = at
    BY DEF Sends, AddKey, Answered, NotAnswered, Refused, worker, DropInv, DropTypes
  <2>2. ASSUME NEW t \in Threads, sender' = [sender EXCEPT ![b] = t]
        PROVE  /\ sender' \in [Battle -> Threads] /\ sender'[b] = t
               /\ \A y \in Battle \ {b} : sender'[y].pc = sender[y].pc
    BY <2>1, <2>2
  <2>3. CASE AddKey(b)
    <3>1. /\ [sender[b] EXCEPT !.pc = "ask"] \in Threads /\ [sender[b] EXCEPT !.pc = "ask"].pc = "ask"
          /\ sender' = [sender EXCEPT ![b] = [sender[b] EXCEPT !.pc = "ask"]]
      BY <2>1, <2>3 DEF AddKey, Threads
    <3>2. sender[b].pc = "key"
      BY <2>3 DEF AddKey
    <3> QED
      BY <2>1, <2>2, <2>3, <3>1, <3>2
  <2>4. NextAddress(b) \in Threads /\ NextAddress(b).pc \in {"ask", "over"}
    BY <2>1 DEF NextAddress, Threads
  <2>5. CASE Answered(b)
    <3>1. /\ [sender[b] EXCEPT !.pc = "over"] \in Threads /\ [sender[b] EXCEPT !.pc = "over"].pc = "over"
          /\ sender' = [sender EXCEPT ![b] = [sender[b] EXCEPT !.pc = "over"]]
      BY <2>1, <2>5 DEF Answered, Threads
    <3> QED
      BY <2>1, <2>2, <2>5, <3>1 DEF Answered
  <2>6. CASE NotAnswered(b)
    <3>1. [sender[b] EXCEPT !.tries = @ + 1] \in Threads /\ [sender[b] EXCEPT !.tries = @ + 1].pc = sender[b].pc
      BY <2>1 DEF Threads
    <3>2. sender' \in {[sender EXCEPT ![b] = [sender[b] EXCEPT !.tries = @ + 1]], [sender EXCEPT ![b] = NextAddress(b)]}
      BY <2>1, <2>6 DEF NotAnswered
    <3>3. sender[b].pc = "ask" /\ server' \in Counted \cup {server} /\ drops' = drops
      BY <2>6 DEF NotAnswered
    <3> QED
      BY <2>1, <2>2, <2>4, <3>1, <3>2, <3>3
  <2>7. CASE Refused(b)
    <3>1. sender[b].pc = "ask" /\ server' = server /\ drops' = drops /\ sender' = [sender EXCEPT ![b] = NextAddress(b)]
      BY <2>7 DEF Refused
    <3> QED
      BY <2>1, <2>2, <2>4, <3>1
  <2> QED
    BY Zenon, <2>3, <2>5, <2>6, <2>7 DEF Sends
<1>2. /\ DOMAIN drops' = OfDrops /\ drops'.stats = drops.stats /\ drops'.lastRead = drops.lastRead /\ drops'.body = drops.body
      /\ drops'.wanted = drops.wanted /\ drops'.ended = drops.ended
      /\ drops'.keys = IF sender[b].pc = "key" THEN drops.keys \cup {b} ELSE drops.keys
  <2>1. CASE AddKey(b)
    BY <2>1 DEF AddKey, DropInv, DropTypes, OfDrops
  <2>2. CASE sender[b].pc = "ask" /\ drops' \in {drops, [drops EXCEPT !.id = TRUE]}
    BY <2>2 DEF DropInv, DropTypes, OfDrops
  <2> QED
    BY <1>1, <2>1, <2>2
<1>3. /\ DOMAIN server' = OfServer /\ server'.begun = server.begun /\ server'.ends = server.ends /\ server'.mixed = server.mixed
      /\ server'.counted \in [Battle -> Nat] /\ server'.used \subseteq server.used \cup drops.keys
      /\ \A x \in Battle \ {drops.body} : server'.counted[x] = server.counted[x]
      /\ sender[b].pc = "key" => server' = server
      /\ sender[b].pc = "ask" /\ drops.body \in Battle \ server.mixed =>
           /\ b = drops.body /\ server'.counted[b] <= 1
           /\ b \notin server'.used => server'.counted[b] = 0
  <2>1. CASE AddKey(b)
    BY <2>1 DEF AddKey, DropInv, DropTypes
  <2>2. CASE sender[b].pc = "ask" /\ server' \in Counted \cup {server}
    BY <2>2, CountedOnce
  <2> QED
    BY <1>1, <2>1, <2>2
<1>4. DropTypes' /\ DropsAreRead'
  BY <1>1, <1>2, <1>3 DEF DropInv, DropTypes, DropsAreRead
<1>5. ASSUME NEW x \in Battle PROVE Report(x)'
  <2>1. Report(x) /\ Report(b) /\ x \in Nat /\ b \in Nat /\ drops.body \in Nat
    BY DropAssumption DEF DropInv, DropTypes, Battle
  <2>2. x > drops.body => x # b
    BY <1>1, <2>1 DEF Report
  <2>3. x > drops.body => sender'[x].pc = "none" /\ server'.counted[x] = 0
    BY <1>1, <1>3, <2>1, <2>2 DEF Report
  <2>4. x \in drops'.keys \cup server'.used => sender'[x].pc \in {"ask", "over"}
    BY <1>1, <1>2, <1>3, <2>1 DEF Report
  <2>5. x < drops.body /\ x \notin server.mixed => sender'[x].pc \notin {"key", "ask"} /\ server'.counted[x] <= 1
    BY <1>1, <1>3, <2>1 DEF Report
  <2>6. x = drops.body => at \notin {"extra", "send"} \/ x # b
    BY <1>1, <2>1 DEF Report
  <2>7. ASSUME x = drops.body, x \notin server.mixed
        PROVE  /\ \A y \in Battle \ {x} : sender'[y].pc \notin {"key", "ask"}
               /\ server'.counted[x] <= 1 /\ x = b
               /\ sender'[x].pc \in {"ask", "over"} /\ drops'.keys = {x} /\ (x \notin server'.used => server'.counted[x] = 0)
    <3>1. b = x
      BY <1>1, <2>1, <2>7 DEF Report
    <3>2. \A y \in Battle \ {x} : sender'[y].pc \notin {"key", "ask"}
      BY <1>1, <2>1, <2>7, <3>1 DEF Report
    <3>3. CASE sender[b].pc = "key"
      BY <1>1, <1>2, <1>3, <2>1, <2>7, <3>1, <3>2, <3>3 DEF Report
    <3>4. CASE sender[b].pc = "ask"
      BY <1>1, <1>2, <1>3, <2>1, <2>7, <3>1, <3>2, <3>4 DEF Report
    <3> QED
      BY <1>1, <3>3, <3>4
  <2>8. x = drops.body /\ at \in {"extra", "send"} => sender'[x].pc = "none"
    BY <1>1, <2>1, <2>6 DEF Report
  <2>9. drops'.body = drops.body /\ server'.mixed = server.mixed /\ at' = at
    BY <1>1, <1>2, <1>3
  <2> QED
    BY <2>3, <2>4, <2>5, <2>6, <2>7, <2>8, <2>9 DEF Report
<1> QED
  BY <1>4, <1>5 DEF DropInv

\* All that the plugin and the threads do
LEMMA DropKeeps == ASSUME DropInv, DropNext PROVE DropInv'
BY Zenon, PluginKeeps, SetBodyKeeps, SetExtraParamKeeps, RunReportKeeps, SendsKeeps DEF DropNext

\* Of all steps the drops can take part in their own and a stop.
LEMMA StepOfDrops ==
  ASSUME [Next]_vars, task = "drops"
  PROVE  DropNext \/ UNCHANGED <<at, drops, sender, server>>
BY Zenon DEF Next, Only, vars, Own, StopWorker, worker

\* A stop does not reach them.
LEMMA DropsStop == ASSUME DropInv, UNCHANGED <<at, drops, sender, server>> PROVE DropInv'
BY Zenon DEF DropInv, DropTypes, DropsAreRead, Report

\* What is so of each report is what was to be shown of the counts.
LEMMA DropsAreRight == DropInv => DropsAreReported
<1> SUFFICES ASSUME DropInv PROVE DropsAreReported
  OBVIOUS
<1>1. drops.stats <= server.begun
  BY DEF DropInv, DropTypes, DropsAreRead
<1>2. ASSUME NEW b \in Battle \ server.mixed PROVE server.counted[b] <= 1
  <2>1. Report(b) /\ b \in Nat /\ drops.body \in Nat
    BY DropAssumption DEF DropInv, DropTypes, Battle
  <2> QED
    BY <2>1 DEF Report
<1> QED
  BY Zenon, <1>1, <1>2 DEF DropsAreReported, DropInv, DropsAreRead
-----------------------------------------------------------------------------
\* Of the steps a tower can take part in its own and a stop,
LEMMA StepOfClimb ==
  ASSUME [Next]_vars, task = "climb"
  PROVE  ClimbNext \/ (UNCHANGED <<at, climb, tower>> /\ (stopped => stopped'))
BY Zenon DEF Next, Only, vars, Own, StopWorker, worker

\* A wish that is granted is the first of those that anybody offered meets, so that nobody who
\* was left is wanted more than who was taken.
LEMMA NobodyIsRegretted ==
  ASSUME NEW offers, DOMAIN offers \subseteq Nat
  PROVE  ~Regrets(offers, Pick(offers))
<1> DEFINE Granted == {i \in DOMAIN Drops : Meeting(offers, Drops[i]) # {}}
<1>1. DOMAIN Drops \subseteq Nat
  BY SSSAssumption
<1>2. CASE Granted = {}
  <2>1. Pick(offers) = {}
    BY <1>2 DEF Pick
  <2>2. \A r \in ToSet(offers) \ Blacklist : Wished(r) = {}
    BY <1>2, Zenon DEF Meeting, Wished, ToSet
  <2> QED
    BY <2>1, <2>2, Zenon DEF Regrets
<1>3. CASE Granted # {}
  <2>1. PICK first \in Granted : first = Min(Granted) /\ \A i \in Granted : first <= i
    BY <1>1, <1>3, LeastOf
  <2>2. PICK k \in Meeting(offers, Drops[first]) : k = Min(Meeting(offers, Drops[first]))
    BY <2>1, LeastOf DEF Meeting
  <2>3. Pick(offers) = {offers[k]}
    BY <1>3, <2>1, <2>2 DEF Pick
  <2>4. offers[k] \in ToSet(offers) \ Blacklist /\ first \in Wished(offers[k])
    BY <2>1, <2>2 DEF Meeting, Wished, ToSet
  <2>5. ASSUME NEW r \in ToSet(offers) \ Blacklist, NEW i \in Wished(r) PROVE ~(i < first)
    <3>1. i \in Granted
      BY <2>5 DEF Meeting, Wished, ToSet
    <3> QED
      BY <1>1, <2>1, <3>1
  <2> HIDE DEF Granted
  <2> QED
    BY <2>3, <2>4, <2>5 DEF Regrets
<1> QED
  BY <1>2, <1>3

OfTower == {"stages", "level", "screen", "offers", "offered", "fights", "deck", "half", "doubt", "settled", "regret"}

ClimbTypeOK ==
  /\ DOMAIN climb = {"tries", "stage"}
  /\ DOMAIN tower = OfTower
  /\ tower.fights \in [Stages -> Nat]
  /\ DOMAIN tower.offers \subseteq Nat
  /\ tower.doubt \in BOOLEAN /\ tower.settled \in BOOLEAN /\ tower.regret \in BOOLEAN
  /\ at # "run" => climb.tries \in [DOMAIN Planned -> Nat]

\* What is left of the tries and what was fought make what was planned, at most; and exactly,
\* while nothing was misread and no stop has ended a fight.
TriesAreLeft ==
  /\ \A s \in Stages : at = "run" \/ s \notin DOMAIN Planned => tower.fights[s] = 0
  /\ at # "run" => \A s \in DOMAIN Planned : climb.tries[s] + tower.fights[s] <= Planned[s] + 1

CountsFights == at \in {"analyze", "missed", "settle", "start", "battle"} \/ (at = "confirm" /\ ~stopped)
TriesAreExact == CountsFights /\ ~tower.doubt => \A s \in DOMAIN Planned : climb.tries[s] + tower.fights[s] = Planned[s] + 1

\* One starts a battle only for a stage that is planned and has tries left.
TriesStage == at \in {"start", "battle"} => climb.stage = StageNow /\ StageNow \in DOMAIN Planned /\ climb.tries[climb.stage] > 0

\* Why it is settled
NoMoreTries == StageNow \notin DOMAIN Planned \/ climb.tries[StageNow] = 0
SettlesFor ==
  /\ at = "missed" /\ ~tower.doubt => tower.screen = "start" \/ StageNow \notin DOMAIN Planned
  /\ at = "settle" /\ ~tower.doubt => tower.screen = "start" \/ NoMoreTries
  /\ at = "battle" /\ ~tower.doubt => tower.screen = "fight"
  /\ tower.settled => at = "succeeded"
  /\ tower.settled /\ ~tower.doubt => StageNow \notin DOMAIN Planned \/ tower.fights[StageNow] = Planned[StageNow] + 1

ClimbInv == ClimbTypeOK /\ TriesAreLeft /\ TriesAreExact /\ TriesStage /\ SettlesFor /\ ~tower.regret

LEMMA ClimbInvInit == Init /\ task = "climb" => ClimbInv
<1> SUFFICES ASSUME Init, task = "climb" PROVE ClimbInv
  OBVIOUS
<1>1. ClimbInit /\ at = "run"
  BY DEF Init, WorkerInit
<1> QED
  BY <1>1, SSSAssumption DEF ClimbInit, ClimbInv, ClimbTypeOK, OfTower, TriesAreLeft, TriesAreExact, CountsFights, TriesStage, SettlesFor, Nothing

LEMMA ClimbInvStep == ClimbInv /\ task = "climb" /\ [Next]_vars => ClimbInv'
<1> SUFFICES ASSUME ClimbInv, task = "climb", [Next]_vars PROVE ClimbInv'
  OBVIOUS
<1> USE SSSAssumption
<1>1. CASE UNCHANGED <<at, climb, tower>> /\ (stopped => stopped')
  BY <1>1 DEF ClimbInv, ClimbTypeOK, TriesAreLeft, TriesAreExact, CountsFights, TriesStage, SettlesFor, NoMoreTries, StageNow
<1>2. CASE ClimbBegins
  BY <1>2 DEF ClimbBegins, Goes, ClimbInv, ClimbTypeOK, TriesAreLeft, TriesAreExact, CountsFights, TriesStage, SettlesFor, NoMoreTries, StageNow, OfTower
<1>3. CASE ClimbStopped
  BY <1>3 DEF ClimbStopped, Goes, ClimbInv, ClimbTypeOK, TriesAreLeft, TriesAreExact, CountsFights, TriesStage, SettlesFor, NoMoreTries, StageNow
<1>4. CASE ConfirmBattleComplete
  BY <1>4 DEF ConfirmBattleComplete, Goes, ClimbInv, ClimbTypeOK, TriesAreLeft, TriesAreExact, CountsFights, TriesStage, SettlesFor, NoMoreTries, StageNow
<1>5. CASE AnalyzeStage
  <2>1. CASE Misses /\ (UNCHANGED tower \/ tower' = [tower EXCEPT !.doubt = TRUE]) /\ at = "analyze" /\ (tower'.doubt \/ tower.screen = "start" \/ StageNow \notin DOMAIN Planned)
    BY <2>1 DEF Misses, Goes, ClimbInv, ClimbTypeOK, TriesAreLeft, TriesAreExact, CountsFights, TriesStage, SettlesFor, NoMoreTries, StageNow, OfTower
  <2>2. CASE /\ at = "analyze" /\ StageNow \in DOMAIN Planned /\ UNCHANGED tower
             /\ climb' = [climb EXCEPT !.stage = StageNow]
             /\ Goes(IF climb.tries[StageNow] <= 0 THEN "settle" ELSE "start")
    <3>1. climb.tries[StageNow] \in Nat /\ climb'.tries = climb.tries /\ climb'.stage = StageNow /\ StageNow' = StageNow
      BY <2>2 DEF ClimbInv, ClimbTypeOK, StageNow
    <3>2. IF climb.tries[StageNow] = 0 THEN at' = "settle" ELSE at' = "start"
      BY <2>2, <3>1 DEF Goes
    <3>3. ClimbTypeOK' /\ TriesAreLeft' /\ TriesAreExact'
      BY <2>2, <3>1, <3>2 DEF ClimbInv, ClimbTypeOK, TriesAreLeft, TriesAreExact, CountsFights, OfTower
    <3>4. TriesStage' /\ SettlesFor'
      BY <2>2, <3>1, <3>2 DEF ClimbInv, ClimbTypeOK, TriesStage, SettlesFor, NoMoreTries
    <3> QED
      BY <2>2, <3>3, <3>4 DEF ClimbInv
  <2>3. tower' = [tower EXCEPT !.doubt = TRUE] => tower'.doubt
    BY DEF ClimbInv, ClimbTypeOK, OfTower
  <2> QED
    BY Zenon, <1>5, <2>1, <2>2, <2>3 DEF AnalyzeStage
<1>6. CASE StageMissed
  BY <1>6 DEF StageMissed, Goes, ClimbInv, ClimbTypeOK, TriesAreLeft, TriesAreExact, CountsFights, TriesStage, SettlesFor, NoMoreTries, StageNow
<1>7. CASE Settle
  BY <1>7 DEF Settle, Goes, ClimbInv, ClimbTypeOK, TriesAreLeft, TriesAreExact, CountsFights, TriesStage, SettlesFor, NoMoreTries, StageNow, OfTower
<1>8. CASE OfferDrops
  BY <1>8 DEF OfferDrops, SetToSeqs, Stays, worker, ClimbInv, ClimbTypeOK, TriesAreLeft, TriesAreExact, CountsFights, TriesStage, SettlesFor, NoMoreTries, StageNow, OfTower
<1>9. CASE DropRewards
  <2>1. ~Regrets(tower.offers, Pick(tower.offers))
    BY NobodyIsRegretted DEF ClimbInv, ClimbTypeOK
  <2> QED
    BY <1>9, <2>1 DEF DropRewards, Nothing, Stays, worker, ClimbInv, ClimbTypeOK, TriesAreLeft, TriesAreExact, CountsFights, TriesStage, SettlesFor, NoMoreTries, StageNow, OfTower
<1>10. CASE ClickStart
  <2>1. at = "start" /\ at' = "battle" /\ UNCHANGED <<climb, stopped>>
    BY <1>10 DEF ClickStart, Goes
  <2>2. CASE tower.screen = "ready" /\ tower' = [tower EXCEPT !.screen = "fight", !.offered = 0, !.half = FALSE]
    BY <2>1, <2>2 DEF ClimbInv, ClimbTypeOK, TriesAreLeft, TriesAreExact, CountsFights, TriesStage, SettlesFor, NoMoreTries, StageNow, OfTower
  <2>3. CASE tower' = [tower EXCEPT !.doubt = TRUE, !.offered = 0]
    BY <2>1, <2>3 DEF ClimbInv, ClimbTypeOK, TriesAreLeft, TriesAreExact, CountsFights, TriesStage, SettlesFor, NoMoreTries, StageNow, OfTower
  <2> QED
    BY <1>10, <2>2, <2>3 DEF ClickStart
<1>11. CASE DrawCard \/ CheckAndGetDrops
  <2>1. climb' = climb /\ at' = at /\ stopped' = stopped /\ at = "battle"
    BY <1>11 DEF DrawCard, CheckAndGetDrops, InFight, Fighting, Stays, worker
  <2>2. /\ DOMAIN tower' = OfTower /\ tower'.fights = tower.fights /\ tower'.offers = tower.offers /\ tower'.doubt = tower.doubt
        /\ tower'.settled = tower.settled /\ tower'.regret = tower.regret /\ tower'.screen = tower.screen /\ tower'.level = tower.level
        /\ tower'.stages = tower.stages
    BY <1>11 DEF DrawCard, CheckAndGetDrops, ClimbInv, ClimbTypeOK, OfTower
  <2>3. StageNow' = StageNow
    BY <2>2 DEF StageNow
  <2> QED
    BY <2>1, <2>2, <2>3 DEF ClimbInv, ClimbTypeOK, TriesAreLeft, TriesAreExact, CountsFights, TriesStage, SettlesFor, NoMoreTries
<1>12. CASE CheckIfStartOver \/ FightStage
  <2>1. at = "battle" /\ (\/ \E screen \in {"ready", "start"}, level \in {tower.level, tower.level + 1} : Fighting /\ EndBattle(Fought(screen, level))
                          \/ (stopped \/ ~Fighting) /\ EndBattle(tower))
    BY <1>12, Zenon DEF CheckIfStartOver, FightStage, Fighting
  <2>2. climb.stage \in DOMAIN Planned /\ climb.stage = StageNow /\ climb.tries[climb.stage] \in Nat \ {0} /\ climb.stage \in Stages
    BY <2>1 DEF ClimbInv, ClimbTypeOK, TriesStage
  <2>3. ASSUME NEW next, EndBattle(next)
        PROVE  /\ tower' = next /\ at' = "confirm" /\ UNCHANGED stopped
               /\ DOMAIN climb' = {"tries", "stage"} /\ climb'.tries \in [DOMAIN Planned -> Nat]
               /\ climb'.tries[climb.stage] = climb.tries[climb.stage] - 1
               /\ \A s \in DOMAIN Planned \ {climb.stage} : climb'.tries[s] = climb.tries[s]
    BY <2>1, <2>2, <2>3 DEF EndBattle, Goes, ClimbInv, ClimbTypeOK
  <2>4. CASE (stopped \/ ~Fighting) /\ EndBattle(tower)
    <3>1. ~stopped => tower.doubt
      BY <2>1, <2>4 DEF Fighting, ClimbInv, ClimbTypeOK, SettlesFor
    <3>2. /\ tower' = tower /\ at' = "confirm" /\ stopped' = stopped /\ climb'.tries \in [DOMAIN Planned -> Nat]
          /\ \A s \in DOMAIN Planned : climb'.tries[s] <= climb.tries[s]
      <4>1. ASSUME NEW s \in DOMAIN Planned PROVE climb'.tries[s] <= climb.tries[s]
        <5>1. climb.tries[s] \in Nat
          BY <2>1 DEF ClimbInv, ClimbTypeOK
        <5> QED
          BY <2>2, <2>3, <2>4, <5>1
      <4> QED
        BY <2>3, <2>4, <4>1
    <3>4. ClimbTypeOK' /\ TriesAreExact'
      BY <2>3, <2>4, <3>1, <3>2 DEF ClimbInv, ClimbTypeOK, TriesAreExact, CountsFights
    <3>5. TriesAreLeft'
      BY <2>1, <3>2 DEF ClimbInv, ClimbTypeOK, TriesAreLeft
    <3>3. TriesStage' /\ SettlesFor' /\ ~tower'.regret
      BY <2>1, <2>2, <2>3, <2>4 DEF ClimbInv, ClimbTypeOK, TriesStage, SettlesFor
    <3> QED
      BY <3>3, <3>4, <3>5 DEF ClimbInv
  <2>5. ASSUME NEW screen, NEW level, EndBattle(Fought(screen, level)) PROVE ClimbInv'
    <3>0. tower' = Fought(screen, level)
      BY <2>3, <2>5
    <3>1. /\ DOMAIN tower' = OfTower /\ tower'.fights = [tower.fights EXCEPT ![StageNow] = @ + 1]
          /\ UNCHANGED <<tower.offers, tower.doubt, tower.settled, tower.regret>>
      BY <3>0 DEF Fought, ClimbInv, ClimbTypeOK, OfTower
    <3>5. /\ tower'.fights \in [Stages -> Nat] /\ tower'.fights[climb.stage] = tower.fights[climb.stage] + 1
          /\ \A s \in Stages \ {climb.stage} : tower'.fights[s] = tower.fights[s]
      BY <2>2, <3>1 DEF ClimbInv, ClimbTypeOK
    <3>6. \A s \in DOMAIN Planned : climb'.tries[s] + tower'.fights[s] = climb.tries[s] + tower.fights[s]
      <4>1. ASSUME NEW s \in DOMAIN Planned PROVE climb'.tries[s] + tower'.fights[s] = climb.tries[s] + tower.fights[s]
        <5>1. climb.tries[s] \in Nat /\ tower.fights[s] \in Nat /\ s \in Stages
          BY <2>1 DEF ClimbInv, ClimbTypeOK
        <5>2. CASE s = climb.stage
          <6>1. climb'.tries[s] = climb.tries[s] - 1
            BY <2>3, <2>5, <5>2
          <6>2. tower'.fights[s] = tower.fights[s] + 1
            BY <3>5, <5>2
          <6>3. \A m, n \in Nat : (m - 1) + (n + 1) = m + n
            OBVIOUS
          <6> QED
            BY Zenon, <5>1, <6>1, <6>2, <6>3
        <5>3. CASE s # climb.stage
          BY <2>3, <2>5, <3>5, <5>1, <5>3
        <5> QED
          BY <5>2, <5>3
      <4> QED
        BY <4>1
    <3>2. ClimbTypeOK' /\ TriesAreLeft'
      BY <2>1, <2>2, <2>3, <2>5, <3>1, <3>5, <3>6 DEF ClimbInv, ClimbTypeOK, TriesAreLeft
    <3>3. TriesAreExact'
      <4>1. CountsFights' => CountsFights
        BY <2>1 DEF CountsFights
      <4> QED
        BY <3>1, <3>6, <4>1 DEF ClimbInv, TriesAreExact
    <3>4. TriesStage' /\ SettlesFor' /\ ~tower'.regret
      BY <2>1, <2>3, <2>5, <3>1 DEF ClimbInv, TriesStage, SettlesFor
    <3> QED
      BY <3>2, <3>3, <3>4 DEF ClimbInv
  <2> QED
    BY <2>1, <2>4, <2>5
<1> QED
  BY Zenon, <1>1, <1>2, <1>3, <1>4, <1>5, <1>6, <1>7, <1>8, <1>9, <1>10, <1>11, <1>12, StepOfClimb DEF ClimbNext

LEMMA ClimbInvStages == ClimbInv => StagesAreTried
BY SSSAssumption DEF ClimbInv, ClimbTypeOK, TriesAreLeft, SettlesFor, StagesAreTried
-----------------------------------------------------------------------------
\* Of the steps the recognition of the depot can take part in its own and a stop,
LEMMA StepOfDepot ==
  ASSUME [Next]_vars, task = "depot"
  PROVE  DepotNext \/ (UNCHANGED <<at, depot, chest>> /\ (stopped => stopped'))
BY Zenon DEF Next, Only, vars, Own, StopWorker, worker

OfDepot == {"all", "pos", "page", "swiping"}
OfChest == {"holds", "offset", "unread", "doubt", "told"}

\* Where a page may begin
Begins(o) == o \in Nat /\ (o = 0 \/ o + PageSize <= Len(chest.holds))

\* What is known of an item is what is shown of it, and it is there.
IsTrue(items) == \A i \in DOMAIN items : i \in DOMAIN Materials /\ Materials[i] \in ToSet(chest.holds) /\ items[i] = Quantity(Materials[i])

DepotTypeOK ==
  /\ DOMAIN depot = OfDepot /\ DOMAIN chest = OfChest
  /\ chest.holds \in Contents /\ Begins(chest.offset)
  /\ depot.pos \in 0..Len(Materials)
  /\ IsTrue(depot.all) /\ IsTrue(chest.told)
  /\ at \in {"run", "picture"} => ~depot.swiping
  /\ at = "analyze" => \E o \in Nat : Begins(o) /\ depot.page = PageAt(o)

\* The first n items are reported, up to one that is new and but for those that were not read.
ReadTo(n) ==
  \A x \in DOMAIN chest.holds : x <= n /\ (\A y \in 1..x : chest.holds[y] \notin Novelties) =>
    chest.holds[x] \in chest.unread \/ \E i \in DOMAIN depot.all : Materials[i] = chest.holds[x]

\* The picture was taken at o, and the swipe does not leave a gap after it.
TakenAt(o) ==
  /\ Begins(o)
  /\ IF depot.swiping THEN chest.offset = o
     ELSE chest.offset \in o..(o + PageSize) /\ (chest.offset > o \/ o + PageSize >= Len(chest.holds))

\* The last item that was seen, up to which all is reported, is not the last one of a page at
\* o, unless that is the last page.
EndedBefore(o) ==
  depot.pos # 0 => \E x \in DOMAIN chest.holds : /\ chest.holds[x] = Materials[depot.pos] /\ ReadTo(x)
                                                 /\ x < o + PageSize \/ o + PageSize >= Len(chest.holds)

\* It is on the page at o, or before.
EndedOn(o) == depot.pos # 0 => \E x \in DOMAIN chest.holds : chest.holds[x] = Materials[depot.pos] /\ x <= o + PageSize

DepotPhases ==
  /\ at = "run" => depot.pos = 0 /\ chest.offset = 0
  /\ at = "picture" => ReadTo(chest.offset) /\ EndedBefore(chest.offset)
  /\ at = "analyze" => \E o \in Nat : TakenAt(o) /\ depot.page = PageAt(o) /\ ReadTo(o) /\ EndedBefore(o)
  /\ at = "wait" => \E o \in Nat : TakenAt(o) /\ ReadTo(o + PageSize) /\ EndedOn(o)
  /\ at \in {"done", "succeeded", "failed"} => ReadTo(Len(chest.holds))
  /\ at \in {"succeeded", "failed"} => chest.told = depot.all

DepotInv == DepotTypeOK /\ (~chest.doubt /\ ~stopped => DepotPhases)

\* A material that comes after begin is found, since few look like it and it looks best.
LEMMA MaterialIsMatched ==
  ASSUME NEW m \in DOMAIN Materials, NEW begin \in 0..(m - 1)
  PROVE  Match[Materials[m]][begin] = m
<1> DEFINE item == Materials[m]
           matching == {i \in begin + 1 .. Len(Materials) : Score(item, i) > 0}
           looked == {i \in matching : Cardinality({j \in matching : j < i}) < MaxExtraMatch}
           best == {i \in looked : \A j \in looked : Score(item, i) >= Score(item, j)}
<1>1. Len(Materials) \in Nat /\ DOMAIN Materials = 1..Len(Materials) /\ item \in DOMAIN Has /\ m \in Nat /\ begin \in 0..Len(Materials)
  BY DepotAssumption
<1>2. \A i : Score(item, i) \in {0, 1, 2}
  BY DEF Score
<1>3. Score(item, m) = 2
  BY DEF Score
<1>4. \A i \in DOMAIN Materials : Score(item, i) = 2 => i = m
  <2>1. \A i \in DOMAIN Materials : Materials[i] = item => i = m
    BY DepotAssumption
  <2> QED
    BY <2>1 DEF Score
<1>5. m \in looked
  <2> DEFINE alike == {n \in 1..(m - 1) : Materials[n] \in Alike[Materials[m]]}
             before == {j \in matching : j < m}
  <2>1. before \subseteq alike
    <3> SUFFICES ASSUME NEW j \in before PROVE j \in alike
      OBVIOUS
    <3>1. j \in 1..(m - 1) /\ Score(item, j) > 0 /\ j \in DOMAIN Materials
      BY <1>1
    <3>2. Materials[j] # item
      BY <3>1, DepotAssumption, <1>1
    <3> QED
      BY <3>1, <3>2 DEF Score
  <2>2. IsFiniteSet(alike)
    BY FS_Interval, FS_Subset, <1>1
  <2>3. Cardinality(before) <= Cardinality(alike) /\ Cardinality(before) \in Nat /\ Cardinality(alike) \in Nat
    BY <2>1, <2>2, FS_Subset, FS_CardinalityType
  <2>4. Cardinality(alike) < MaxExtraMatch
    BY DepotAssumption
  <2>5. m \in matching
    BY <1>1, <1>3
  <2> HIDE DEF alike, matching
  <2> QED
    BY <2>3, <2>4, <2>5, DepotAssumption
<1>6. best = {m}
  <2>1. looked \subseteq DOMAIN Materials
    BY <1>1
  <2> HIDE DEF looked
  <2> QED
    BY <1>2, <1>3, <1>4, <1>5, <2>1
<1>7. Max(best) = m
  <2> HIDE DEF best
  <2> QED
    BY <1>1, <1>6 DEF Max
<1>8. MatchItem(item, begin) = m
  <2> HIDE DEF item
  <2> QED
    BY <1>5, <1>7, Zenon DEF MatchItem
<1> QED
  BY <1>1, <1>8 DEF Match

\* What is new is not.
LEMMA NoveltyIsNotMatched ==
  ASSUME NEW item \in Novelties, NEW begin \in 0..Len(Materials)
  PROVE  Match[item][begin] = 0
<1>1. \A i \in begin + 1 .. Len(Materials) : Score(item, i) = 0
  <2> SUFFICES ASSUME NEW i \in begin + 1 .. Len(Materials) PROVE Score(item, i) = 0
    OBVIOUS
  <2>1. i \in DOMAIN Materials
    BY DepotAssumption
  <2>2. Materials[i] \in ToSet(Materials)
    BY <2>1 DEF ToSet
  <2> QED
    BY <2>2, DepotAssumption DEF Score
<1>2. MatchItem(item, begin) = 0
  BY <1>1 DEF MatchItem
<1> QED
  BY <1>2, DepotAssumption DEF Match

\* A page as the game shows it: materials in their order and what is new
IsPage(page) ==
  /\ page \in Seq(Novelties \cup ToSet(Materials))
  /\ \A i, j \in DOMAIN page : \A m, n \in DOMAIN Materials : i < j /\ page[i] = Materials[m] /\ page[j] = Materials[n] => m < n

KnownTo(page, k) == \A j \in 1..k : page[j] \notin Novelties
PlaceOnList(page, k) == CHOOSE m \in DOMAIN Materials : Materials[m] = page[k]
SeenHere(page) == [k \in 0..Len(page) |-> IF k # 0 /\ KnownTo(page, k) THEN PlaceOnList(page, k) ELSE 0]

IsSeen(seen, page) ==
  seen = [k \in 0..Len(page) |-> IF k = 0 THEN 0 ELSE IF k > 1 /\ seen[k - 1] = 0 THEN 0 ELSE Match[page[k]][seen[k - 1]]]

LEMMA SeenIsChosen == \A page : SeenFrom(0, page) = CHOOSE seen : IsSeen(seen, page)
BY Zenon DEF SeenFrom, IsSeen

LEMMA PlaceOfKnown ==
  ASSUME NEW page, IsPage(page), NEW k \in 1..Len(page), KnownTo(page, k)
  PROVE  PlaceOnList(page, k) \in DOMAIN Materials /\ Materials[PlaceOnList(page, k)] = page[k]
<1>1. page[k] \in ToSet(Materials)
  BY DEF IsPage, KnownTo
<1>2. \E m \in DOMAIN Materials : Materials[m] = page[k]
  BY <1>1 DEF ToSet
<1> QED
  BY <1>2, Zenon DEF PlaceOnList

LEMMA SeenFollows ==
  ASSUME NEW page, IsPage(page)
  PROVE  IsSeen(SeenHere(page), page)
<1> DEFINE seen == SeenHere(page)
           next(k) == IF k = 0 THEN 0 ELSE IF k > 1 /\ seen[k - 1] = 0 THEN 0 ELSE Match[page[k]][seen[k - 1]]
<1>0. Len(page) \in Nat /\ DOMAIN page = 1..Len(page) /\ DOMAIN Materials = 1..Len(Materials) /\ Len(Materials) \in Nat
  BY DepotAssumption DEF IsPage
<1>1. ASSUME NEW k \in 0..Len(page) PROVE seen[k] = IF k # 0 /\ KnownTo(page, k) THEN PlaceOnList(page, k) ELSE 0
  BY DEF SeenHere
<1>2. ASSUME NEW k \in 0..Len(page) PROVE seen[k] = next(k)
  <2>1. CASE k = 0
    BY <1>1, <2>1
  <2>2. CASE k # 0
    <3>1. k \in 1..Len(page) /\ k - 1 \in 0..Len(page)
      BY <1>0, <2>2
    <3>2. CASE k > 1 /\ ~KnownTo(page, k - 1)
      <4>1. seen[k - 1] = 0
        BY <1>1, <3>1, <3>2
      <4>2. ~KnownTo(page, k)
        BY <3>1, <3>2 DEF KnownTo
      <4> QED
        BY <1>1, <2>2, <3>2, <4>1, <4>2
    <3>3. CASE k = 1 \/ KnownTo(page, k - 1)
      <4>1. /\ k > 1 => seen[k - 1] = PlaceOnList(page, k - 1) /\ PlaceOnList(page, k - 1) \in DOMAIN Materials /\ Materials[PlaceOnList(page, k - 1)] = page[k - 1]
            /\ k = 1 => seen[k - 1] = 0
        <5>1. k = 1 => seen[k - 1] = 0
          BY <1>1, <3>1
        <5>2. ASSUME k > 1 PROVE seen[k - 1] = PlaceOnList(page, k - 1) /\ PlaceOnList(page, k - 1) \in DOMAIN Materials /\ Materials[PlaceOnList(page, k - 1)] = page[k - 1]
          <6>1. k - 1 \in 1..Len(page) /\ k - 1 # 0 /\ KnownTo(page, k - 1)
            BY <3>1, <3>3, <5>2
          <6>2. seen[k - 1] = PlaceOnList(page, k - 1)
            BY <1>1, <3>1, <6>1
          <6> QED
            BY <6>1, <6>2, PlaceOfKnown
        <5> QED
          BY <5>1, <5>2
      <4>2. seen[k - 1] \in 0..Len(Materials) /\ (k > 1 => seen[k - 1] # 0)
        BY <1>0, <3>1, <4>1
      <4>3. next(k) = Match[page[k]][seen[k - 1]]
        BY <2>2, <4>2
      <4>4. CASE page[k] \in Novelties
        <5>1. ~KnownTo(page, k)
          BY <3>1, <4>4 DEF KnownTo
        <5>2. seen[k] = 0
          BY <1>1, <5>1
        <5> QED
          BY <4>2, <4>3, <4>4, <5>2, NoveltyIsNotMatched
      <4>5. CASE page[k] \notin Novelties
        <5>1. KnownTo(page, k)
          <6>1. k > 1 => KnownTo(page, k - 1)
            BY <3>3
          <6> QED
            BY <3>1, <4>5, <6>1 DEF KnownTo
        <5>2. seen[k] = PlaceOnList(page, k) /\ PlaceOnList(page, k) \in DOMAIN Materials /\ Materials[PlaceOnList(page, k)] = page[k]
          BY <1>1, <2>2, <3>1, <5>1, PlaceOfKnown
        <5>3. seen[k - 1] \in 0..(seen[k] - 1)
          <6>1. k > 1 => seen[k - 1] < seen[k]
            <7>1. k > 1 => k - 1 \in DOMAIN page /\ k \in DOMAIN page /\ k - 1 < k
              BY <1>0, <3>1
            <7> QED
              BY <4>1, <5>2, <7>1 DEF IsPage
          <6> QED
            BY <1>0, <3>1, <4>1, <4>2, <5>2, <6>1
        <5> QED
          BY <4>3, <5>2, <5>3, MaterialIsMatched
      <4> QED
        BY <4>4, <4>5
    <3> QED
      BY <3>1, <3>2, <3>3
  <2> QED
    BY <2>1, <2>2
<1>3. seen = [k \in 0..Len(page) |-> seen[k]]
  BY DEF SeenHere
<1>4. [k \in 0..Len(page) |-> seen[k]] = [k \in 0..Len(page) |-> next(k)]
  <2> HIDE DEF seen, next
  <2> QED
    BY <1>2
<1> QED
  BY <1>3, <1>4, Zenon DEF IsSeen

LEMMA FollowsOnce ==
  ASSUME NEW page, Len(page) \in Nat, NEW f, IsSeen(f, page), NEW g, IsSeen(g, page)
  PROVE  f = g
<1> DEFINE Differ == {k \in 0..Len(page) : f[k] # g[k]}
<1>1. \A k \in 0..Len(page) : /\ f[k] = IF k = 0 THEN 0 ELSE IF k > 1 /\ f[k - 1] = 0 THEN 0 ELSE Match[page[k]][f[k - 1]]
                              /\ g[k] = IF k = 0 THEN 0 ELSE IF k > 1 /\ g[k - 1] = 0 THEN 0 ELSE Match[page[k]][g[k - 1]]
  BY Zenon DEF IsSeen
<1>2. CASE Differ = {}
  <2>1. \A k \in 0..Len(page) : f[k] = g[k]
    BY <1>2
  <2>2. f = [k \in 0..Len(page) |-> f[k]] /\ g = [k \in 0..Len(page) |-> g[k]]
    BY Zenon DEF IsSeen
  <2> QED
    BY <2>1, <2>2
<1>3. CASE Differ # {}
  <2>0. Differ \in SUBSET Nat
    OBVIOUS
  <2>1. PICK k \in Differ : \A j \in Differ : k <= j
    <3> HIDE DEF Differ
    <3> QED
      BY <1>3, <2>0, LeastOf
  <2>2. k # 0
    BY <1>1, <2>1
  <2>3. k - 1 \in 0..Len(page) /\ k - 1 \notin Differ
    BY <2>1, <2>2
  <2>4. f[k - 1] = g[k - 1]
    BY <2>3
  <2> QED
    BY <1>1, <2>1, <2>2, <2>4
<1> QED
  BY <1>2, <1>3

\* What is seen of a page: the materials before the first item that is new
LEMMA SeenOfPage ==
  ASSUME NEW page, IsPage(page)
  PROVE  SeenFrom(0, page) = SeenHere(page)
<1>1. IsSeen(SeenHere(page), page)
  BY SeenFollows
<1>2. IsSeen(SeenFrom(0, page), page)
  BY <1>1, SeenIsChosen, Zenon
<1>3. Len(page) \in Nat
  BY DEF IsPage
<1> QED
  BY <1>1, <1>2, <1>3, FollowsOnce

\* What is found on a page are the materials before the first item that is new, each at its place.
LEMMA FoundOnPage ==
  ASSUME NEW page, IsPage(page)
  PROVE  /\ DOMAIN AnalyzeAllItems(page) = {k \in DOMAIN page : KnownTo(page, k)}
         /\ \A k \in DOMAIN AnalyzeAllItems(page) : /\ AnalyzeAllItems(page)[k] \in DOMAIN Materials
                                                    /\ Materials[AnalyzeAllItems(page)[k]] = page[k]
<1> DEFINE seen == SeenHere(page)
<1>0. Len(page) \in Nat /\ DOMAIN page = 1..Len(page) /\ DOMAIN Materials = 1..Len(Materials) /\ Len(Materials) \in Nat
  BY DepotAssumption DEF IsPage
<1>1. AnalyzeAllItems(page) = [k \in {n \in DOMAIN page : seen[n] # 0} |-> seen[k]]
  <2> DEFINE Found(s) == [k \in {n \in DOMAIN page : s[n] # 0} |-> s[k]]
  <2>1. AnalyzeAllItems(page) = Found(SeenFrom(0, page))
    BY DEF AnalyzeAllItems, FoundFrom
  <2>2. Found(SeenFrom(0, page)) = Found(seen)
    <3> HIDE DEF Found
    <3> QED
      BY SeenOfPage
  <2> QED
    BY <2>1, <2>2
<1>2. ASSUME NEW k \in DOMAIN page
      PROVE  /\ seen[k] # 0 <=> KnownTo(page, k)
             /\ KnownTo(page, k) => seen[k] \in DOMAIN Materials /\ Materials[seen[k]] = page[k]
  <2>1. k \in 1..Len(page) /\ k \in 0..Len(page) /\ k # 0
    BY <1>0
  <2>2. seen[k] = IF KnownTo(page, k) THEN PlaceOnList(page, k) ELSE 0
    BY <2>1 DEF SeenHere
  <2> HIDE DEF seen
  <2> QED
    BY <1>0, <2>1, <2>2, PlaceOfKnown
<1> HIDE DEF seen
<1> QED
  BY <1>1, <1>2

\* What is taken is what the depot holds there.
LEMMA PageOfChest ==
  ASSUME chest.holds \in Contents, NEW o \in Nat, Begins(o)
  PROVE  /\ chest.holds \in Seq(Novelties \cup ToSet(Materials)) /\ Len(chest.holds) \in Nat
         /\ PageAt(o) \in Seq(Novelties \cup ToSet(Materials)) /\ IsPage(PageAt(o))
         /\ Len(PageAt(o)) = IF o + PageSize <= Len(chest.holds) THEN PageSize ELSE Len(chest.holds) - o
         /\ o <= Len(chest.holds)
         /\ \A k \in DOMAIN PageAt(o) : o + k \in DOMAIN chest.holds /\ PageAt(o)[k] = chest.holds[o + k]
<1> DEFINE holds == chest.holds
           last == IF o + PageSize <= Len(holds) THEN o + PageSize ELSE Len(holds)
<1>1. holds \in Seq(Novelties \cup ToSet(Materials)) /\ Len(holds) \in Nat /\ PageSize \in Nat \ {0} /\ o <= Len(holds)
  BY DepotAssumption DEF Begins
<1>2. Min({o + PageSize, Len(holds)}) = last
  <2>1. {o + PageSize, Len(holds)} \in SUBSET Nat
    BY <1>1
  <2>2. Min({o + PageSize, Len(holds)}) \in {o + PageSize, Len(holds)} /\ \A i \in {o + PageSize, Len(holds)} : Min({o + PageSize, Len(holds)}) <= i
    BY <2>1, LeastOf
  <2> QED
    BY <1>1, <2>2
<1>3. PageAt(o) = SubSeq(holds, o + 1, last)
  BY <1>2 DEF PageAt
<1>4. last \in 0..Len(holds) /\ o <= last
  BY <1>1
<1> HIDE DEF last
<1>5. /\ PageAt(o) \in Seq(Novelties \cup ToSet(Materials)) /\ Len(PageAt(o)) = last - o
      /\ \A k \in 1..(last - o) : PageAt(o)[k] = holds[o + k]
  BY <1>1, <1>3, <1>4, SubSeqProperties
<1>6. ASSUME NEW k \in DOMAIN PageAt(o) PROVE k \in 1..(last - o) /\ o + k \in DOMAIN holds /\ PageAt(o)[k] = holds[o + k]
  <2>1. k \in 1..(last - o)
    BY <1>5
  <2> QED
    BY <1>1, <1>4, <1>5, <2>1
<1>7. IsPage(PageAt(o))
  <2> SUFFICES ASSUME NEW i \in DOMAIN PageAt(o), NEW j \in DOMAIN PageAt(o), NEW m \in DOMAIN Materials, NEW n \in DOMAIN Materials,
                      i < j, PageAt(o)[i] = Materials[m], PageAt(o)[j] = Materials[n]
               PROVE  m < n
    BY <1>5, Zenon DEF IsPage
  <2>1. o + i < o + j
    BY <1>6
  <2> QED
    BY <1>6, <2>1, DepotAssumption
<1> QED
  BY <1>1, <1>5, <1>6, <1>7 DEF last

\* A page is read: what is kept of it is true, whatever was not readable.
LEMMA ItemsOfPage ==
  ASSUME chest.holds \in Contents, NEW o \in Nat, Begins(o), NEW read \in SUBSET (DOMAIN AnalyzeAllItems(PageAt(o)))
  PROVE  /\ IsTrue(ItemsOf(PageAt(o), read))
         /\ \A k \in read : AnalyzeAllItems(PageAt(o))[k] \in DOMAIN ItemsOf(PageAt(o), read)
<1> DEFINE page == PageAt(o)
           found == AnalyzeAllItems(PageAt(o))
           items == ItemsOf(PageAt(o), read)
<1>0. items = [i \in {found[k] : k \in read} |-> Quantity(page[CHOOSE k \in read : found[k] = i])]
  BY Zenon DEF ItemsOf
<1>1. \A k \in DOMAIN found : k \in DOMAIN page /\ found[k] \in DOMAIN Materials /\ Materials[found[k]] = page[k]
  BY PageOfChest, FoundOnPage
<1>2. \A k \in DOMAIN page : page[k] \in ToSet(chest.holds)
  BY PageOfChest DEF ToSet
<1> HIDE DEF found, page, items
<1>3. ASSUME NEW i \in {found[k] : k \in read}
      PROVE  i \in DOMAIN Materials /\ Materials[i] \in ToSet(chest.holds) /\ items[i] = Quantity(Materials[i])
  <2>1. PICK k : k = CHOOSE l \in read : found[l] = i
    OBVIOUS
  <2>2. k \in read /\ found[k] = i
    BY <1>3, <2>1
  <2>3. items[i] = Quantity(page[k])
    BY <1>0, <1>3, <2>1
  <2>4. read \subseteq DOMAIN found
    BY DEF found
  <2>5. i \in DOMAIN Materials /\ Materials[i] = page[k] /\ page[k] \in ToSet(chest.holds)
    BY <1>1, <1>2, <2>2, <2>4
  <2> QED
    BY <2>3, <2>5, Zenon
<1>4. DOMAIN items = {found[k] : k \in read}
  BY <1>0
<1>5. IsTrue(items) /\ \A k \in read : found[k] \in DOMAIN items
  BY <1>3, <1>4 DEF IsTrue
<1> QED
  BY <1>5, Zenon DEF found, items

\* What is known already is kept.
LEMMA TrueTogether ==
  ASSUME NEW f, NEW g, IsTrue(f), IsTrue(g)
  PROVE  IsTrue(Merged(f, g)) /\ DOMAIN Merged(f, g) = DOMAIN f \cup DOMAIN g
<1> DEFINE h == Merged(f, g)
<1>1. DOMAIN h = DOMAIN f \cup DOMAIN g /\ \A x \in DOMAIN h : h[x] = IF x \in DOMAIN f THEN f[x] ELSE g[x]
  BY DEF Merged
<1> HIDE DEF h
<1>2. IsTrue(h)
  BY <1>1 DEF IsTrue
<1> QED
  BY <1>1, <1>2 DEF h

\* What is seen of the items and reported of them tells how far the reading has come.
LEMMA ReadToKept ==
  ASSUME chest'.holds = chest.holds, chest'.unread = chest.unread, depot'.all = depot.all
  PROVE  \A o : ReadTo(o)' <=> ReadTo(o)
<1> SUFFICES ASSUME NEW o PROVE ReadTo(o)' <=> ReadTo(o)
  OBVIOUS
<1> QED
  BY SMT DEF ReadTo

LEMMA EndKept ==
  ASSUME chest'.holds = chest.holds, chest'.unread = chest.unread, depot'.all = depot.all, depot'.pos = depot.pos
  PROVE  \A o : (EndedBefore(o)' <=> EndedBefore(o)) /\ (EndedOn(o)' <=> EndedOn(o))
<1> SUFFICES ASSUME NEW o PROVE (EndedBefore(o)' <=> EndedBefore(o)) /\ (EndedOn(o)' <=> EndedOn(o))
  OBVIOUS
<1>1. \A x : ReadTo(x)' <=> ReadTo(x)
  BY ReadToKept, Zenon
<1>2. EndedBefore(o)' <=> EndedBefore(o)
  BY <1>1 DEF EndedBefore
<1>3. EndedOn(o)' <=> EndedOn(o)
  BY DEF EndedOn
<1> QED
  BY <1>2, <1>3

LEMMA DepotInvInit == Init /\ task = "depot" => DepotInv
<1> SUFFICES ASSUME Init, task = "depot" PROVE DepotInv
  OBVIOUS
<1>1. DepotInit /\ at = "run"
  BY DEF Init, WorkerInit
<1>2. /\ DOMAIN depot = OfDepot /\ depot.all = NoItems /\ depot.pos = 0 /\ depot.swiping = FALSE
      /\ DOMAIN chest = OfChest /\ chest.holds \in Contents /\ chest.offset = 0 /\ chest.told = NoItems
  BY <1>1 DEF DepotInit, OfDepot, OfChest
<1>3. IsTrue(NoItems)
  BY DEF IsTrue, NoItems
<1>4. 0 \in 0..Len(Materials)
  BY DepotAssumption
<1> QED
  BY <1>1, <1>2, <1>3, <1>4 DEF DepotInv, DepotTypeOK, DepotPhases, Begins

\* The swipe of the other thread ends at a place where a page may begin, and leaves no gap.
LEMMA SwipeInv ==
  ASSUME DepotInv, Swipe
  PROVE  DepotInv'
<1>0. DepotTypeOK /\ depot.swiping /\ at \notin {"run", "picture"}
  BY DEF DepotInv, DepotTypeOK, Swipe
<1>1. /\ depot'.all = depot.all /\ depot'.pos = depot.pos /\ depot'.page = depot.page /\ depot'.swiping = FALSE
      /\ DOMAIN depot' = OfDepot /\ at' = at /\ stopped' = stopped
  BY <1>0 DEF Swipe, Stays, worker, DepotTypeOK, OfDepot
<1>2. PageSize \in Nat \ {0} /\ Len(chest.holds) \in Nat /\ chest.offset \in Nat
  BY <1>0, DepotAssumption DEF DepotTypeOK, Begins
<1>3. CASE \E way \in 1..PageSize : chest' = [chest EXCEPT !.offset = Min({@ + way, Max({0, Len(chest.holds) - PageSize})})]
  <2> DEFINE cap == IF Len(chest.holds) - PageSize > 0 THEN Len(chest.holds) - PageSize ELSE 0
  <2>1. PICK way \in 1..PageSize : chest' = [chest EXCEPT !.offset = Min({@ + way, Max({0, Len(chest.holds) - PageSize})})]
    BY <1>3
  <2>2. Max({0, Len(chest.holds) - PageSize}) = cap
    <3>1. cap \in {0, Len(chest.holds) - PageSize} /\ \A i \in {0, Len(chest.holds) - PageSize} : i <= cap
      BY <1>2
    <3>2. \A i \in {0, Len(chest.holds) - PageSize} : (\A j \in {0, Len(chest.holds) - PageSize} : j <= i) => i = cap
      BY <1>2
    <3> HIDE DEF cap
    <3> QED
      BY <3>1, <3>2 DEF Max
  <2>3. cap \in Nat /\ (cap = 0 \/ cap + PageSize <= Len(chest.holds)) /\ cap + PageSize >= Len(chest.holds)
    BY <1>2
  <2> HIDE DEF cap
  <2>4. chest.offset <= cap
    BY <1>0, <1>2, <2>3 DEF DepotTypeOK, Begins
  <2>5. Min({chest.offset + way, cap}) = IF chest.offset + way <= cap THEN chest.offset + way ELSE cap
    <3>1. {chest.offset + way, cap} \in SUBSET Nat
      BY <1>2, <2>3
    <3>2. Min({chest.offset + way, cap}) \in {chest.offset + way, cap} /\ \A i \in {chest.offset + way, cap} : Min({chest.offset + way, cap}) <= i
      BY <3>1, LeastOf
    <3> QED
      BY <1>2, <2>3, <3>2
  <2>6. /\ DOMAIN chest' = OfChest /\ chest'.holds = chest.holds /\ chest'.unread = chest.unread /\ chest'.doubt = chest.doubt
        /\ chest'.told = chest.told
        /\ chest'.offset = IF chest.offset + way <= cap THEN chest.offset + way ELSE cap
    BY <1>0, <2>1, <2>2, <2>5 DEF DepotTypeOK, OfChest
  <2>7. /\ chest'.offset \in Nat /\ chest'.offset \in chest.offset..(chest.offset + PageSize)
        /\ chest'.offset = 0 \/ chest'.offset + PageSize <= Len(chest.holds)
        /\ chest'.offset > chest.offset \/ chest.offset + PageSize >= Len(chest.holds)
    <3>1. CASE chest.offset + way <= cap
      BY <1>2, <2>3, <2>4, <2>6, <3>1
    <3>2. CASE ~(chest.offset + way <= cap)
      <4>1. chest'.offset = cap /\ cap <= chest.offset + PageSize
        BY <1>2, <2>3, <2>6, <3>2
      <4> QED
        BY <1>2, <2>3, <2>4, <4>1
    <3> QED
      BY <3>1, <3>2
  <2>8. DepotTypeOK'
    BY <1>0, <1>1, <2>6, <2>7, Zenon DEF DepotTypeOK, Begins, IsTrue, PageAt
  <2>9. ASSUME DepotPhases PROVE DepotPhases'
    <3>1. \A o \in Nat : TakenAt(o) => TakenAt(o)'
      BY <1>0, <1>1, <2>6, <2>7 DEF TakenAt, Begins
    <3>2. \A o : (ReadTo(o) <=> ReadTo(o)') /\ (EndedBefore(o) <=> EndedBefore(o)') /\ (EndedOn(o) <=> EndedOn(o)')
      BY <1>1, <2>6, ReadToKept, EndKept, Zenon
    <3>3. \A o : PageAt(o)' = PageAt(o)
      BY <2>6, Zenon DEF PageAt
    <3> QED
      BY <1>0, <1>1, <2>6, <2>9, <3>1, <3>2, <3>3, Zenon DEF DepotPhases
  <2> QED
    BY <1>1, <2>6, <2>8, <2>9 DEF DepotInv
<1>4. CASE chest' = [chest EXCEPT !.doubt = TRUE]
  <2>1. /\ DOMAIN chest' = OfChest /\ chest'.holds = chest.holds /\ chest'.offset = chest.offset /\ chest'.doubt = TRUE
        /\ chest'.told = chest.told
    BY <1>0, <1>4 DEF DepotTypeOK, OfChest
  <2>2. DepotTypeOK'
    BY <1>0, <1>1, <2>1, Zenon DEF DepotTypeOK, Begins, IsTrue, PageAt
  <2> QED
    BY <2>1, <2>2 DEF DepotInv
<1> QED
  BY <1>3, <1>4, Zenon DEF Swipe

\* The other steps but for the analysis of a page
LEMMA DepotGoesOn ==
  ASSUME DepotInv, EnterDepot \/ TakePicture \/ NextPage \/ DepotDone
  PROVE  DepotInv'
<1>0. DepotTypeOK
  BY DEF DepotInv
<1>1. CASE EnterDepot
  <2>1. at = "run" /\ depot' = depot /\ chest' = chest /\ stopped' = stopped /\ (at' = IF stopped THEN "failed" ELSE "picture")
    BY <1>1 DEF EnterDepot, Goes
  <2>2. DepotTypeOK'
    BY <1>0, <2>1 DEF DepotTypeOK, Begins, IsTrue
  <2>3. ASSUME DepotPhases, ~stopped PROVE DepotPhases'
    <3>1. depot'.pos = 0 /\ chest'.offset = 0 /\ at' = "picture"
      BY <2>1, <2>3 DEF DepotPhases
    <3>2. ReadTo(0)'
      BY DepotAssumption, <1>0, <2>1 DEF ReadTo, DepotTypeOK
    <3> QED
      BY <3>1, <3>2 DEF DepotPhases, EndedBefore, ReadTo
  <2> QED
    BY <2>1, <2>2, <2>3 DEF DepotInv
<1>2. CASE TakePicture
  <2>1. at = "picture" /\ at' = "analyze" /\ chest' = chest /\ stopped' = stopped
    BY <1>2 DEF TakePicture, Goes
  <2>2. DOMAIN depot' = OfDepot /\ depot'.all = depot.all /\ depot'.pos = depot.pos /\ depot'.page = PageAt(chest.offset) /\ depot'.swiping = TRUE
    BY <1>0, <1>2 DEF TakePicture, DepotTypeOK, OfDepot
  <2>3. PICK o \in Nat : o = chest.offset
    BY <1>0 DEF DepotTypeOK, Begins
  <2>4. PageAt(o)' = PageAt(o) /\ Begins(o) /\ Begins(o)' /\ depot'.page = PageAt(o)'
    BY <1>0, <2>1, <2>2, <2>3 DEF DepotTypeOK, PageAt, Begins
  <2>5. DepotTypeOK'
    BY <1>0, <2>1, <2>2, <2>3, <2>4, Zenon DEF DepotTypeOK, Begins, IsTrue
  <2>6. ASSUME DepotPhases PROVE DepotPhases'
    <3>0. ReadTo(o) /\ EndedBefore(o)
      BY <2>1, <2>3, <2>6 DEF DepotPhases
    <3>1. ReadTo(o)' /\ EndedBefore(o)'
      BY <2>1, <2>2, <3>0, ReadToKept, EndKept, Zenon
    <3>2. TakenAt(o)'
      BY <2>1, <2>2, <2>3, <2>4, Zenon DEF TakenAt
    <3> QED
      BY <2>1, <2>4, <3>1, <3>2, Zenon DEF DepotPhases
  <2> QED
    BY <2>1, <2>5, <2>6 DEF DepotInv
<1>3. CASE NextPage
  <2>1. at = "wait" /\ ~depot.swiping /\ depot' = depot /\ at' = "picture" /\ stopped' = stopped
    BY <1>3 DEF NextPage, Goes
  <2>2. /\ DOMAIN chest' = OfChest /\ chest'.holds = chest.holds /\ chest'.offset = chest.offset /\ chest'.doubt = chest.doubt
        /\ chest'.unread = chest.unread /\ chest'.told = depot.all
    BY <1>0, <1>3 DEF NextPage, Tell, DepotTypeOK, OfChest
  <2>3. DepotTypeOK'
    BY <1>0, <2>1, <2>2, Zenon DEF DepotTypeOK, Begins, IsTrue
  <2>4. ASSUME DepotPhases PROVE DepotPhases'
    <3>1. PICK o \in Nat : TakenAt(o) /\ ReadTo(o + PageSize) /\ EndedOn(o)
      BY <2>1, <2>4 DEF DepotPhases
    <3>2. /\ chest.offset \in o..(o + PageSize) /\ (chest.offset > o \/ o + PageSize >= Len(chest.holds)) /\ Len(chest.holds) \in Nat
          /\ PageSize \in Nat
      BY <1>0, <2>1, <3>1, DepotAssumption DEF TakenAt, DepotTypeOK
    <3>3. \A x \in Nat : x <= o + PageSize => ReadTo(x)
      <4> SUFFICES ASSUME NEW x \in Nat, x <= o + PageSize, NEW y \in DOMAIN chest.holds, y <= x PROVE y <= o + PageSize
        BY <3>1 DEF ReadTo
      <4>1. y \in Nat
        BY <1>0, DepotAssumption DEF DepotTypeOK
      <4> QED
        BY <3>2, <4>1
    <3>4. EndedBefore(chest.offset)
      <4> SUFFICES ASSUME depot.pos # 0
                   PROVE  \E x \in DOMAIN chest.holds : /\ chest.holds[x] = Materials[depot.pos] /\ ReadTo(x)
                                                        /\ x < chest.offset + PageSize \/ chest.offset + PageSize >= Len(chest.holds)
        BY Zenon DEF EndedBefore
      <4>1. PICK x \in DOMAIN chest.holds : chest.holds[x] = Materials[depot.pos] /\ x <= o + PageSize
        BY <3>1 DEF EndedOn
      <4>2. x \in Nat
        BY <1>0, DepotAssumption DEF DepotTypeOK
      <4>3. x < chest.offset + PageSize \/ chest.offset + PageSize >= Len(chest.holds)
        BY <3>2, <4>1, <4>2
      <4> QED
        BY <3>3, <4>1, <4>2, <4>3
    <3>5. ReadTo(chest.offset)
      BY <3>2, <3>3
    <3>6. PICK n : n = chest.offset
      OBVIOUS
    <3>7. ReadTo(n)' /\ EndedBefore(n)'
      BY <2>1, <2>2, <3>4, <3>5, <3>6, ReadToKept, EndKept, Zenon
    <3> QED
      BY <2>1, <2>2, <3>6, <3>7, Zenon DEF DepotPhases
  <2> QED
    BY <2>1, <2>2, <2>3, <2>4 DEF DepotInv
<1>4. CASE DepotDone
  <2>1. at = "done" /\ depot' = depot /\ at' \in {"failed", "succeeded"} /\ stopped' = stopped
    BY <1>4 DEF DepotDone, Goes
  <2>2. /\ DOMAIN chest' = OfChest /\ chest'.holds = chest.holds /\ chest'.offset = chest.offset /\ chest'.doubt = chest.doubt
        /\ chest'.unread = chest.unread /\ chest'.told = depot.all
    BY <1>0, <1>4 DEF DepotDone, Tell, DepotTypeOK, OfChest
  <2>3. DepotTypeOK'
    BY <1>0, <2>1, <2>2, Zenon DEF DepotTypeOK, Begins, IsTrue
  <2>4. ASSUME DepotPhases PROVE DepotPhases'
    BY <2>1, <2>2, <2>4, Zenon DEF DepotPhases, ReadTo
  <2> QED
    BY <2>1, <2>2, <2>3, <2>4 DEF DepotInv
<1> QED
  BY <1>1, <1>2, <1>3, <1>4

\* What of the depot comes before the first item that is new is found if it is on the page.
LEMMA KnownIsFound ==
  ASSUME chest.holds \in Contents, NEW o \in Nat, Begins(o),
         NEW x \in DOMAIN chest.holds, x > o, x <= o + PageSize, \A y \in 1..x : chest.holds[y] \notin Novelties
  PROVE  x - o \in DOMAIN AnalyzeAllItems(PageAt(o)) /\ PageAt(o)[x - o] = chest.holds[x]
<1> DEFINE page == PageAt(o)
<1>1. /\ Len(chest.holds) \in Nat /\ PageSize \in Nat /\ x \in 1..Len(chest.holds)
      /\ Len(page) = IF o + PageSize <= Len(chest.holds) THEN PageSize ELSE Len(chest.holds) - o
      /\ DOMAIN page = 1..Len(page) /\ IsPage(page)
      /\ \A k \in DOMAIN page : o + k \in DOMAIN chest.holds /\ page[k] = chest.holds[o + k]
  BY PageOfChest, DepotAssumption
<1> HIDE DEF page
<1>2. x - o \in DOMAIN page /\ o + (x - o) = x
  BY <1>1
<1>3. KnownTo(page, x - o)
  <2> SUFFICES ASSUME NEW j \in 1..(x - o) PROVE page[j] \notin Novelties
    BY DEF KnownTo
  <2>1. j \in DOMAIN page /\ o + j \in 1..x
    BY <1>1, <1>2
  <2> QED
    BY <1>1, <2>1
<1>4. page[x - o] = chest.holds[x] /\ x - o \in DOMAIN AnalyzeAllItems(page)
  BY <1>1, <1>2, <1>3, FoundOnPage
<1> QED
  BY <1>4 DEF page

\* A page is analyzed: all that is known on it is reported or was not readable; and if it
\* ends as the one before, nothing that is known comes after it.
LEMMA AnalyzePageInv ==
  ASSUME DepotInv, AnalyzePage
  PROVE  DepotInv'
<1>0. DepotTypeOK /\ at = "analyze" /\ stopped' = stopped
  BY DEF DepotInv, AnalyzePage, Goes
<1>1. PICK o \in Nat : /\ Begins(o) /\ depot.page = PageAt(o)
                       /\ ~chest.doubt /\ ~stopped => TakenAt(o) /\ ReadTo(o) /\ EndedBefore(o)
  <2>1. CASE ~chest.doubt /\ ~stopped
    BY <1>0, <2>1 DEF DepotInv, DepotPhases, TakenAt
  <2>2. CASE ~(~chest.doubt /\ ~stopped)
    BY <1>0, <2>2 DEF DepotTypeOK
  <2> QED
    BY <2>1, <2>2
<1>2. PICK page : page = depot.page
  OBVIOUS
<1>3. PICK found : found = AnalyzeAllItems(page)
  OBVIOUS
<1>4. PICK unread \in {{}} \cup {{k} : k \in DOMAIN found} :
        /\ chest' = [chest EXCEPT !.unread = @ \cup {depot.page[k] : k \in unread},
                                  !.doubt = IF unread # {} /\ DOMAIN found \ unread = {} THEN TRUE ELSE @]
        /\ IF DOMAIN found \ unread = {} \/ found[Max(DOMAIN found)] = depot.pos THEN UNCHANGED depot /\ Goes("done")
           ELSE depot' = [depot EXCEPT !.pos = found[Max(DOMAIN found)], !.all = Merged(@, ItemsOf(depot.page, DOMAIN found \ unread))]
                /\ Goes("wait")
  BY <1>2, <1>3, Zenon DEF AnalyzePage
<1>5. PICK read : read = DOMAIN found \ unread
  OBVIOUS
<1>6. PICK items : items = ItemsOf(page, read)
  OBVIOUS
<1>7. PICK last : last = Max(DOMAIN found)
  OBVIOUS
<1>8. /\ chest' = [chest EXCEPT !.unread = @ \cup {page[k] : k \in unread}, !.doubt = IF unread # {} /\ read = {} THEN TRUE ELSE @]
      /\ IF read = {} \/ found[last] = depot.pos THEN UNCHANGED depot /\ Goes("done")
         ELSE depot' = [depot EXCEPT !.pos = found[last], !.all = Merged(@, items)] /\ Goes("wait")
  <2>1. ItemsOf(depot.page, DOMAIN found \ unread) = items
    BY <1>2, <1>5, <1>6, Zenon
  <2>2. {depot.page[k] : k \in unread} = {page[k] : k \in unread}
    BY <1>2
  <2> QED
    BY <1>4, <1>5, <1>7, <2>1, <2>2, Zenon
<1>9. /\ DOMAIN chest' = OfChest /\ chest'.holds = chest.holds /\ chest'.offset = chest.offset /\ chest'.told = chest.told
      /\ chest'.unread = chest.unread \cup {page[k] : k \in unread} /\ chest'.doubt = (IF unread # {} /\ read = {} THEN TRUE ELSE chest.doubt)
  BY <1>0, <1>8 DEF DepotTypeOK, OfChest
<1>10. IsTrue(items) /\ \A k \in read : found[k] \in DOMAIN items
  <2>1. page = PageAt(o) /\ found = AnalyzeAllItems(PageAt(o))
    BY <1>1, <1>2, <1>3
  <2>3. read \in SUBSET DOMAIN AnalyzeAllItems(PageAt(o))
    BY <1>5, <2>1
  <2>2. chest.holds \in Contents
    BY <1>0 DEF DepotTypeOK
  <2> QED
    BY <1>1, <1>6, <2>1, <2>2, <2>3, ItemsOfPage, Zenon
<1>11. /\ Len(chest.holds) \in Nat /\ PageSize \in Nat /\ DOMAIN chest.holds = 1..Len(chest.holds) /\ chest.holds \in Contents
       /\ DOMAIN Materials = 1..Len(Materials) /\ Len(Materials) \in Nat
  BY <1>0, DepotAssumption DEF DepotTypeOK
<1>12. \A k \in DOMAIN found : /\ k \in 1..PageSize /\ o + k \in DOMAIN chest.holds
                               /\ found[k] \in DOMAIN Materials /\ Materials[found[k]] = page[k] /\ chest.holds[o + k] = page[k]
  <2>1. \A k \in DOMAIN page : k \in 1..PageSize /\ o + k \in DOMAIN chest.holds /\ page[k] = chest.holds[o + k]
    BY <1>1, <1>2, <1>11, PageOfChest
  <2>2. IsPage(page)
    BY <1>1, <1>2, <1>11, PageOfChest
  <2>3. \A k \in DOMAIN found : k \in DOMAIN page /\ found[k] \in DOMAIN Materials /\ Materials[found[k]] = page[k]
    BY <1>3, <2>2, FoundOnPage
  <2> QED
    BY <2>1, <2>3
<1>13. \A x \in DOMAIN chest.holds : x > o /\ x <= o + PageSize /\ (\A y \in 1..x : chest.holds[y] \notin Novelties)
          => x - o \in DOMAIN found /\ page[x - o] = chest.holds[x]
  BY <1>1, <1>2, <1>3, <1>11, KnownIsFound
<1>14. DOMAIN found # {} => last \in DOMAIN found /\ \A k \in DOMAIN found : k <= last
  <2>1. DOMAIN found \in SUBSET (0..PageSize)
    BY <1>11, <1>12
  <2> QED
    BY <1>7, <1>11, <2>1, GreatestOf
<1>15. CASE ~(read = {} \/ found[last] = depot.pos)
  <2>1. depot' = [depot EXCEPT !.pos = found[last], !.all = Merged(@, items)] /\ at' = "wait"
    BY <1>8, <1>15 DEF Goes
  <2>2. /\ DOMAIN depot' = OfDepot /\ depot'.pos = found[last] /\ depot'.all = Merged(depot.all, items)
        /\ depot'.page = depot.page /\ depot'.swiping = depot.swiping
    BY <1>0, <2>1 DEF DepotTypeOK, OfDepot
  <2>3. IsTrue(depot'.all) /\ DOMAIN depot'.all = DOMAIN depot.all \cup DOMAIN items
    BY <1>0, <1>10, <2>2, TrueTogether DEF DepotTypeOK
  <2>4. last \in DOMAIN found
    BY <1>5, <1>14, <1>15
  <2>5. depot'.pos \in 0..Len(Materials)
    BY <1>11, <1>12, <2>2, <2>4
  <2>6. IsTrue(depot.all)' /\ IsTrue(chest.told)'
    BY <1>0, <1>9, <2>3 DEF DepotTypeOK, IsTrue
  <2>7. DepotTypeOK'
    <3>1. Begins(chest.offset)'
      BY <1>0, <1>9 DEF DepotTypeOK, Begins
    <3> QED
      BY <1>0, <1>9, <2>1, <2>2, <2>5, <2>6, <3>1, Zenon DEF DepotTypeOK
  <2>8. ASSUME ~chest'.doubt, ~stopped' PROVE DepotPhases'
    <3>1. ReadTo(o) /\ TakenAt(o)
      BY <1>0, <1>1, <1>9, <2>8
    <3>2. TakenAt(o)'
      BY <1>9, <2>2, <3>1 DEF TakenAt, Begins
    <3>3. EndedOn(o)'
      <4>1. o + last \in DOMAIN chest.holds /\ chest.holds[o + last] = Materials[depot'.pos] /\ o + last <= o + PageSize
        BY <1>11, <1>12, <2>2, <2>4
      <4> QED
        BY <1>9, <4>1 DEF EndedOn
    <3>4. ReadTo(o + PageSize)'
      <4> SUFFICES ASSUME NEW x \in DOMAIN chest.holds, x <= o + PageSize, \A y \in 1..x : chest.holds[y] \notin Novelties
                   PROVE  chest.holds[x] \in chest'.unread \/ \E i \in DOMAIN depot'.all : Materials[i] = chest.holds[x]
        BY <1>9 DEF ReadTo
      <4>1. CASE x <= o
        BY <1>9, <2>3, <3>1, <4>1 DEF ReadTo
      <4>2. CASE ~(x <= o)
        <5>1. x > o
          BY <1>11, <4>2
        <5>2. PICK k \in DOMAIN found : page[k] = chest.holds[x]
          BY <1>13, <5>1
        <5>3. CASE k \in unread
          BY <1>9, <5>2, <5>3
        <5>4. CASE k \notin unread
          BY <1>5, <1>10, <1>12, <2>3, <5>2, <5>4
        <5> QED
          BY <5>3, <5>4
      <4> QED
        BY <4>1, <4>2
    <3> QED
      BY <2>1, <3>2, <3>3, <3>4, Zenon DEF DepotPhases
  <2> QED
    BY <2>7, <2>8 DEF DepotInv
<1>16. CASE read = {} \/ found[last] = depot.pos
  <2>1. depot' = depot /\ at' = "done"
    BY <1>8, <1>16 DEF Goes
  <2>2. DepotTypeOK'
    BY <1>0, <1>9, <2>1, Zenon DEF DepotTypeOK, Begins, IsTrue
  <2>3. ASSUME ~chest'.doubt, ~stopped' PROVE DepotPhases'
    <3>1. ReadTo(o) /\ EndedBefore(o) /\ (read = {} => unread = {})
      BY <1>0, <1>1, <1>9, <2>3
    <3>2. ASSUME NEW x \in DOMAIN chest.holds, \A y \in 1..x : chest.holds[y] \notin Novelties
          PROVE  chest.holds[x] \in chest'.unread \/ \E i \in DOMAIN depot.all : Materials[i] = chest.holds[x]
      <4>0. x \in 1..Len(chest.holds)
        BY <1>11
      <4>1. \A z \in 1..x : z \in DOMAIN chest.holds /\ \A y \in 1..z : chest.holds[y] \notin Novelties
        BY <1>11, <3>2, <4>0
      <4>2. CASE read = {}
        <5>1. DOMAIN found = {}
          BY <1>5, <3>1, <4>2
        <5>2. x <= o
          <6> SUFFICES ASSUME x > o PROVE FALSE
            BY <4>0
          <6>1. o + 1 \in 1..x /\ o + 1 > o /\ o + 1 <= o + PageSize
            BY <4>0, DepotAssumption
          <6> QED
            BY <1>13, <4>1, <5>1, <6>1
        <5> QED
          BY <1>9, <3>1, <3>2, <5>2 DEF ReadTo
      <4>3. CASE read # {}
        <5>1. last \in DOMAIN found /\ (\A k \in DOMAIN found : k <= last) /\ found[last] = depot.pos
          BY <1>5, <1>14, <1>16, <4>3
        <5>2. /\ o + last \in DOMAIN chest.holds /\ depot.pos \in DOMAIN Materials /\ depot.pos # 0
              /\ chest.holds[o + last] = Materials[depot.pos] /\ last \in Nat
          BY <1>11, <1>12, <5>1
        <5>3. PICK z \in DOMAIN chest.holds : /\ chest.holds[z] = Materials[depot.pos] /\ ReadTo(z)
                                              /\ z < o + PageSize \/ o + PageSize >= Len(chest.holds)
          BY <3>1, <5>2 DEF EndedBefore
        <5>4. z = o + last
          <6>1. \A i, j \in DOMAIN chest.holds : i < j /\ chest.holds[i] = Materials[depot.pos] /\ chest.holds[j] = Materials[depot.pos]
                   => depot.pos < depot.pos
            BY <1>11, <5>2, DepotAssumption
          <6>2. ~(depot.pos < depot.pos)
            BY <1>11, <5>2
          <6>3. z \in Nat /\ o + last \in Nat
            BY <5>2, <1>11
          <6> QED
            BY <5>2, <5>3, <6>1, <6>2, <6>3
        <5>5. x <= z
          <6> SUFFICES ASSUME x > z PROVE FALSE
            BY <4>0, <1>11
          <6>1. z + 1 \in 1..x /\ z + 1 > o /\ z + 1 <= o + PageSize /\ (z + 1) - o = last + 1
            BY <1>11, <4>0, <5>2, <5>3, <5>4
          <6>2. last + 1 \in DOMAIN found
            BY <1>13, <4>1, <6>1
          <6> QED
            BY <5>1, <5>2, <6>2
        <5> QED
          BY <1>9, <3>2, <5>3, <5>5 DEF ReadTo
      <4> QED
        BY <4>2, <4>3
    <3>3. ReadTo(Len(chest.holds))'
      BY <1>9, <2>1, <3>2 DEF ReadTo
    <3> QED
      BY <2>1, <3>3, Zenon DEF DepotPhases
  <2> QED
    BY <2>2, <2>3 DEF DepotInv
<1> QED
  BY <1>15, <1>16

LEMMA DepotInvStep ==
  ASSUME DepotInv, [Next]_vars, task = "depot"
  PROVE  DepotInv'
<1>1. CASE DepotNext
  BY <1>1, SwipeInv, AnalyzePageInv, DepotGoesOn DEF DepotNext
<1>2. CASE UNCHANGED <<at, depot, chest>> /\ (stopped => stopped')
  <2>1. at' = at /\ depot' = depot /\ chest' = chest /\ (stopped => stopped')
    BY <1>2
  <2>2. DepotTypeOK'
    BY <2>1, Zenon DEF DepotInv, DepotTypeOK, Begins, IsTrue, PageAt
  <2>3. ASSUME DepotPhases PROVE DepotPhases'
    <3>1. \A o : (ReadTo(o) <=> ReadTo(o)') /\ (EndedBefore(o) <=> EndedBefore(o)') /\ (EndedOn(o) <=> EndedOn(o)')
      BY <2>1, ReadToKept, EndKept, Zenon
    <3>2. \A o : PageAt(o)' = PageAt(o) /\ (TakenAt(o) <=> TakenAt(o)')
      BY <2>1, Zenon DEF PageAt, TakenAt, Begins
    <3> QED
      BY <2>1, <2>3, <3>1, <3>2, Zenon DEF DepotPhases
  <2> QED
    BY <2>1, <2>2, <2>3 DEF DepotInv
<1> QED
  BY <1>1, <1>2, StepOfDepot

LEMMA DepotInvReported == DepotInv => DepotIsReported
<1> SUFFICES ASSUME DepotInv PROVE DepotIsReported
  OBVIOUS
<1>0. DepotTypeOK
  BY DEF DepotInv
<1>1. \A i \in DOMAIN chest.told : Materials[i] \in ToSet(chest.holds) /\ chest.told[i] = Quantity(Materials[i])
  BY <1>0 DEF DepotTypeOK, IsTrue
<1>2. ASSUME at \in {"succeeded", "failed"}, ~stopped, ~chest.doubt
      PROVE  KnownPart \ chest.unread \subseteq {Materials[i] : i \in DOMAIN chest.told}
  <2>1. ReadTo(Len(chest.holds)) /\ chest.told = depot.all
    BY <1>2 DEF DepotInv, DepotPhases
  <2>2. chest.holds \in Seq(Novelties \cup ToSet(Materials)) /\ Len(chest.holds) \in Nat /\ DOMAIN chest.holds = 1..Len(chest.holds)
    BY <1>0, DepotAssumption DEF DepotTypeOK
  <2> DEFINE novel == {i \in DOMAIN chest.holds : chest.holds[i] \in Novelties}
  <2>3. \A item \in KnownPart : \E x \in DOMAIN chest.holds : chest.holds[x] = item /\ \A y \in 1..x : chest.holds[y] \notin Novelties
    <3>1. CASE novel = {}
      <4>1. KnownPart = ToSet(chest.holds)
        BY <3>1 DEF KnownPart
      <4>2. \A item \in KnownPart : \E x \in DOMAIN chest.holds : chest.holds[x] = item
        BY <4>1 DEF ToSet
      <4>3. \A x \in DOMAIN chest.holds : \A y \in 1..x : y \in DOMAIN chest.holds
        BY <2>2
      <4> QED
        BY <3>1, <4>2, <4>3
    <3>2. CASE novel # {}
      <4>1. Min(novel) \in novel /\ \A i \in novel : Min(novel) <= i
        <5>1. novel \in SUBSET Nat
          BY <2>2
        <5> HIDE DEF novel
        <5> QED
          BY <3>2, <5>1, LeastOf
      <4>2. PICK n : n = Min(novel)
        OBVIOUS
      <4>3. n \in 1..Len(chest.holds) /\ \A i \in novel : n <= i
        BY <2>2, <4>1, <4>2
      <4>4. KnownPart = ToSet(SubSeq(chest.holds, 1, n - 1))
        BY <3>2, <4>2, Zenon DEF KnownPart
      <4> DEFINE part0 == SubSeq(chest.holds, 1, n - 1)
      <4>5. DOMAIN part0 = 1..(n - 1) /\ \A k \in 1..(n - 1) : part0[k] = chest.holds[k]
        BY <2>2, <4>3
      <4>6. ASSUME NEW k \in 1..(n - 1) PROVE k \in DOMAIN chest.holds /\ \A y \in 1..k : chest.holds[y] \notin Novelties
        <5>1. \A y \in 1..k : y \in DOMAIN chest.holds /\ ~(n <= y)
          BY <2>2, <4>3
        <5> QED
          BY <4>3, <5>1, <2>2
      <4> HIDE DEF part0
      <4>7. \A item \in ToSet(part0) : \E k \in 1..(n - 1) : chest.holds[k] = item
        BY <4>5 DEF ToSet
      <4> QED
        BY <4>4, <4>6, <4>7 DEF part0
    <3> QED
      BY <3>1, <3>2
  <2>4. \A x \in DOMAIN chest.holds : x <= Len(chest.holds)
    BY <2>2
  <2> QED
    BY <2>1, <2>3, <2>4 DEF ReadTo
<1> QED
  BY <1>1, <1>2 DEF DepotIsReported
-----------------------------------------------------------------------------
RecordsInv ==
  /\ task = "reclaim" => ReclaimInv
  /\ task = "explore" => TripInv
  /\ task = "drops" => DropInv
  /\ task = "climb" => ClimbInv
  /\ task = "depot" => DepotInv

\* What is kept in a record has happened: each drop is added up and reported once, gold
\* and badges are those of the camp, an expedition knows its own members and does not
\* spend more than it may, a stage is tried as often as planned and with those recruits
\* that were wanted most, and what is reported of the depot is there and is all of it
\* (StageDropsTaskPlugin, ReportDataTask, Reclamation*, Roguelike*, SSSStageManagerTask,
\* SSSDropRewardsTaskPlugin, DepotRecognitionTask).
THEOREM RecordsOfWhatHappened == Spec => []RecordsAreTrue
<1>1. Init => RecordsInv
  <2> SUFFICES ASSUME Init PROVE RecordsInv
    OBVIOUS
  <2>1. /\ task = "reclaim" => ReclaimInv
        /\ task = "explore" => TripInv
        /\ task = "drops" => DropInv
    BY ReclaimStarts, TripStarts, DropStarts DEF Init, WorkerInit
  <2> QED
    BY <2>1, ClimbInvInit, DepotInvInit DEF RecordsInv
<1>2. RecordsInv /\ [Next]_vars => RecordsInv'
  <2> SUFFICES ASSUME RecordsInv, [Next]_vars PROVE RecordsInv'
    OBVIOUS
  <2>1. task' = task
    BY TaskKept
  <2>2. task = "reclaim" => ReclaimInv'
    BY StepOfReclaim, ReclaimKeeps, ReclaimStops DEF RecordsInv
  <2>3. task = "explore" => TripInv'
    BY StepOfTrip, TripKeeps, TripStops DEF RecordsInv
  <2>4. task = "drops" => DropInv'
    BY StepOfDrops, DropKeeps, DropsStop DEF RecordsInv
  <2>5. task = "climb" => ClimbInv'
    BY ClimbInvStep DEF RecordsInv
  <2>6. task = "depot" => DepotInv'
    BY DepotInvStep DEF RecordsInv
  <2> QED
    BY <2>1, <2>2, <2>3, <2>4, <2>5, <2>6 DEF RecordsInv
<1>3. RecordsInv => RecordsAreTrue
  <2> SUFFICES ASSUME RecordsInv PROVE RecordsAreTrue
    OBVIOUS
  <2>1. ReclamationIsTrue /\ ExpeditionIsOwn /\ DropsAreReported
    BY Zenon, ReclaimIsRight, TripIsRight, DropsAreRight DEF RecordsInv, ReclamationIsTrue, ExpeditionIsOwn, DropsAreReported
  <2>2. StagesAreTried
    BY Zenon, ClimbInvStages DEF RecordsInv, StagesAreTried
  <2>3. DepotIsReported
    BY Zenon, DepotInvReported DEF RecordsInv, DepotIsReported
  <2> QED
    BY <2>1, <2>2, <2>3 DEF RecordsAreTrue
<1> QED
  BY <1>1, <1>2, <1>3, PTL DEF Spec
==============================================================================
