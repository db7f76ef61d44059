-------------------------- MODULE BattleFormation --------------------------
(***************************************************************************)
(* The squad for a plan: for each group that the plan names one operator   *)
(* is selected, whoever of it is seen first.  A click on an operator that  *)
(* is selected already lets him go again.  The groups that are left over   *)
(* from a try that failed are still there in the next one, which adds all  *)
(* of them once more.                                                      *)
(***************************************************************************)
EXTENDS Worker, FiniteSets

CONSTANTS
  Recruit,           \* the operators that groups name
  Group,             \* the groups of the plan
  FormationRetries   \* retry_times, 20 in the code

ASSUME FormationAssumption == FormationRetries \in Nat

VARIABLES
  form,    \* BattleFormationTask and the plan: who is in each group
  squad    \* the game: who is selected

formVars == <<worker, form, squad>>

\* todo: m_formation, how often each group is still to be served
FormInit ==
  /\ form \in [groups : [Group -> SUBSET Recruit \ {{}}], todo : {[g \in Group |-> 0]}, tries : {0}, random : BOOLEAN]
  /\ squad = {}

Wanted == {g \in Group : form.todo[g] > 0}

\* parse_formation adds every group; then the page is entered, which may fail.
FormBegins ==
  /\ at = "run"
  /\ form' = [form EXCEPT !.todo = [g \in Group |-> @[g] + 1], !.tries = @ + 1]
  /\ \/ RunFails(FormationRetries) /\ UNCHANGED squad
     \/ Sub(TRUE) /\ Goes("pick") /\ squad' = {}

\* Fault: a group that was served is served again.
PickOperAgain(o, g) ==
  /\ at = "pick" /\ ~stopped
  /\ g \in Wanted /\ o \in form.groups[g]
  /\ squad' = (squad \cup {o}) \ (squad \cap {o})
  /\ form' \in {form, [form EXCEPT !.todo[g] = @ - 1]}
  /\ Stays

\* select_opers_in_cur_page, one operator of a page that may show anybody again: he
\* serves one of the groups that he is in.
PickOper(o, g) ==
  /\ at = "pick" /\ ~stopped
  /\ g \in Wanted /\ o \in form.groups[g]
  /\ squad' = (squad \cup {o}) \ (squad \cap {o})
  /\ form' = [form EXCEPT !.todo[g] = @ - 1]
  /\ Stays

\* Fault: a stop does not end the loop over the pages.
ConfirmSquadWhenFull ==
  /\ at = "pick" /\ Wanted = {}
  /\ IF form.random THEN \E found \in BOOLEAN : IF found THEN Sub(found) /\ Goes("succeeded") ELSE RunFails(FormationRetries)
                    ELSE Goes("succeeded")
  /\ UNCHANGED <<form, squad>>

\* A stop, or nothing left to serve, ends the loop over the pages, and nothing else does.
ConfirmSquad ==
  /\ at = "pick" /\ (stopped \/ Wanted = {})
  /\ IF form.random THEN \E found \in BOOLEAN : IF found THEN Sub(found) /\ Goes("succeeded") ELSE RunFails(FormationRetries)
                    ELSE Goes("succeeded")
  /\ UNCHANGED <<form, squad>>

FormNext == FormBegins \/ ConfirmSquad \/ \E o \in Recruit, g \in Group : PickOper(o, g)
-----------------------------------------------------------------------------
Disjoint == \A g, h \in Group : g # h => form.groups[g] \cap form.groups[h] = {}

\* A squad that was not stopped has one operator of each group and nobody else, if no
\* operator is in two groups and the page was entered at the first try.
OneOfEachGroup ==
  task = "formation" /\ at = "succeeded" /\ ~stopped /\ form.tries = 1 /\ Disjoint =>
    /\ squad \subseteq UNION {form.groups[g] : g \in Group}
    /\ \A g \in Group : \E o \in form.groups[g] : squad \cap form.groups[g] = {o}
-----------------------------------------------------------------------------
(***************************************************************************)
(* The allocation: which operator of the squad plays which group of the    *)
(* plan, an exact cover searched for with dancing links.  The columns are  *)
(* the groups and the operators; a row takes an operator for a group, or   *)
(* for none.  The search always takes a column with the fewest rows; in    *)
(* which order it tries the rows, and which column among equals, hash      *)
(* tables decide.                                                          *)
(*                                                                         *)
(* A behaviour is one branch of the search; one that ends at a column      *)
(* without a row is undone by the code.                                    *)
(***************************************************************************)

CONSTANTS
  Char,       \* the operators
  CharGroup   \* the groups

\* The columns of the groups and of the operators are numbered apart.
ASSUME AllocationAssumption == CharGroup \cap Char = {}

VARIABLE alloc   \* the groups and the matrix of the search, and its answer_stack

allocVars == <<worker, alloc>>

\* A row is the set of its columns.
TakenRows(groups, have) == UNION {{{g, c} : c \in groups[g] \cap have} : g \in CharGroup}
LeftRows(groups, have) == {{c} : c \in UNION {groups[g] \cap have : g \in CharGroup}}

AllocInit ==
  alloc \in UNION {{[groups |-> gs, have |-> have, rows |-> TakenRows(gs, have) \cup LeftRows(gs, have),
                     columns |-> CharGroup \cup UNION LeftRows(gs, have), answer |-> << >>]
                      : gs \in [CharGroup -> SUBSET Char]} : have \in SUBSET Char}

RowsOf(column) == {r \in alloc.rows : column \in r}

\* Fault: only the rows of the column that was chosen are removed.
DanceOneColumn ==
  /\ at = "run" /\ alloc.columns # {}
  /\ \E column \in alloc.columns :
       /\ \A other \in alloc.columns : Cardinality(RowsOf(column)) <= Cardinality(RowsOf(other))
       /\ \E row \in RowsOf(column) :
            alloc' = [alloc EXCEPT !.rows = {r \in @ : column \notin r}, !.columns = @ \ row,
                                   !.answer = Append(@, row)]
  /\ Stays

\* dance: one row of a smallest column; all rows that share a column with it go.
Dance ==
  /\ at = "run" /\ alloc.columns # {}
  /\ \E column \in alloc.columns :
       /\ \A other \in alloc.columns : Cardinality(RowsOf(column)) <= Cardinality(RowsOf(other))
       /\ \E row \in RowsOf(column) :
            alloc' = [alloc EXCEPT !.rows = {r \in @ : r \cap row = {}}, !.columns = @ \ row,
                                   !.answer = Append(@, row)]
  /\ Stays

DeadEnd ==
  /\ at = "run" /\ \E column \in alloc.columns : RowsOf(column) = {}
  /\ Goes("failed")
  /\ UNCHANGED alloc

Covered == at = "run" /\ alloc.columns = {} /\ Goes("succeeded") /\ UNCHANGED alloc

AllocNext == Dance \/ DeadEnd \/ Covered

\* What is returned: the pairs of the answer, up to the first operator who is left out.
FirstLeft == {i \in DOMAIN alloc.answer : Cardinality(alloc.answer[i]) = 1}
Allocation == {alloc.answer[i] : i \in {j \in DOMAIN alloc.answer : \A k \in FirstLeft : j < k}}
-----------------------------------------------------------------------------
\* Every group is played by one operator of the squad that it names, and no operator
\* plays two.
AllocationIsExact ==
  task = "allocate" /\ at = "succeeded" =>
    LET pairs == {alloc.answer[i] : i \in DOMAIN alloc.answer} \ LeftRows(alloc.groups, alloc.have)
    IN /\ \A g \in CharGroup : \E c \in alloc.groups[g] \cap alloc.have : {p \in pairs : g \in p} = {{g, c}}
       /\ \A c \in Char : Cardinality({p \in pairs : c \in p}) <= 1
       /\ Allocation \subseteq pairs
=============================================================================
