------------------------- MODULE ProcessTaskProofs -------------------------
(***************************************************************************)
(* Whatever the graph of tasks is and whatever is on the screen, run()     *)
(* keeps its limits: ProcessTask's TypeOK and LimitKept, for any tasks,    *)
(* names, limits and number of retries.                                    *)
(***************************************************************************)
EXTENDS ProcessTask, WellFoundedInduction, TLAPS

Limited == NeverReduced \cap Counted

\* A limited task was counted whenever it acted, or is about to act.
ActedIsCounted ==
  \A t \in Limited : acted[t] + (IF pc = "before" /\ cur = t THEN 1 ELSE 0) <= exec[t]

\* No limit in force is above the highest of the task.
HighestIsHighest == \A t \in Task : PreTimes(CalcTimeLimit(given, t)) <= highest[t]

\* A limited task was counted no more often than the highest limit allows.
CountedWithinLimit == \A t \in Limited : highest[t] < Unlimited => exec[t] <= highest[t]

\* There is a retry left while run() has not failed.
RetriesLeft == pc \notin {"failed", "returned"} => retry <= RetryTimes

IInv == TypeOK /\ RetriesLeft /\ ActedIsCounted /\ HighestIsHighest /\ CountedWithinLimit

-----------------------------------------------------------------------------
\* The lists that tasks.json gives a task are lists of names.
LEMMA ListsOfNames ==
  ASSUME NEW t \in Task
  PROVE  /\ Info[t].next \in Seq(Name) /\ Info[t].exceededNext \in Seq(Name)
         /\ Info[t].onErrorNext \in Seq(Name) /\ Info[t].sub \in Seq(Name)
         /\ Info[t].maxTimes \in Nat
BY InfoAssumption DEF TaskInfo

\* Among the entries that m_times_limit has for a task there is a first one.
LEMMA FirstEntryIsEntry ==
  ASSUME NEW table, NEW t \in Task, Entries(table, t) # {}
  PROVE  FirstEntry(table, t) \in Entries(table, t)
<1>1. Entries(table, t) \subseteq Nat
  <2>1. Base[t] \in Seq(Name)
    BY InfoAssumption
  <2> QED
    BY <2>1 DEF Entries
<1> DEFINE Less == {ss \in Nat \X Nat : ss[1] < ss[2]}
<1>0. IsWellFoundedOn(Less, Nat)
  BY NatLessThanWellFounded DEF OpToRel
<1>2. PICK i \in Entries(table, t) : \A j \in Entries(table, t) : <<j, i>> \notin Less
  BY <1>0, <1>1, WFMin
<1>3. ASSUME NEW j \in Entries(table, t) PROVE i <= j
  <2>1. i \in Nat /\ j \in Nat
    BY <1>1
  <2>2. ~(j < i)
    BY <1>2, <2>1
  <2> HIDE DEF Less
  <2> QED
    BY <2>1, <2>2
<1> QED
  BY <1>3 DEF FirstEntry

\* calc_time_limit always finds a limit.
LEMMA LimitIsLimit ==
  ASSUME NEW table \in [Name -> Limit \cup {NotGiven}], NEW t \in Task
  PROVE  CalcTimeLimit(table, t) \in Limit
<1>1. CASE Entries(table, t) = {}
  BY <1>1, ListsOfNames DEF CalcTimeLimit, Limit
<1>2. CASE Entries(table, t) # {}
  <2> DEFINE i == FirstEntry(table, t)
  <2>1. i \in DOMAIN Base[t] /\ table[Base[t][i]] # NotGiven
    BY <1>2, FirstEntryIsEntry DEF Entries
  <2>2. Base[t] \in Seq(Name)
    BY InfoAssumption
  <2>3. Base[t][i] \in Name
    BY <2>1, <2>2
  <2>4. table[Base[t][i]] \in Limit
    BY <2>1, <2>3
  <2> QED
    BY <1>2, <2>4 DEF CalcTimeLimit
<1> QED
  BY <1>1, <1>2

\* The times a limit allows are a number, INT_MAX for the Post type.
LEMMA PreTimesIsNat ==
  ASSUME NEW limit \in Limit PROVE PreTimes(limit) \in Nat
BY TimesAssumption DEF PreTimes, Limit

-----------------------------------------------------------------------------
\* The object is started with nothing counted.
LEMMA InitIInv == Init => IInv
<1> SUFFICES ASSUME Init PROVE IInv
  OBVIOUS
<1>1. given \in [Name -> Limit \cup {NotGiven}] /\ given = GivenFirst
  BY LimitAssumption DEF Init
<1>2. \A t \in Task : PreTimes(CalcTimeLimit(given, t)) \in Nat
  BY <1>1, LimitIsLimit, PreTimesIsNat
<1>3. highest = [t \in Task |-> PreTimes(CalcTimeLimit(given, t))]
  BY <1>1 DEF Init
<1>4. highest \in [Task -> Nat] /\ HighestIsHighest
  BY <1>2, <1>3 DEF HighestIsHighest
<1>5. TypeOK
  <2>1. raw \in Seq(Name) /\ names \in Seq(Name) /\ subs \in Seq(Name)
    BY FirstAssumption DEF Init
  <2>2. allowed \in Limit
    BY DEF Init, Limit
  <2>3. retry \in 0..(RetryTimes + 1)
    BY TimesAssumption DEF Init
  <2>4. exec \in [Task -> Nat] /\ acted \in [Task -> Nat]
    BY DEF Init
  <2>5. result \in BOOLEAN /\ needExit \in BOOLEAN
    BY DEF Init
  <2>6. pc \in Pc /\ cur \in Task \cup {NoTask} /\ pc \notin {"chosen", "before", "after", "subs"}
    BY DEF Init, Pc
  <2> QED
    BY <1>1, <1>4, <2>1, <2>2, <2>3, <2>4, <2>5, <2>6 DEF TypeOK
<1>6. ActedIsCounted /\ CountedWithinLimit /\ RetriesLeft
  BY <1>4, TimesAssumption DEF Init, RetriesLeft, ActedIsCounted, CountedWithinLimit, Limited, NeverReduced, Counted
<1> QED
  BY <1>4, <1>5, <1>6 DEF IInv

-----------------------------------------------------------------------------
\* A step that counts nothing, changes no limit and does not lead to the click
\* keeps what is counted within the limits.
LEMMA CountsKept ==
  ASSUME IInv, UNCHANGED <<countVars, limitVars>>, pc' # "before"
  PROVE  ActedIsCounted' /\ HighestIsHighest' /\ CountedWithinLimit'
<1>1. \A t \in Limited : acted[t] \in Nat /\ exec[t] \in Nat
  BY DEF IInv, TypeOK, Limited, NeverReduced
<1> QED
  BY <1>1 DEF IInv, countVars, limitVars, ActedIsCounted, HighestIsHighest, CountedWithinLimit

\* The steps that only move on: they choose a list or a task, or return.
Moves ==
  \/ Run \/ NothingLeft \/ SeesExit \/ Exceeded
  \/ BeginSubs \/ SubDone \/ SubFails \/ ExceededLate \/ Stop \/ GoesOn
  \/ GivesUp \/ TriesAgain \/ OnErrorNext \/ Fails
  \/ \E visible \in SUBSET Task : Look(visible)

\* None of them counts, and none but Take leads to the click.
LEMMA MovesCountNothing ==
  ASSUME Moves PROVE UNCHANGED <<countVars, limitVars, needExit>> /\ pc' # "before"
BY DEF Moves, Run, NothingLeft, SeesExit, Exceeded, BeginSubs, SubDone, SubFails, ExceededLate,
   Stop, GoesOn, GivesUp, TriesAgain, OnErrorNext, Fails, Look, Recognise, RecognisesNothing,
   Goes, Returns

\* A list of names is run through from the front.
LEMMA TailOfNames == ASSUME NEW q \in Seq(Name), q # <<>> PROVE Tail(q) \in Seq(Name)
OBVIOUS

\* The empty list, which ends run(), is a list of names.
LEMMA NoNames == <<>> \in Seq(Name)
OBVIOUS

\* The lists stay lists of names.
LEMMA MovesKeepLists ==
  ASSUME TypeOK, Moves
  PROVE  raw' \in Seq(Name) /\ names' \in Seq(Name) /\ subs' \in Seq(Name)
<1>1. raw \in Seq(Name) /\ names \in Seq(Name) /\ subs \in Seq(Name)
  BY DEF TypeOK
<1>2. pc \in {"chosen", "before", "after", "subs"} => cur \in Task
  BY DEF TypeOK
<1>3. CASE Exceeded \/ ExceededLate \/ GoesOn
  <2>1. cur \in Task /\ UNCHANGED <<raw, subs>>
    BY <1>2, <1>3 DEF Exceeded, ExceededLate, GoesOn, Goes
  <2>2. names' = Info[cur].next \/ names' = Info[cur].exceededNext
    BY <1>3 DEF Exceeded, ExceededLate, GoesOn
  <2> QED
    BY <1>1, <2>1, <2>2, ListsOfNames
<1>4. CASE BeginSubs
  <2>1. cur \in Task
    BY <1>2, <1>4 DEF BeginSubs, Goes
  <2> QED
    BY <1>1, <1>4, <2>1, ListsOfNames DEF BeginSubs
<1>5. CASE SubDone
  BY <1>1, <1>5, TailOfNames DEF SubDone
<1>6. CASE SubFails
  BY <1>1, <1>6, NoNames DEF SubFails
<1>7. CASE OnErrorNext
  <2>1. cur \in Task
    BY <1>7 DEF OnErrorNext, Fallback, TypeOK
  <2>2. raw' = Info[cur].onErrorNext
    BY <1>7, <2>1, TaskAssumption DEF OnErrorNext, Fallback
  <2> QED
    BY <1>1, <1>7, <2>1, <2>2, ListsOfNames DEF OnErrorNext
<1>8. CASE Run
  BY <1>1, <1>8 DEF Run
<1>9. CASE \/ NothingLeft \/ SeesExit \/ Stop \/ GivesUp \/ TriesAgain \/ Fails
           \/ \E visible \in SUBSET Task : Look(visible)
  BY <1>1, <1>9 DEF NothingLeft, SeesExit, Stop, GivesUp, TriesAgain, Fails, Look, Recognise,
     RecognisesNothing
<1> QED
  BY <1>3, <1>4, <1>5, <1>6, <1>7, <1>8, <1>9 DEF Moves

\* A task is chosen before anything is done with it.
LEMMA MovesKeepCur ==
  ASSUME TypeOK, Moves
  PROVE  /\ pc' \in Pc /\ cur' \in Task \cup {NoTask}
         /\ pc' \in {"chosen", "before", "after", "subs"} => cur' \in Task
<1> USE DEF TypeOK, Pc, Goes, Returns
<1>1. CASE \E visible \in SUBSET Task : Look(visible)
  BY <1>1 DEF Look, Recognise, RecognisesNothing
<1>2. CASE Run \/ NothingLeft \/ SeesExit \/ Exceeded \/ ExceededLate \/ Stop \/ GoesOn
  BY <1>2 DEF Run, NothingLeft, SeesExit, Exceeded, ExceededLate, Stop, GoesOn
<1>3. CASE BeginSubs \/ SubDone \/ SubFails
  BY <1>3 DEF BeginSubs, SubDone, SubFails
<1>4. CASE GivesUp \/ TriesAgain \/ OnErrorNext \/ Fails
  BY <1>4 DEF GivesUp, TriesAgain, OnErrorNext, Fails
<1> QED
  BY <1>1, <1>2, <1>3, <1>4 DEF Moves

\* The retries are never overrun.
LEMMA RetryInRange ==
  ASSUME TypeOK, RetriesLeft, Moves
  PROVE  retry' \in 0..(RetryTimes + 1) /\ RetriesLeft'
<1>1. retry \in 0..(RetryTimes + 1) /\ RetryTimes \in Nat
  BY TimesAssumption DEF TypeOK
<1>2. CASE TriesAgain
  <2>1. retry <= RetryTimes
    BY <1>2 DEF TriesAgain, RetriesLeft
  <2> QED
    BY <1>1, <1>2, <2>1 DEF TriesAgain, RetriesLeft
<1>3. CASE SubFails \/ OnErrorNext \/ Run
  BY <1>1, <1>3 DEF SubFails, OnErrorNext, Run, RetriesLeft
<1>4. CASE retry' = retry /\ (pc' \notin {"failed", "returned"} => pc \notin {"failed", "returned"})
  BY <1>1, <1>4 DEF RetriesLeft
<1> QED
  BY <1>2, <1>3, <1>4 DEF Moves, NothingLeft, SeesExit, Exceeded, BeginSubs, SubDone,
     ExceededLate, Stop, GoesOn, GivesUp, Fails, Look, Recognise, RecognisesNothing, Goes, Returns

\* allowed is what calc_time_limit returned.
LEMMA MovesKeepAllowed ==
  ASSUME TypeOK, Moves
  PROVE  allowed' \in Limit /\ result' \in BOOLEAN
<1>1. given \in [Name -> Limit \cup {NotGiven}] /\ allowed \in Limit /\ result \in BOOLEAN
  BY DEF TypeOK
<1>2. CASE Exceeded
  <2>1. cur \in Task
    BY <1>2 DEF Exceeded, Goes, TypeOK
  <2>2. allowed' = CalcTimeLimit(given, cur) /\ result' = result
    BY <1>2 DEF Exceeded
  <2> QED
    BY <1>1, <2>1, <2>2, LimitIsLimit
<1>3. CASE ~Exceeded
  BY <1>1, <1>3 DEF Moves, Run, NothingLeft, SeesExit, BeginSubs, SubDone, SubFails, ExceededLate,
     Stop, GoesOn, GivesUp, TriesAgain, OnErrorNext, Fails, Look, Recognise, RecognisesNothing,
     Returns
<1> QED
  BY <1>2, <1>3

\* So the invariant is kept by every step but the count and the click.
LEMMA MovesKeepIInv == ASSUME IInv, Moves PROVE IInv'
<1>1. TypeOK /\ RetriesLeft
  BY DEF IInv
<1>2. UNCHANGED <<countVars, limitVars, needExit>> /\ pc' # "before"
  BY MovesCountNothing
<1>3. exec' \in [Task -> Nat] /\ acted' \in [Task -> Nat] /\ highest' \in [Task -> Nat]
      /\ given' \in [Name -> Limit \cup {NotGiven}]
  BY <1>1, <1>2 DEF TypeOK, countVars, limitVars
<1>4. needExit' \in BOOLEAN
  BY <1>1, <1>2 DEF TypeOK
<1>5. TypeOK'
  BY <1>1, <1>3, <1>4, MovesKeepLists, MovesKeepCur, RetryInRange, MovesKeepAllowed DEF TypeOK
<1> QED
  BY <1>1, <1>2, <1>5, CountsKept, RetryInRange DEF IInv

\* Taking a task counts it, but not beyond the limit in force.
LEMMA TakeKeepsIInv == ASSUME IInv, Take PROVE IInv'
<1>1. /\ given \in [Name -> Limit \cup {NotGiven}] /\ cur \in Task
      /\ exec \in [Task -> Nat] /\ acted \in [Task -> Nat] /\ highest \in [Task -> Nat]
  BY DEF IInv, TypeOK, Take, Goes
<1> DEFINE limit == CalcTimeLimit(given, cur)
<1>2. allowed' = limit /\ limit \in Limit /\ UNCHANGED <<given, highest, acted>>
  BY <1>1, LimitIsLimit DEF Take, limitVars
<1>3. exec' = IF cur \in Counted THEN [exec EXCEPT ![cur] = @ + 1] ELSE exec
  BY DEF Take
<1>4. PreTimes(limit) <= highest[cur]
  BY <1>1 DEF IInv, HighestIsHighest
<1>5. limit.type = "Pre" => exec[cur] < limit.times
  BY <1>1, <1>2 DEF Take, ExceededBefore, Limit
<1> HIDE DEF limit
<1>6. highest[cur] < Unlimited => exec[cur] + 1 <= highest[cur]
  BY <1>1, <1>2, <1>4, <1>5, TimesAssumption DEF PreTimes, Limit
<1>7. TypeOK'
  <2>1. exec' \in [Task -> Nat]
    BY <1>1, <1>3
  <2>2. retry' \in 0..(RetryTimes + 1) /\ pc' \in Pc
    BY TimesAssumption DEF Take, Goes, Pc
  <2> QED
    BY <1>1, <1>2, <2>1, <2>2 DEF IInv, TypeOK, Take
<1>8. ActedIsCounted'
  BY <1>1, <1>2, <1>3 DEF IInv, ActedIsCounted, Take, Goes, Limited, NeverReduced
<1>9. CountedWithinLimit'
  BY <1>1, <1>2, <1>3, <1>6 DEF IInv, CountedWithinLimit, Limited, NeverReduced
<1>10. HighestIsHighest' /\ RetriesLeft'
  BY <1>2, TimesAssumption DEF IInv, HighestIsHighest, RetriesLeft, Take
<1> QED
  BY <1>7, <1>8, <1>9, <1>10 DEF IInv

\* The click was counted, and gives back only tasks that something reduces.
LEMMA ActKeepsIInv == ASSUME IInv, Act PROVE IInv'
<1>1. /\ cur \in Task /\ pc = "before" /\ pc' = "after" /\ UNCHANGED <<given, highest, cur, retry>>
      /\ exec \in [Task -> Nat] /\ acted \in [Task -> Nat] /\ highest \in [Task -> Nat]
  BY DEF IInv, TypeOK, Act, Goes, limitVars
<1>2. acted' = IF cur \in Counted THEN [acted EXCEPT ![cur] = @ + 1] ELSE acted
  BY DEF Act
<1>3. exec' = [t \in Task |->
                IF t \in Info[cur].reduces /\ exec[t] > 0 THEN exec[t] - 1 ELSE exec[t]]
  BY DEF Act
<1>4. ASSUME NEW t \in Limited PROVE exec'[t] = exec[t]
  BY <1>1, <1>3 DEF Limited, NeverReduced
<1>5. exec' \in [Task -> Nat] /\ acted' \in [Task -> Nat]
  BY <1>1, <1>2, <1>3
<1>6. TypeOK'
  BY <1>1, <1>5 DEF IInv, TypeOK, Act, Pc
<1>7. ActedIsCounted'
  BY <1>1, <1>2, <1>4 DEF IInv, ActedIsCounted, Limited, NeverReduced
<1>8. CountedWithinLimit'
  BY <1>1, <1>4 DEF IInv, CountedWithinLimit
<1>9. HighestIsHighest' /\ RetriesLeft'
  BY <1>1 DEF IInv, HighestIsHighest, RetriesLeft
<1> QED
  BY <1>6, <1>7, <1>8, <1>9 DEF IInv

\* A new limit may raise the highest of several tasks, and lowers none.
LEMMA SetTimesLimitKeepsIInv ==
  ASSUME IInv, NEW name \in Name, NEW limit \in Limit, SetTimesLimit(name, limit) PROVE IInv'
<1>1. /\ UNCHANGED <<pc, raw, names, cur, retry, allowed, subs, result, exec, acted, needExit>>
      /\ given \in [Name -> Limit \cup {NotGiven}] /\ highest \in [Task -> Nat]
      /\ exec \in [Task -> Nat]
  BY DEF IInv, TypeOK, SetTimesLimit, runVars, countVars
<1>2. given' \in [Name -> Limit \cup {NotGiven}]
  BY <1>1 DEF SetTimesLimit
<1>3. ASSUME NEW t \in Task
      PROVE  /\ highest'[t] \in Nat /\ highest[t] <= highest'[t]
             /\ PreTimes(CalcTimeLimit(given', t)) <= highest'[t]
  <2> DEFINE n == PreTimes(CalcTimeLimit(given', t))
  <2>1. n \in Nat
    BY <1>2, LimitIsLimit, PreTimesIsNat
  <2>2. highest'[t] = IF n > highest[t] THEN n ELSE highest[t]
    BY DEF SetTimesLimit
  <2> HIDE DEF n
  <2>3. highest'[t] \in Nat /\ highest[t] <= highest'[t] /\ n <= highest'[t]
    BY <1>1, <2>1, <2>2
  <2> QED
    BY <2>3 DEF n
<1>4. highest' \in [Task -> Nat]
  <2>1. highest' = [t \in Task |-> highest'[t]]
    BY DEF SetTimesLimit
  <2> QED
    BY <1>3, <2>1
<1>5. TypeOK'
  BY <1>1, <1>2, <1>4 DEF IInv, TypeOK
<1>6. HighestIsHighest'
  BY <1>3 DEF HighestIsHighest
<1>7. CountedWithinLimit'
  <2> SUFFICES ASSUME NEW t \in Limited, highest'[t] < Unlimited PROVE exec'[t] <= highest'[t]
    BY DEF CountedWithinLimit
  <2>1. t \in Task
    BY DEF Limited, NeverReduced
  <2>2. highest[t] < Unlimited
    BY <1>1, <1>3, <2>1, TimesAssumption
  <2>3. exec[t] <= highest[t]
    BY <2>2 DEF IInv, CountedWithinLimit
  <2> QED
    BY <1>1, <1>3, <2>1, <2>3
<1>8. ActedIsCounted' /\ RetriesLeft'
  BY <1>1 DEF IInv, ActedIsCounted, RetriesLeft
<1> QED
  BY <1>5, <1>6, <1>7, <1>8 DEF IInv

\* Nothing else touches the flag of the instance or the object.
LEMMA StopKeepsIInv == ASSUME IInv, StopOrStart PROVE IInv'
<1>1. needExit' \in BOOLEAN
  BY DEF IInv, TypeOK, StopOrStart
<1>2. UNCHANGED <<pc, raw, names, cur, retry, allowed, subs, result, exec, acted, given, highest>>
  BY DEF StopOrStart, runVars, countVars, limitVars
<1>3. TypeOK'
  BY <1>1, <1>2 DEF IInv, TypeOK
<1> QED
  BY <1>2, <1>3 DEF IInv, RetriesLeft, ActedIsCounted, HighestIsHighest, CountedWithinLimit

\* The invariant is inductive.
LEMMA NextIInv == ASSUME IInv, [Next]_vars PROVE IInv'
<1>1. CASE Moves
  BY <1>1, MovesKeepIInv
<1>2. CASE Take
  BY <1>2, TakeKeepsIInv
<1>3. CASE Act
  BY <1>3, ActKeepsIInv
<1>4. CASE \E call \in Settable : SetTimesLimit(call[1], call[2])
  <2>1. PICK call \in Settable : SetTimesLimit(call[1], call[2])
    BY <1>4
  <2>2. call[1] \in Name /\ call[2] \in Limit
    BY LimitAssumption
  <2> QED
    BY <2>1, <2>2, SetTimesLimitKeepsIInv
<1>5. CASE StopOrStart
  BY <1>5, StopKeepsIInv
<1>6. CASE UNCHANGED vars
  BY <1>6 DEF vars, runVars, countVars, limitVars, IInv, TypeOK, RetriesLeft, ActedIsCounted,
     HighestIsHighest, CountedWithinLimit
<1> QED
  BY <1>1, <1>2, <1>3, <1>4, <1>5, <1>6 DEF Next, Proceed, Decide, Moves

\* So the invariant holds in every reachable state, for every graph of tasks.
LEMMA Invariance == Spec => []IInv
<1>1. IInv /\ [Next]_vars => IInv'
  BY NextIInv
<1> QED
  BY <1>1, InitIInv, PTL DEF Spec

\* ProcessTask.cpp:88-271: the state of the interpreter keeps its types, the
\* retries among them, for every graph of tasks.
THEOREM ProcessTaskTypeOK == Spec => []TypeOK
<1>1. IInv => TypeOK
  BY DEF IInv
<1> QED
  BY <1>1, Invariance, PTL

\* ProcessTask.cpp:141-161 and 213-223: for every graph of tasks, a task with a
\* limit that nothing gives back acts no more often than its highest limit.
THEOREM LimitsAreKept == Spec => []LimitKept
<1>1. ASSUME IInv, NEW t \in Limited, highest[t] < Unlimited PROVE acted[t] <= highest[t]
  <2>1. acted[t] \in Nat /\ exec[t] \in Nat /\ highest[t] \in Nat
    BY <1>1 DEF IInv, TypeOK, Limited, NeverReduced
  <2>2. acted[t] + (IF pc = "before" /\ cur = t THEN 1 ELSE 0) <= exec[t]
    BY <1>1 DEF IInv, ActedIsCounted
  <2>3. exec[t] <= highest[t]
    BY <1>1 DEF IInv, CountedWithinLimit
  <2> QED
    BY <2>1, <2>2, <2>3
<1>2. IInv => LimitKept
  BY <1>1 DEF LimitKept, Limited
<1> QED
  BY <1>2, Invariance, PTL
=============================================================================
