---------------------------- MODULE ProcessTask ----------------------------
(***************************************************************************)
(* ProcessTask::run, the interpreter of tasks.json: out of a list of names *)
(* it recognises one on the screen, does what the task says, counts it and *)
(* goes on with the task's next list.  One object is modelled, over its    *)
(* whole life: what it is asked to run, its counters and its retries, with *)
(* the flag of the Assistant that tells it to give up (need_exit) and with *)
(* the limits that AsstSetTaskParams may change while it runs.             *)
(***************************************************************************)
EXTENDS Integers, Sequences

CONSTANTS
  Task,         \* the tasks of tasks.json
  Name,         \* the names a list may hold: tasks, and names of no task
  NoTask,       \* m_cur_task_ptr == nullptr
  Info,         \* Info[t]: what tasks.json says of t
  Base,         \* Base[t]: for a task "C@B@A", the names "C@B@A", "B@A" and "A"
  First,        \* the names the object is made with
  RetryTimes,   \* m_retry_times
  Unlimited,    \* the limit of a task without maxTimes (INT_MAX)
  NotGiven,     \* m_times_limit has no entry for the name
  GivenFirst,   \* m_times_limit when the object is started
  Settable,     \* the calls of set_times_limit, name and limit, that may come later
  MaxExec       \* bound on the counter of a task

\* TimesLimitType: a limit is compared before the task acts, or after it.
Limit == [times : Nat, type : {"Pre", "Post"}]

\* next, exceededNext, onErrorNext and sub are lists of names.  Those that are
\* never recognised on the screen but taken as they come are "just" (JustReturn).
TaskInfo ==
  [just : BOOLEAN, stop : BOOLEAN, ignored : BOOLEAN, maxTimes : Nat,
   next : Seq(Name), exceededNext : Seq(Name), onErrorNext : Seq(Name), sub : Seq(Name),
   reduces : SUBSET Task]

ASSUME TaskAssumption == Task \subseteq Name /\ NoTask \notin Name
ASSUME InfoAssumption == Info \in [Task -> TaskInfo] /\ Base \in [Task -> Seq(Name)]
ASSUME FirstAssumption == First \in Seq(Name)
ASSUME TimesAssumption == RetryTimes \in Nat /\ Unlimited \in Nat /\ MaxExec \in Nat
ASSUME LimitAssumption ==
  /\ GivenFirst \in [Name -> Limit \cup {NotGiven}]
  /\ Settable \subseteq Name \X Limit

VARIABLES
  pc,         \* where run() is
  raw,        \* m_raw_task_name_list
  names,      \* m_cur_task_name_list
  cur,        \* m_cur_task_ptr, the task recognised last
  retry,      \* m_cur_retry
  exec,       \* m_exec_times; only those that some limit can apply to
  given,      \* m_times_limit
  allowed,    \* max_times and limit_type in _run
  subs,       \* the sub tasks of cur still to run
  result,     \* what run() returned
  needExit,   \* need_exit()
  acted,      \* (history) how often each task has acted
  highest     \* (history) the highest limit each task has had

runVars == <<pc, raw, names, cur, retry, allowed, subs, result>>
countVars == <<exec, acted>>
limitVars == <<given, highest>>
vars == <<runVars, countVars, limitVars, needExit>>

Pc == {"called", "top", "chosen", "before", "after", "subs", "missed", "failed", "returned"}

\* calc_time_limit: the entry of the first of the names of t that has one.
Entries(table, t) == {i \in DOMAIN Base[t] : table[Base[t][i]] # NotGiven}

FirstEntry(table, t) ==
  CHOOSE i \in Entries(table, t) : \A j \in Entries(table, t) : i <= j

CalcTimeLimit(table, t) ==
  IF Entries(table, t) = {}
    THEN [times |-> Info[t].maxTimes, type |-> "Pre"]
    ELSE table[Base[t][FirstEntry(table, t)]]

\* How often a limit lets a task act.
PreTimes(limit) == IF limit.type = "Pre" THEN limit.times ELSE Unlimited

\* The tasks whose counter is ever compared with a limit.
Counted ==
  {t \in Task : \/ Info[t].maxTimes # Unlimited
                \/ Entries(GivenFirst, t) # {}
                \/ \E call \in Settable, i \in DOMAIN Base[t] : Base[t][i] = call[1]}

Init ==
  /\ pc = "called"
  /\ raw = First
  /\ names = <<>>
  /\ cur = NoTask
  /\ retry = 0
  /\ exec = [t \in Task |-> 0]
  /\ given = GivenFirst
  /\ allowed = [times |-> 0, type |-> "Pre"]
  /\ subs = <<>>
  /\ result = FALSE
  /\ needExit = FALSE
  /\ acted = [t \in Task |-> 0]
  /\ highest = [t \in Task |-> PreTimes(CalcTimeLimit(GivenFirst, t))]

-----------------------------------------------------------------------------
Goes(from, to) == pc = from /\ pc' = to

\* run() returns r.
Returns(r) == pc' = "returned" /\ result' = r

\* run(): start from the names of the object, with all the retries left.
Run ==
  /\ Goes("called", "top")
  /\ names' = raw
  /\ retry' = 0
  /\ UNCHANGED <<raw, cur, allowed, subs, result, countVars, limitVars, needExit>>

\* while (!m_cur_task_name_list.empty())
NothingLeft ==
  /\ pc = "top"
  /\ names = <<>>
  /\ Returns(TRUE)
  /\ UNCHANGED <<raw, names, cur, retry, allowed, subs, countVars, limitVars, needExit>>

\* need_exit() where _run looks at it, itself or through sleep().
SeesExit ==
  /\ needExit
  /\ \/ Goes("top", "missed") /\ names # <<>>
     \/ Goes("chosen", "missed")
     \/ Goes("before", "missed")
     \/ Goes("after", "missed")
  /\ UNCHANGED <<raw, names, cur, retry, allowed, subs, result, countVars, limitVars, needExit>>

\* What is taken from a list when the names in visible are on the screen: the
\* first name that is visible or needs no screen.
Matches(t, visible) == t \in Task /\ (Info[t].just \/ t \in visible)

FirstMatch(list, visible, t) ==
  \E i \in 1..Len(list) :
    /\ list[i] = t
    /\ Matches(t, visible)
    /\ \A j \in 1..(i - 1) : ~Matches(list[j], visible)

NoMatch(list, visible) == \A i \in 1..Len(list) : ~Matches(list[i], visible)

\* A name of no task is skipped, unless it comes first.
Recognise(visible) ==
  /\ Goes("top", "chosen")
  /\ names # <<>> /\ ~needExit
  /\ Head(names) \in Task
  /\ \E t \in Task : FirstMatch(names, visible, t) /\ cur' = t
  /\ UNCHANGED <<raw, names, retry, allowed, subs, result, countVars, limitVars, needExit>>

RecognisesNothing(visible) ==
  /\ Goes("top", "missed")
  /\ names # <<>> /\ ~needExit
  /\ Head(names) \notin Task \/ NoMatch(names, visible)
  /\ UNCHANGED <<raw, names, cur, retry, allowed, subs, result, countVars, limitVars, needExit>>

\* Fault: one time too many.
ExceededBeforeByOne(limit) == limit.type = "Pre" /\ exec[cur] > limit.times

ExceededBefore(limit) == limit.type = "Pre" /\ exec[cur] >= limit.times

ExceededAfter(limit) == limit.type = "Post" /\ exec[cur] >= limit.times

Exceeded ==
  /\ Goes("chosen", "top")
  /\ ~needExit
  /\ allowed' = CalcTimeLimit(given, cur)
  /\ ExceededBefore(allowed')
  /\ names' = Info[cur].exceededNext
  /\ UNCHANGED <<raw, cur, retry, subs, result, countVars, limitVars, needExit>>

\* The task is counted before its first delay, and the retries are reset.
Take ==
  /\ Goes("chosen", "before")
  /\ ~needExit
  /\ allowed' = CalcTimeLimit(given, cur)
  /\ ~ExceededBefore(allowed')
  /\ exec[cur] < MaxExec
  /\ retry' = 0
  /\ exec' = IF cur \in Counted THEN [exec EXCEPT ![cur] = @ + 1] ELSE exec
  /\ UNCHANGED <<raw, names, cur, subs, result, acted, limitVars, needExit>>

\* Fault: reduce_other_times does not stop at 0.
ActBelowZero ==
  /\ Goes("before", "after")
  /\ ~needExit
  /\ acted' = IF cur \in Counted THEN [acted EXCEPT ![cur] = @ + 1] ELSE acted
  /\ exec' = [t \in Task |-> IF t \in Info[cur].reduces THEN exec[t] - 1 ELSE exec[t]]
  /\ UNCHANGED <<raw, names, cur, retry, allowed, subs, result, limitVars, needExit>>

\* The click or swipe, then reduce_other_times, which stops at 0.
Act ==
  /\ Goes("before", "after")
  /\ ~needExit
  /\ acted' = IF cur \in Counted THEN [acted EXCEPT ![cur] = @ + 1] ELSE acted
  /\ exec' = [t \in Task |-> IF t \in Info[cur].reduces /\ exec[t] > 0 THEN exec[t] - 1 ELSE exec[t]]
  /\ UNCHANGED <<raw, names, cur, retry, allowed, subs, result, limitVars, needExit>>

BeginSubs ==
  /\ Goes("after", "subs")
  /\ ~needExit
  /\ subs' = Info[cur].sub
  /\ UNCHANGED <<raw, names, cur, retry, allowed, result, countVars, limitVars, needExit>>

\* Each sub task is run by a new ProcessTask, with counters of its own.
SubDone ==
  /\ pc = "subs"
  /\ subs # <<>>
  /\ subs' = Tail(subs)
  /\ UNCHANGED <<pc, raw, names, cur, retry, allowed, result, countVars, limitVars, needExit>>

\* Fault: the retries of the parent are overrun when a sub task fails.
SubFailsOver ==
  /\ Goes("subs", "missed")
  /\ subs # <<>>
  /\ ~Info[cur].ignored
  /\ subs' = <<>>
  /\ retry' = RetryTimes + 1
  /\ UNCHANGED <<raw, names, cur, allowed, result, countVars, limitVars, needExit>>

\* It fails and the failure is not ignored: no retry of the parent makes sense.
SubFails ==
  /\ Goes("subs", "missed")
  /\ subs # <<>>
  /\ ~Info[cur].ignored
  /\ subs' = <<>>
  /\ retry' = RetryTimes
  /\ UNCHANGED <<raw, names, cur, allowed, result, countVars, limitVars, needExit>>

ExceededLate ==
  /\ Goes("subs", "top")
  /\ subs = <<>>
  /\ ExceededAfter(allowed)
  /\ names' = Info[cur].exceededNext
  /\ UNCHANGED <<raw, cur, retry, allowed, subs, result, countVars, limitVars, needExit>>

Stop ==
  /\ pc = "subs"
  /\ subs = <<>>
  /\ ~ExceededAfter(allowed)
  /\ Info[cur].stop \/ Info[cur].next = <<>>
  /\ Returns(TRUE)
  /\ UNCHANGED <<raw, names, cur, retry, allowed, subs, countVars, limitVars, needExit>>

GoesOn ==
  /\ Goes("subs", "top")
  /\ subs = <<>>
  /\ ~ExceededAfter(allowed)
  /\ ~Info[cur].stop /\ Info[cur].next # <<>>
  /\ names' = Info[cur].next
  /\ UNCHANGED <<raw, cur, retry, allowed, subs, result, countVars, limitVars, needExit>>

\* _run() returned false: give up if told to, or try the same names again.
GivesUp ==
  /\ pc = "missed"
  /\ needExit
  /\ Returns(FALSE)
  /\ UNCHANGED <<raw, names, cur, retry, allowed, subs, countVars, limitVars, needExit>>

\* Fault: run() does not look at need_exit() after a failure.
TriesAgainBlindly ==
  /\ pc = "missed"
  /\ retry' = retry + 1
  /\ pc' = IF retry < RetryTimes THEN "top" ELSE "failed"
  /\ UNCHANGED <<raw, names, cur, allowed, subs, result, countVars, limitVars, needExit>>

TriesAgain ==
  /\ pc = "missed"
  /\ ~needExit
  /\ retry' = retry + 1
  /\ pc' = IF retry < RetryTimes THEN "top" ELSE "failed"
  /\ UNCHANGED <<raw, names, cur, allowed, subs, result, countVars, limitVars, needExit>>

\* on_run_fails: run on_error_next of the task recognised last, if it has one.
Fallback == IF cur = NoTask THEN <<>> ELSE Info[cur].onErrorNext

OnErrorNext ==
  /\ Goes("failed", "called")
  /\ Fallback # <<>>
  /\ raw' = Fallback
  /\ retry' = 0
  /\ UNCHANGED <<names, cur, allowed, subs, result, countVars, limitVars, needExit>>

Fails ==
  /\ pc = "failed"
  /\ Fallback = <<>>
  /\ Returns(FALSE)
  /\ UNCHANGED <<raw, names, cur, retry, allowed, subs, countVars, limitVars, needExit>>

-----------------------------------------------------------------------------
\* set_times_limit, from the thread of AsstSetTaskParams or from a plugin.
SetTimesLimit(name, limit) ==
  /\ given' = [given EXCEPT ![name] = limit]
  /\ highest' = [t \in Task |->
       LET n == PreTimes(CalcTimeLimit(given', t)) IN IF n > highest[t] THEN n ELSE highest[t]]
  /\ UNCHANGED <<runVars, countVars, needExit>>

\* AsstStop sets need_exit; an AsstStart that follows clears it again.
StopOrStart ==
  /\ needExit' = ~needExit
  /\ UNCHANGED <<runVars, countVars, limitVars>>

\* The steps of run() that neither depend on the screen nor touch it.
Decide ==
  \/ Run \/ NothingLeft \/ SeesExit
  \/ Exceeded \/ Take
  \/ BeginSubs \/ SubDone \/ SubFails
  \/ ExceededLate \/ Stop \/ GoesOn
  \/ GivesUp \/ TriesAgain \/ OnErrorNext \/ Fails

Proceed == Decide \/ Act

Look(visible) == Recognise(visible) \/ RecognisesNothing(visible)

Next ==
  \/ Proceed
  \/ \E visible \in SUBSET Task : Look(visible)
  \/ \E call \in Settable : SetTimesLimit(call[1], call[2])
  \/ StopOrStart

\* The worker thread runs the task to its end.
Spec == Init /\ [][Next]_vars /\ WF_vars(Proceed \/ \E visible \in SUBSET Task : Look(visible))

-----------------------------------------------------------------------------
TypeOK ==
  /\ pc \in Pc
  /\ raw \in Seq(Name) /\ names \in Seq(Name) /\ subs \in Seq(Name)
  /\ cur \in Task \cup {NoTask}
  /\ pc \in {"chosen", "before", "after", "subs"} => cur \in Task
  /\ retry \in 0..(RetryTimes + 1)
  /\ exec \in [Task -> Nat]
  /\ given \in [Name -> Limit \cup {NotGiven}]
  /\ allowed \in Limit
  /\ result \in BOOLEAN
  /\ needExit \in BOOLEAN
  /\ acted \in [Task -> Nat]
  /\ highest \in [Task -> Nat]

\* The tasks whose executions nothing gives back.
NeverReduced == {t \in Task : \A u \in Task : t \notin Info[u].reduces}

\* A task with a limit (of the Pre type) that no other task gives back never
\* acts more often than the highest limit it has had, through all the retries,
\* the fallbacks of on_error_next and the changes of parameters of one object.
LimitKept ==
  \A t \in NeverReduced \cap Counted :
    highest[t] < Unlimited => acted[t] <= highest[t]

\* A stop that nobody takes back ends run(), whatever the graph of tasks is.
ReturnsOnStop == <>[]needExit => <>(pc = "returned")
=============================================================================
