---------------------------- MODULE AutoRecruit ----------------------------
(***************************************************************************)
(* The recruitment task: it opens the slots that are free, refreshes tags  *)
(* that are not worth it, reports them, confirms, and speeds up the slots  *)
(* that are busy if it may.  What AutoRecruitTask keeps lives through the  *)
(* retries of AbstractTask::run, except the slots known to be dirty.       *)
(*                                                                         *)
(* The game is modelled as far as it matters: what each slot is and        *)
(* whether its tags were seen before.  Clicks may be lost, pages misread,  *)
(* and the client may give the running task other params at any moment.    *)
(***************************************************************************)
EXTENDS Worker

CONSTANTS
  Slots,           \* the slots of the page, four in the game
  MaxTimes,        \* bound on the times asked for
  RecruitAsks,     \* the params it may be given; any int is accepted for the times, and
                   \* those that are negative are alike
  RefreshLimit,    \* refresh_limit, 3 in the code
  AnalyzeLimit,    \* analyze_limit, 5 in the code
  SlotRetryLimit,  \* slot_retry_limit, 3 in the code
  RecruitRetries,  \* retry_times, 3 in the code
  RecruitSets      \* bound on the calls of set_params while the task runs

ASSUME RecruitAssumption ==
  /\ Slots \in Nat /\ MaxTimes \in Nat /\ RefreshLimit \in Nat /\ AnalyzeLimit \in Nat
  /\ RecruitAsks \subseteq [times : -1..MaxTimes, refresh : BOOLEAN, speedUp : BOOLEAN, confirms : BOOLEAN]
  /\ SlotRetryLimit \in Nat /\ RecruitRetries \in Nat /\ RecruitSets \in Nat

Slot == 0..Slots - 1

VARIABLES
  recruit,  \* what AutoRecruitTask keeps
  hall      \* the game: its slots, and the history of what was done to them

recruitVars == <<worker, recruit, hall>>

RecruitInit ==
  /\ \E a \in RecruitAsks :
        recruit = [times |-> a.times, refresh |-> a.refresh, speedUp |-> a.speedUp, confirms |-> a.confirms,
                   cur |-> 0, fails |-> 0, skipped |-> {}, discard |-> FALSE, dirty |-> Slot,
                   trySpeed |-> FALSE, slot |-> 0, refreshed |-> 0, analyzed |-> 0, direct |-> FALSE]
  /\ hall \in [slots : [Slot -> {"free", "done"}], fresh : {{}}, confirmed : {0},
               lost : {FALSE}, stale : {FALSE}, sets : {0}, overtaken : {recruit.times < 0}, turned : {FALSE}]

CalcOnly == recruit.times <= 0 /\ ~recruit.confirms

AreIn(state) == {s \in Slot : hall.slots[s] = state}

-----------------------------------------------------------------------------
\* The slots seen with a Hire button count as clean, whether hiring them works or
\* not; those that were hired are free, with tags nobody has seen.
Hire(seen, hired, dirty) ==
  /\ seen \subseteq AreIn("done") /\ hired \subseteq AreIn("done")
  /\ seen = {} => hired = {}
  /\ recruit' = [recruit EXCEPT !.dirty = dirty \ seen, !.direct = FALSE,
                                !.trySpeed = IF at = "run" THEN recruit.speedUp ELSE @]
  /\ hall' = [hall EXCEPT !.slots = [s \in Slot |-> IF s \in hired THEN "free" ELSE @[s]],
                          !.fresh = @ \cup hired]

\* _run, up to the first hire_all; a task that only calculates calls recruit_calc_task
\* directly, for the page that is open and with 0 for its slot.
RecruitBegin ==
  /\ at = "run"
  /\ \/ recruit.discard /\ RunFails(RecruitRetries) /\ UNCHANGED <<recruit, hall>>
     \/ ~recruit.discard /\ CalcOnly /\ Goes("analyze") /\ UNCHANGED hall
        /\ recruit' = [recruit EXCEPT !.refreshed = 0, !.analyzed = 0, !.direct = TRUE]
     \/ ~recruit.discard /\ ~CalcOnly /\ RunFails(RecruitRetries) /\ UNCHANGED <<recruit, hall>>
     \/ /\ ~recruit.discard /\ ~CalcOnly /\ Sub(TRUE)
        /\ \E seen, hired \in SUBSET Slot :
              /\ Hire(seen, hired, Slot)
              /\ \/ Goes("slots")
                 \/ seen # {} /\ RunFails(RecruitRetries)

\* The head of the loop over the slots; a start button that is not skipped is
\* opened, one that is not recognised is not there.
OpenSlot(s) ==
  /\ at = "slots" /\ recruit.cur # recruit.times /\ ~recruit.discard /\ ~stopped
  /\ recruit.cur <= MaxTimes   \* bound
  /\ s \in AreIn("free") \ recruit.skipped
  /\ Goes("analyze")
  /\ recruit' = [recruit EXCEPT !.slot = s, !.refreshed = 0, !.analyzed = 0]
  /\ UNCHANGED hall

LeaveSlots ==
  /\ at = "slots"
  /\ \/ recruit.cur = recruit.times /\ Goes("succeeded")
     \/ recruit.cur # recruit.times /\ (recruit.discard \/ stopped) /\ RunFails(RecruitRetries)
  /\ UNCHANGED <<recruit, hall>>

\* No start button: the home page is looked for.
NoStartButton ==
  /\ at = "slots" /\ recruit.cur # recruit.times /\ ~recruit.discard
  /\ \/ Sub(TRUE) /\ Goes(IF recruit.trySpeed THEN "speed" ELSE "succeeded")
     \/ RunFails(RecruitRetries)
  /\ UNCHANGED <<recruit, hall>>

-----------------------------------------------------------------------------
\* Back to the loop with the result of recruit_one, r being what it leaves.
SlotDone(r, counts) ==
  /\ recruit' = [r EXCEPT !.slot = 0, !.refreshed = 0, !.analyzed = 0,
                   !.cur = IF counts THEN @ + 1 ELSE @, !.fails = IF counts THEN @ ELSE @ + 1]
  /\ IF recruit'.fails >= SlotRetryLimit THEN RunFails(RecruitRetries)
       ELSE Goes(IF r.trySpeed THEN "speed" ELSE "slots")

\* The slot is not to be opened again.
Skip(r) == [r EXCEPT !.skipped = @ \cup {r.slot}]

\* recruit_calc_task has failed.
CalcFails(r) ==
  IF r.direct THEN RunFails(RecruitRetries) /\ recruit' = r ELSE SlotDone(Skip(r), FALSE)

\* Five tags cannot be read from the picture, or no tries are left.
Misread ==
  /\ at = "analyze"
  /\ IF recruit.analyzed < AnalyzeLimit
       THEN Stays /\ recruit' = [recruit EXCEPT !.analyzed = @ + 1]
       ELSE CalcFails(recruit)
  /\ UNCHANGED hall

\* The tags are reported if the slot is clean, and it counts as dirty then.
Reports == ~CalcOnly /\ recruit.slot \notin recruit.dirty

Marked == IF Reports THEN [recruit EXCEPT !.dirty = @ \cup {recruit.slot}] ELSE recruit

Reported == [hall EXCEPT !.fresh = IF Reports THEN @ \ {recruit.slot} ELSE @,
                         !.stale = @ \/ (Reports /\ recruit.slot \notin hall.fresh)]

Reads == at = "analyze" /\ recruit.analyzed < AnalyzeLimit

SeesStop == Reads /\ stopped /\ hall' = Reported /\ CalcFails(Marked)

\* Fault: the refreshes are not counted.
RefreshUncounted(works) ==
  /\ Reads /\ ~stopped /\ recruit.refresh /\ recruit.refreshed <= RefreshLimit
  /\ recruit' = [recruit EXCEPT !.dirty = @ \ {recruit.slot}]
  /\ hall' = [Reported EXCEPT !.fresh = IF works THEN @ \cup {recruit.slot} ELSE @,
                              !.lost = @ \/ ~works]
  /\ Stays

\* The tags are worth no more than three stars: refresh() is called, whatever comes
\* of it, and the slot counts as clean; a try to read them is not used up.
Refresh(works) ==
  /\ Reads /\ ~stopped /\ recruit.refresh /\ recruit.refreshed <= RefreshLimit
  /\ recruit' = [recruit EXCEPT !.refreshed = @ + 1, !.dirty = @ \ {recruit.slot}]
  /\ hall' = [Reported EXCEPT !.fresh = IF works THEN @ \cup {recruit.slot} ELSE @,
                              !.lost = @ \/ ~works]
  /\ Stays

RefreshRefused ==
  /\ Reads /\ ~stopped /\ recruit.refresh /\ recruit.refreshed > RefreshLimit
  /\ hall' = Reported
  /\ CalcFails(Marked)

\* The level is one to confirm, or to skip; a direct calculation ends the task.  Where
\* the params were changed to those of a task that only calculates, nothing is skipped.
Calculated ==
  /\ Reads /\ ~stopped
  /\ hall' = Reported
  /\ \/ recruit.direct /\ Goes("succeeded") /\ recruit' = Marked
     \/ ~recruit.direct /\ ~CalcOnly /\ SlotDone(Skip(Marked), TRUE)
     \/ ~recruit.direct /\ (CalcOnly \/ recruit.confirms) /\ Goes("confirm") /\ recruit' = Marked

-----------------------------------------------------------------------------
\* The timer is not what it should be, or a stop was seen: the slot stays free.
LeaveSlot ==
  /\ at = "confirm"
  /\ SlotDone(recruit, FALSE)
  /\ UNCHANGED hall

\* The game takes the slot.
Taken == [hall EXCEPT !.slots[recruit.slot] = "busy", !.confirmed = @ + 1, !.fresh = @ \ {recruit.slot}]

Confirm == at = "confirm" /\ Sub(TRUE) /\ hall' = Taken /\ SlotDone(recruit, TRUE)

\* Fault: Confirm was pressed and failed, and the task goes on as if it was not.
ConfirmFailsGoesOn ==
  /\ at = "confirm"
  /\ hall' \in {hall, Taken}
  /\ SlotDone(recruit, FALSE)

\* No permit left, a stop, or the page after it was not seen; the game may have
\* taken it all the same.  The task gives up.
ConfirmFails ==
  /\ at = "confirm"
  /\ hall' \in {hall, Taken}
  /\ SlotDone([recruit EXCEPT !.discard = TRUE], FALSE)

\* recruit_now ends what is busy, and hire_all() takes what it can.
SpeedUp ==
  /\ at = "speed" /\ ~stopped
  /\ \E s \in AreIn("busy") : hall' = [hall EXCEPT !.slots[s] = "done"]
  /\ Goes("hire")
  /\ UNCHANGED recruit

HireAgain ==
  /\ at = "hire"
  /\ \E seen, hired \in SUBSET Slot : Hire(seen, hired, recruit.dirty)
  /\ Goes("slots")

NoSpeedUp ==
  /\ at = "speed"
  /\ UNCHANGED hall
  /\ \/ Sub(TRUE) /\ Goes("slots") /\ recruit' = [recruit EXCEPT !.trySpeed = FALSE]
     \/ RunFails(RecruitRetries) /\ UNCHANGED recruit

-----------------------------------------------------------------------------
\* Where the count comes to if what is under way succeeds.
Reached ==
  recruit.cur + IF at = "confirm" \/ (at = "analyze" /\ ~recruit.direct) \/ recruit.discard THEN 1 ELSE 0

\* RecruitTask::set_params of the running task, from the client's thread, at once
\* though they are set one after another; the loop compares the times for equality,
\* and never ends by them when they are set below the count.
SetRecruit(a) ==
  /\ hall.sets < RecruitSets
  /\ recruit' = [recruit EXCEPT !.times = a.times, !.refresh = a.refresh, !.speedUp = a.speedUp, !.confirms = a.confirms]
  /\ hall' = [hall EXCEPT !.sets = @ + 1, !.overtaken = a.times < Reached,
                          !.turned = @ \/ (at = "analyze" /\ recruit.direct /\ ~CalcOnly')]
  /\ Stays

\* What the worker does.
RecruitWorks ==
  \/ RecruitBegin \/ LeaveSlots \/ NoStartButton \/ Misread \/ SeesStop
  \/ (\E s \in Slot : OpenSlot(s))
  \/ (\E works \in BOOLEAN : Refresh(works)) \/ RefreshRefused \/ Calculated
  \/ LeaveSlot \/ Confirm \/ ConfirmFails \/ SpeedUp \/ HireAgain \/ NoSpeedUp

RecruitNext ==
  \/ RecruitWorks
  \/ (\E a \in RecruitAsks : SetRecruit(a))
-----------------------------------------------------------------------------
\* Through all its retries the task presses Confirm no more often than it was last asked
\* to, though it cannot tell whether the last press that failed was taken, unless it was
\* asked for less than it had counted by then; and what it reports to the statistics was
\* not reported before, nor could it be from an earlier task, unless a refresh whose
\* result nobody looks at did nothing, or params for a recruitment came while it was
\* only calculating.
RecruitsAsAsked ==
  task = "recruit" =>
    /\ hall.confirmed <= recruit.times \/ hall.overtaken
    /\ hall.stale => hall.lost \/ hall.turned
=============================================================================
