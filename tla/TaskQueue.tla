----------------------------- MODULE TaskQueue -----------------------------
(***************************************************************************)
(* What a caller of AsstAppendTask, AsstStart and AsstStop expects of the  *)
(* queue of tasks: tasks get increasing ids and run one at a time in that  *)
(* order, each at most once; a task leaves the queue only by being run or  *)
(* by a stop, which empties the queue.                                     *)
(***************************************************************************)
EXTENDS Naturals, Sequences

CONSTANT NoTask

VARIABLES pending,   \* the ids of the tasks waiting, in the order of appending
          running,   \* the id of the task that runs, or NoTask
          newest     \* the id given to the latest task

Init == pending = <<>> /\ running = NoTask /\ newest = 0

AppendTask ==
  /\ newest' = newest + 1
  /\ pending' = Append(pending, newest')
  /\ UNCHANGED running

Begin ==
  /\ running = NoTask
  /\ pending # <<>>
  /\ running' = Head(pending)
  /\ pending' = Tail(pending)
  /\ UNCHANGED newest

End ==
  /\ running # NoTask
  /\ running' = NoTask
  /\ UNCHANGED <<pending, newest>>

Clear ==
  /\ pending' = <<>>
  /\ UNCHANGED <<running, newest>>

Next == AppendTask \/ Begin \/ End \/ Clear

Spec == Init /\ [][Next]_<<pending, running, newest>>
=============================================================================
