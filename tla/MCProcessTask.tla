---------------------------- MODULE MCProcessTask ----------------------------
(***************************************************************************)
(* A graph with all that the interpreter distinguishes: a limit changed    *)
(* while the task runs (eat), a task that gives another back (eat, buy), a *)
(* sub task that may fail (menu), one whose failure is ignored (buy), a    *)
(* Post limit (leave), a limit given to a base (trade, of leave and buy),  *)
(* a fallback and a task that needs no screen (back), a name of no task    *)
(* (gone).                                                                 *)
(***************************************************************************)
EXTENDS ProcessTask

CONSTANTS menu, buy, eat, leave, back, gone, trade

MCTask == {menu, buy, eat, leave, back}
MCName == MCTask \cup {gone, trade}

MCPlain ==
  [just |-> FALSE, stop |-> FALSE, ignored |-> FALSE, maxTimes |-> Unlimited,
   next |-> <<>>, exceededNext |-> <<>>, onErrorNext |-> <<>>, sub |-> <<>>, reduces |-> {}]

MCInfo == [t \in MCTask |->
  CASE t = menu  -> [MCPlain EXCEPT !.next = <<buy, gone, leave>>, !.sub = <<back>>,
                                    !.onErrorNext = <<back>>]
    [] t = buy   -> [MCPlain EXCEPT !.next = <<eat, leave>>, !.maxTimes = 1,
                                    !.exceededNext = <<eat, back>>, !.ignored = TRUE,
                                    !.sub = <<back>>]
    [] t = eat   -> [MCPlain EXCEPT !.next = <<buy>>, !.maxTimes = 2, !.exceededNext = <<leave>>,
                                    !.reduces = {buy}]
    [] t = leave -> [MCPlain EXCEPT !.next = <<gone, menu>>,
                                    !.exceededNext = <<>>]
    [] t = back  -> [MCPlain EXCEPT !.just = TRUE, !.stop = TRUE]]

MCBase == [t \in MCTask |-> IF t \in {leave, buy} THEN <<t, trade>> ELSE <<t>>]
Pre(n) == [times |-> n, type |-> "Pre"]
Post(n) == [times |-> n, type |-> "Post"]
MCGivenFirst == [n \in MCName |-> IF n = trade THEN Post(1) ELSE IF n = buy THEN Pre(1) ELSE NotGiven]
MCSettable == {<<eat, Pre(3)>>, <<leave, Pre(0)>>}
MCFirst == <<menu, buy>>
=============================================================================
