------------------------- MODULE TaskChainProtocol -------------------------
(***************************************************************************)
(* The order of the task chain callbacks a user of the library may rely    *)
(* on.  A chain is announced once, then it ends once (completed, failed or *)
(* stopped); only then may "all tasks completed" follow, once; and one     *)
(* more "stopped" may come last, when a stop arrives in the pause between  *)
(* two chains.  The next chain announced is always a newer one.            *)
(***************************************************************************)
EXTENDS Naturals

VARIABLES phase,   \* "none", "running", "ended" or "allDone"
          chain,   \* the id of the latest chain announced, 0 before the first
          tick     \* 0 or 1, flips at each callback: none may be raised twice

Init == phase = "none" /\ chain = 0 /\ tick = 0

Start ==
  /\ phase # "running"
  /\ phase' = "running"
  /\ chain' > chain

Ends(from, to) ==
  /\ phase \in from
  /\ phase' = to
  /\ UNCHANGED chain

Next ==
  /\ \/ Start
     \/ Ends({"running"}, "ended")
     \/ Ends({"ended"}, "allDone")
     \/ Ends({"ended", "allDone"}, "none")
  /\ tick' = 1 - tick

Spec == Init /\ [][Next]_<<phase, chain, tick>>
=============================================================================
