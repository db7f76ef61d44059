----------------------------- MODULE DropReports -----------------------------
(***************************************************************************)
(* The drops of the battles of a Fight: StageDropsTaskPlugin reads them    *)
(* once for each start, adds them up, ends the fight when there is enough, *)
(* and has ReportDataTask send them to the statistics.  Each report is     *)
(* sent by a thread of its own; all threads use the one body and the one   *)
(* line of headers of their task, which the next report replaces.  Nobody  *)
(* waits for a thread but the destructor of the task, and a stop does not  *)
(* reach it.                                                               *)
(***************************************************************************)
EXTENDS Worker, FiniteSets

CONSTANTS
  Battles,      \* how many battles there are, 1, 2, ...
  MaxEnds,      \* how often EndOfAction may be completed after one battle
  DropRetries,  \* retry_times of the plugin
  ReportRetries \* retry_times of a report, 5 in the code

ASSUME DropAssumption == Battles \in Nat \ {0} /\ {MaxEnds, DropRetries, ReportRetries} \subseteq Nat

VARIABLES
  drops,    \* StageDropsTaskPlugin and its ReportDataTask
  sender,   \* the threads of the reports
  server    \* the game's battles, and what the statistics have counted

dropVars == <<worker, drops, sender, server>>

Battle == 1..Battles
Outcomes == {"good", "two stars", "unknown stage", "no reward"}

DropInit ==
  /\ drops \in [wanted : 1..Battles, penguin : BOOLEAN, again : BOOLEAN,   \* specify_quantity; penguin-stats.cn, too
                stats : {0}, lastRead : {0}, tries : {0}, ended : {FALSE},
                body : {0}, keys : {{}}, named : {FALSE}, id : {FALSE}]    \* m_body, m_extra_param, m_penguin_id
  /\ sender = [b \in Battle |-> [pc |-> "none", tries |-> 0, cn |-> FALSE]]
  /\ server = [begun |-> 0, ends |-> 0, result |-> "good", counted |-> [b \in Battle |-> 0], used |-> {}, mixed |-> {}]

Alive == {b \in Battle : sender[b].pc \in {"key", "ask"}}

\* StartButton2, unless stop_task has set its limit to 0; or the fight is over.
StartBattle ==
  /\ at = "run" /\ ~stopped
  /\ server.begun < Battles /\ ~drops.ended
  /\ \E r \in Outcomes : server' = [server EXCEPT !.begun = @ + 1, !.ends = 0, !.result = r]
  /\ Goes("fight") /\ UNCHANGED <<drops, sender>>

EndFight == at = "run" /\ (stopped \/ server.begun > 0) /\ Goes("closing") /\ UNCHANGED <<drops, sender, server>>

\* Fault: the drops are read each time EndOfAction is completed.
EndOfActionAlways ==
  /\ at = "fight" /\ server.ends < MaxEnds
  /\ server' = [server EXCEPT !.ends = @ + 1]
  /\ drops' = [drops EXCEPT !.tries = 0] /\ Goes("read")
  /\ UNCHANGED sender

\* verify: only one recognition per start.
EndOfAction ==
  /\ at = "fight" /\ server.ends < MaxEnds
  /\ server' = [server EXCEPT !.ends = @ + 1]
  /\ IF drops.lastRead = server.begun THEN Stays /\ UNCHANGED drops
     ELSE drops' = [drops EXCEPT !.tries = 0] /\ Goes("read")
  /\ UNCHANGED sender

NextBattle == at = "fight" /\ (stopped \/ server.ends > 0) /\ Goes("run") /\ UNCHANGED <<drops, sender, server>>

\* recognize_drops fails: the plugin tries again.
ReadFails ==
  /\ at = "read"
  /\ IF ~stopped /\ drops.tries < DropRetries THEN Stays /\ drops' = [drops EXCEPT !.tries = @ + 1]
                                              ELSE Goes("fight") /\ UNCHANGED drops
  /\ UNCHANGED <<sender, server>>

\* drop_info_callback, check_stage_valid and check_specify_quantity; upload_to_penguin
\* is left without a report unless the stage is known and was won with three stars.
ReadDrops ==
  /\ at = "read" /\ ~stopped
  /\ drops' = [drops EXCEPT !.lastRead = server.begun, !.stats = @ + 1,
                            !.ended = @ \/ server.result = "no reward" \/ drops.stats + 1 >= drops.wanted]
  /\ Goes(IF drops.penguin /\ server.result = "good" THEN "body" ELSE "fight")
  /\ UNCHANGED <<sender, server>>

\* set_body, set_extra_param and run() of ReportDataTask, while other threads go on
SetBody ==
  /\ at = "body"
  /\ drops' = [drops EXCEPT !.body = server.begun] /\ Goes("extra")
  /\ server' = [server EXCEPT !.mixed = IF Alive = {} THEN @ ELSE @ \cup Alive \cup {server.begun}]
  /\ UNCHANGED sender

SetExtraParam ==
  /\ at = "extra"
  /\ drops' = [drops EXCEPT !.keys = {}, !.named = drops.id] /\ Goes("send")
  /\ UNCHANGED <<sender, server>>

RunReport ==
  /\ at = "send"
  /\ sender' = [sender EXCEPT ![server.begun].pc = "key"] /\ Goes("fight")
  /\ UNCHANGED <<drops, server>>

-----------------------------------------------------------------------------
\* report_to_penguin in its thread: a key of its own is added to the headers.
AddKey(b) ==
  /\ sender[b].pc = "key"
  /\ drops' = [drops EXCEPT !.keys = @ \cup {b}]
  /\ sender' = [sender EXCEPT ![b].pc = "ask"]
  /\ UNCHANGED <<worker, server>>

\* A request that arrives is counted, unless one with that key was.
Counted ==
  IF drops.keys = {} THEN {[server EXCEPT !.counted[drops.body] = @ + 1]}
  ELSE {IF k \in server.used THEN server
        ELSE [server EXCEPT !.counted[drops.body] = @ + 1, !.used = @ \cup {k}] : k \in drops.keys}

\* The answer may bring the id of the user, which goes back to the plugin.
Answered(b) ==
  /\ sender[b].pc = "ask"
  /\ server' \in Counted
  /\ sender' = [sender EXCEPT ![b].pc = "over"]
  /\ drops' \in {drops, [drops EXCEPT !.id = TRUE]}
  /\ UNCHANGED worker

\* The other address once the first has been tried in vain, if it is in the command.
NextAddress(b) ==
  IF drops.again /\ ~sender[b].cn THEN [pc |-> "ask", tries |-> 0, cn |-> TRUE] ELSE [sender[b] EXCEPT !.pc = "over"]

\* No answer, or an error of the server: once more, after a longer while.
NotAnswered(b) ==
  /\ sender[b].pc = "ask"
  /\ server' \in Counted \cup {server}
  /\ IF sender[b].tries < ReportRetries THEN sender' = [sender EXCEPT ![b].tries = @ + 1]
                                         ELSE sender' = [sender EXCEPT ![b] = NextAddress(b)]
  /\ UNCHANGED <<worker, drops>>

\* The server does not want it.
Refused(b) ==
  /\ sender[b].pc = "ask"
  /\ sender' = [sender EXCEPT ![b] = NextAddress(b)]
  /\ UNCHANGED <<worker, drops, server>>

\* ~ReportDataTask waits for all its futures.
CloseReports ==
  /\ at = "closing" /\ Alive = {}
  /\ Goes("succeeded") /\ UNCHANGED <<drops, sender, server>>

Sends(b) == AddKey(b) \/ Answered(b) \/ NotAnswered(b) \/ Refused(b)

DropNext ==
  \/ StartBattle \/ EndFight \/ EndOfAction \/ NextBattle \/ ReadFails \/ ReadDrops
  \/ SetBody \/ SetExtraParam \/ RunReport \/ CloseReports
  \/ \E b \in Battle : Sends(b)
-----------------------------------------------------------------------------
\* The drops of a battle are added up at most once, however often its end is seen, and
\* no battle begins once there is enough; and the statistics count a battle at most
\* once through all tries and both addresses, unless another report was begun while
\* its own was still on its way.
DropsAreReported ==
  task = "drops" =>
    /\ drops.stats <= server.begun
    /\ at = "fight" /\ server.ends = 0 => drops.stats < drops.wanted
    /\ \A b \in Battle \ server.mixed : server.counted[b] <= 1
=============================================================================
