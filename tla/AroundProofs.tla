---------------------------- MODULE AroundProofs ----------------------------
(***************************************************************************)
(* What there is around the worker keeps: the Controllers of any number of *)
(* Assistants, alone and together (InitedCanCapture, DroppedForAReason,    *)
(* SharedKept and ReleasedByTheLast); the files of an update and of the    *)
(* resources (FilesAreWhole); whom the main window acts for                *)
(* (ActsForMainTasks); and what is loaded (the half of ResourcesAreMeant   *)
(* that is Resources').  Each for any values of the constants.             *)
(***************************************************************************)
EXTENDS Around, Sequences, FiniteSetTheorems, TLAPS

TypeOK ==
  /\ pc \in [Instance -> Pc] /\ back \in [Instance -> Pc]
  /\ inited \in [Instance -> BOOLEAN] /\ method \in [Instance -> BOOLEAN] /\ needExit \in [Instance -> BOOLEAN]
  /\ tries \in [Instance -> Nat] /\ reg \in [Instance -> Int]
  /\ count \in Int /\ races \in Nat

\* make_instance_inited goes on to one of these.
Callers == {"clear", "dropped", "kill", "idle"}
Updating == {"count", "write"}
Inside == Updating \cup {"release"}

BackIsCaller == \A i \in Instance : pc[i] \in Inside => back[i] \in Callers

\* Where a thread has no connection, even if make_instance_inited is still to return there.
Unconnected == {"clear", "connect", "identify", "setup", "touch", "capture", "dropped", "kill", "destroyed"}

NoneWithoutConnection ==
  \A i \in Instance :
    pc[i] \in Unconnected \/ (pc[i] \in Inside /\ back[i] \in Unconnected) => inited[i] = FALSE

\* The loop of call_command is left for good after the last reconnect.
TriesAreBounded ==
  \A i \in Instance :
    /\ pc[i] = "loop" => tries[i] <= ReconnectTimes
    /\ pc[i] \in {"sleep", "reconnect", "recall"} => tries[i] < ReconnectTimes
    /\ pc[i] = "drop" => tries[i] = ReconnectTimes \/ needExit[i] = TRUE

Apart ==
  races = 0 => \A i \in Between : reg[i] = count /\ \A j \in Between : i = j

CountIsRight == races = 0 => count = Cardinality(Counted)

NothingOwed == races = 0 => ((\A i \in Instance : pc[i] = "destroyed" /\ child[i]) => ~owed)

CInv == TypeOK /\ BackIsCaller /\ NoneWithoutConnection /\ TriesAreBounded

-----------------------------------------------------------------------------
\* Types, control and tries are kept by every step.
LEMMA ControlStep ==
  ASSUME CInv, NEW i \in Instance, Proceeds(i) \/ Asked(i)
  PROVE  CInv'
<1> USE ControllerAssumption DEF CInv, TypeOK, BackIsCaller, NoneWithoutConnection, Unconnected, TriesAreBounded, Inside, Updating,
    Callers, Goes, GoesTo, Put, own, shared, Pc
<1>1. CASE CountRead(i)
  BY <1>1 DEF CountRead
<1>2. CASE CountWrite(i)
  BY <1>2 DEF CountWrite, Returns, Updated
<1>3. CASE Release(i)
  BY <1>3 DEF Release, Returns
<1>4. CASE Connect(i)
  BY <1>4 DEF Connect, MakeInited
<1>5. CASE Clear(i)
  BY <1>5 DEF Clear
<1>6. CASE Fails(i)
  BY <1>6 DEF Fails
<1>7. CASE ConnectCommand(i)
  BY <1>7 DEF ConnectCommand
<1>8. CASE Identify(i)
  BY <1>8 DEF Identify
<1>9. CASE Setup(i)
  BY <1>9 DEF Setup
<1>10. CASE Touch(i)
  BY <1>10 DEF Touch
<1>11. CASE FindMethod(i)
  BY <1>11 DEF FindMethod, MakeInited
<1>12. CASE StartTask(i)
  BY <1>12 DEF StartTask
<1>13. CASE Stop(i)
  BY <1>13 DEF Stop
<1>14. CASE GetImage(i)
  BY <1>14 DEF GetImage
<1>15. CASE Shot(i)
  BY <1>15 DEF Shot
<1>16. CASE MissShot(i)
  BY <1>16 DEF MissShot
<1>17. CASE CallFails(i)
  BY <1>17 DEF CallFails
<1>18. CASE Blank(i)
  BY <1>18 DEF Blank
<1>19. CASE TryToReconnect(i)
  BY <1>19 DEF TryToReconnect
<1>20. CASE Sleep(i)
  BY <1>20 DEF Sleep
<1>21. CASE Reconnect(i)
  BY <1>21 DEF Reconnect
<1>22. CASE Recall(i)
  BY <1>22 DEF Recall
<1>23. CASE Drop(i)
  BY <1>23 DEF Drop, MakeInited
<1>24. CASE Dropped(i)
  BY <1>24 DEF Dropped
<1>25. CASE Destroy(i)
  BY <1>25 DEF Destroy, MakeInited
<1>26. CASE KillAdbDaemon(i)
  BY <1>26 DEF KillAdbDaemon
<1> QED
  BY <1>1, <1>2, <1>3, <1>4, <1>5, <1>6, <1>7, <1>8, <1>9, <1>10, <1>11, <1>12, <1>13, <1>14, <1>15, <1>16, <1>17, <1>18, <1>19, <1>20, <1>21, <1>22, <1>23, <1>24, <1>25, <1>26
     DEF Proceeds, Asked

-----------------------------------------------------------------------------
\* A step that is not about the count leaves it right.
LEMMA QuietStep ==
  ASSUME Apart, CountIsRight, NEW i \in Instance, pc[i] \notin Updating, pc'[i] \notin Updating,
         \A j \in Instance : j # i => pc'[j] = pc[j], UNCHANGED <<inited, reg, count, races>>
  PROVE  Apart' /\ CountIsRight'
<1>1. Between' = Between
  BY DEF Between, Updating
<1>2. Counted' = Counted
  BY DEF Counted, Updating
<1>3. Apart'
  BY <1>1 DEF Apart
<1>4. CountIsRight'
  BY <1>2 DEF CountIsRight
<1> QED
  BY <1>3, <1>4

\* make_instance_inited changes the flag, and the count follows later.
LEMMA FlipStep ==
  ASSUME TypeOK, Apart, CountIsRight, NEW i \in Instance, NEW v \in BOOLEAN, inited[i] # v,
         pc[i] \notin Updating, pc' = [pc EXCEPT ![i] = "count"], inited' = [inited EXCEPT ![i] = v],
         UNCHANGED <<reg, count, races>>
  PROVE  Apart' /\ CountIsRight'
<1>1. Between' = Between
  BY DEF TypeOK, Between, Updating
<1>2. ASSUME NEW j \in Instance
      PROVE  (inited'[j] = (pc'[j] \notin Updating)) <=> (inited[j] = (pc[j] \notin Updating))
  <2>1. CASE j = i
    <3>1. pc'[j] = "count" /\ inited'[j] = v
      BY <2>1 DEF TypeOK
    <3>2. inited[j] = ~v
      BY <2>1 DEF TypeOK
    <3> QED
      BY <2>1, <3>1, <3>2 DEF Updating
  <2>2. CASE j # i
    BY <2>2 DEF TypeOK
  <2> QED
    BY <2>1, <2>2
<1>3. Counted' = Counted
  BY <1>2 DEF Counted, Updating
<1>4. Apart'
  BY <1>1 DEF Apart
<1>5. CountIsRight'
  BY <1>3 DEF CountIsRight
<1> QED
  BY <1>4, <1>5

\* Who reads the count is the only one to do so, or the overlap is counted.
LEMMA ReadStep ==
  ASSUME TypeOK, Apart, CountIsRight, NEW i \in Instance, CountRead(i)
  PROVE  Apart' /\ CountIsRight'
<1> USE DEF TypeOK, CountRead, Goes, Put, shared
<1>1. Counted' = Counted
  BY DEF Counted
<1>2. CountIsRight'
  <2>1. count' = count /\ (races' = 0 => races = 0)
    OBVIOUS
  <2> QED
    BY <1>1, <2>1 DEF CountIsRight
<1>3. Apart'
  <2>1. SUFFICES ASSUME races' = 0
                 PROVE  \A j \in Between' : reg'[j] = count' /\ \A k \in Between' : j = k
    BY DEF Apart
  <2>2. Between = {} /\ races = 0
    BY <2>1
  <2>3. Between' = {i}
    BY <2>2 DEF Between
  <2> QED
    BY <2>3
<1> QED
  BY <1>2, <1>3

\* What is written is what was read, and one more or less.
LEMMA WriteStep ==
  ASSUME TypeOK, BackIsCaller, Apart, CountIsRight, NEW i \in Instance, CountWrite(i)
  PROVE  Apart' /\ CountIsRight'
<1>0. /\ pc[i] = "write" /\ pc'[i] \notin Updating /\ \A j \in Instance : j # i => pc'[j] = pc[j]
      /\ UNCHANGED <<inited, races>> /\ count' = Updated(i)
  BY DEF TypeOK, BackIsCaller, Callers, Inside, Updating, CountWrite, Returns, GoesTo
<1>1. SUFFICES ASSUME races = 0
               PROVE  Apart' /\ count' = Cardinality(Counted')
  BY <1>0 DEF Apart, CountIsRight
<1>2. i \in Between /\ reg[i] = Cardinality(Counted) /\ Between = {i}
  BY <1>0, <1>1 DEF Apart, CountIsRight, Between
<1>3. Between' = {}
  BY <1>0, <1>2 DEF Between, Updating
<1>4. Apart'
  BY <1>3 DEF Apart
<1>5. IsFiniteSet(Counted)
  <2>1. Counted \subseteq Instance
    BY DEF Counted
  <2> QED
    BY <2>1, ControllerAssumption, FS_Subset
<1>6. CASE inited[i] = TRUE
  <2>1. i \notin Counted
    BY <1>0, <1>6 DEF Counted
  <2>2. Counted' = Counted \cup {i}
    BY <1>0, <1>6 DEF Counted, Updating
  <2>3. count' = reg[i] + 1
    BY <1>0, <1>6 DEF Updated
  <2> QED
    BY <1>2, <1>4, <1>5, <2>1, <2>2, <2>3, FS_AddElement
<1>7. CASE inited[i] = FALSE
  <2>1. i \in Counted
    BY <1>0, <1>7 DEF Counted
  <2>2. Counted' = Counted \ {i}
    BY <1>0, <1>7 DEF Counted, Updating
  <2>3. count' = reg[i] - 1
    BY <1>0, <1>7 DEF Updated
  <2> QED
    BY <1>2, <1>4, <1>5, <2>1, <2>2, <2>3, FS_RemoveElement
<1> QED
  BY <1>6, <1>7 DEF TypeOK

\* m_instance_count is right after every step, as long as no two updates overlap.
LEMMA CountStep ==
  ASSUME TypeOK, BackIsCaller, Apart, CountIsRight, NEW i \in Instance, Proceeds(i) \/ Asked(i)
  PROVE  Apart' /\ CountIsRight'
<1> DEFINE Quiet == /\ pc[i] \notin Updating /\ pc'[i] \notin Updating
                    /\ \A j \in Instance : j # i => pc'[j] = pc[j]
                    /\ UNCHANGED <<inited, reg, count, races>>
           Flips == \E v \in BOOLEAN : /\ inited[i] # v /\ pc[i] \notin Updating /\ pc' = [pc EXCEPT ![i] = "count"]
                                       /\ inited' = [inited EXCEPT ![i] = v] /\ UNCHANGED <<reg, count, races>>
<1>a. ASSUME Quiet PROVE Apart' /\ CountIsRight'
  BY <1>a, QuietStep
<1>b. ASSUME Flips PROVE Apart' /\ CountIsRight'
  BY <1>b, FlipStep
<1>1. CASE CountRead(i)
  BY <1>1, ReadStep
<1>2. CASE CountWrite(i)
  BY <1>2, WriteStep
<1>3. CASE Release(i)
  <2>1. Quiet
    BY <1>3 DEF Release, Goes, GoesTo, Updating, shared, TypeOK, Returns, BackIsCaller, Inside, Callers
  <2> QED
    BY <1>a, <2>1
<1>4. CASE Connect(i)
  <2>1. CASE inited[i] = FALSE
    <3>1. Quiet
      BY <1>4, <2>1 DEF TypeOK, Connect, MakeInited, Put, GoesTo, Updating, shared
    <3> QED
      BY <1>a, <3>1
  <2>2. CASE inited[i] # FALSE
    <3>1. Flips
      BY <1>4, <2>2 DEF TypeOK, Connect, MakeInited, Put, GoesTo, Updating, shared
    <3> QED
      BY <1>b, <3>1
  <2> QED
    BY <2>1, <2>2
<1>5. CASE Clear(i)
  <2>1. Quiet
    BY <1>5 DEF Clear, Goes, GoesTo, Updating, shared, TypeOK
  <2> QED
    BY <1>a, <2>1
<1>6. CASE Fails(i)
  <2>1. Quiet
    BY <1>6 DEF Fails, Goes, GoesTo, Updating, shared, TypeOK
  <2> QED
    BY <1>a, <2>1
<1>7. CASE ConnectCommand(i)
  <2>1. Quiet
    BY <1>7 DEF ConnectCommand, Goes, GoesTo, Updating, shared, TypeOK
  <2> QED
    BY <1>a, <2>1
<1>8. CASE Identify(i)
  <2>1. Quiet
    BY <1>8 DEF Identify, Goes, GoesTo, Updating, shared, TypeOK
  <2> QED
    BY <1>a, <2>1
<1>9. CASE Setup(i)
  <2>1. Quiet
    BY <1>9 DEF Setup, Goes, GoesTo, Updating, shared, TypeOK
  <2> QED
    BY <1>a, <2>1
<1>10. CASE Touch(i)
  <2>1. Quiet
    BY <1>10 DEF Touch, Goes, GoesTo, Updating, shared, TypeOK
  <2> QED
    BY <1>a, <2>1
<1>11. CASE FindMethod(i)
  <2>1. CASE inited[i] = TRUE
    <3>1. Quiet
      BY <1>11, <2>1 DEF TypeOK, FindMethod, MakeInited, Put, GoesTo, Updating, shared
    <3> QED
      BY <1>a, <3>1
  <2>2. CASE inited[i] # TRUE
    <3>1. Flips
      BY <1>11, <2>2 DEF TypeOK, FindMethod, MakeInited, Put, GoesTo, Updating, shared
    <3> QED
      BY <1>b, <3>1
  <2> QED
    BY <2>1, <2>2
<1>12. CASE StartTask(i)
  <2>1. Quiet
    BY <1>12 DEF StartTask, Goes, GoesTo, Updating, shared, TypeOK
  <2> QED
    BY <1>a, <2>1
<1>13. CASE Stop(i)
  <2>1. UNCHANGED <<pc, inited, reg, count, races>>
    BY <1>13 DEF Stop, shared
  <2> QED
    BY <2>1 DEF Apart, CountIsRight, Between, Counted
<1>14. CASE GetImage(i)
  <2>1. Quiet
    BY <1>14 DEF GetImage, Goes, GoesTo, Updating, shared, TypeOK
  <2> QED
    BY <1>a, <2>1
<1>15. CASE Shot(i)
  <2>1. Quiet
    BY <1>15 DEF Shot, Goes, GoesTo, Updating, shared, TypeOK
  <2> QED
    BY <1>a, <2>1
<1>16. CASE MissShot(i)
  <2>1. Quiet
    BY <1>16 DEF MissShot, Goes, GoesTo, Updating, shared, TypeOK
  <2> QED
    BY <1>a, <2>1
<1>17. CASE CallFails(i)
  <2>1. Quiet
    BY <1>17 DEF CallFails, Goes, GoesTo, Updating, shared, TypeOK
  <2> QED
    BY <1>a, <2>1
<1>18. CASE Blank(i)
  <2>1. Quiet
    BY <1>18 DEF Blank, Goes, GoesTo, Updating, shared, TypeOK
  <2> QED
    BY <1>a, <2>1
<1>19. CASE TryToReconnect(i)
  <2>1. Quiet
    BY <1>19 DEF TryToReconnect, Goes, GoesTo, Updating, shared, TypeOK
  <2> QED
    BY <1>a, <2>1
<1>20. CASE Sleep(i)
  <2>1. Quiet
    BY <1>20 DEF Sleep, Goes, GoesTo, Updating, shared, TypeOK
  <2> QED
    BY <1>a, <2>1
<1>21. CASE Reconnect(i)
  <2>1. Quiet
    BY <1>21 DEF Reconnect, Goes, GoesTo, Updating, shared, TypeOK
  <2> QED
    BY <1>a, <2>1
<1>22. CASE Recall(i)
  <2>1. Quiet
    BY <1>22 DEF Recall, Goes, GoesTo, Updating, shared, TypeOK
  <2> QED
    BY <1>a, <2>1
<1>23. CASE Drop(i)
  <2>1. CASE inited[i] = FALSE
    <3>1. Quiet
      BY <1>23, <2>1 DEF TypeOK, Drop, MakeInited, Put, GoesTo, Updating, shared
    <3> QED
      BY <1>a, <3>1
  <2>2. CASE inited[i] # FALSE
    <3>1. Flips
      BY <1>23, <2>2 DEF TypeOK, Drop, MakeInited, Put, GoesTo, Updating, shared
    <3> QED
      BY <1>b, <3>1
  <2> QED
    BY <2>1, <2>2
<1>24. CASE Dropped(i)
  <2>1. Quiet
    BY <1>24 DEF Dropped, Goes, GoesTo, Updating, shared, TypeOK
  <2> QED
    BY <1>a, <2>1
<1>25. CASE Destroy(i)
  <2>1. CASE inited[i] = FALSE
    <3>1. Quiet
      BY <1>25, <2>1 DEF TypeOK, Destroy, MakeInited, Put, GoesTo, Updating, shared
    <3> QED
      BY <1>a, <3>1
  <2>2. CASE inited[i] # FALSE
    <3>1. Flips
      BY <1>25, <2>2 DEF TypeOK, Destroy, MakeInited, Put, GoesTo, Updating, shared
    <3> QED
      BY <1>b, <3>1
  <2> QED
    BY <2>1, <2>2
<1>26. CASE KillAdbDaemon(i)
  <2>1. Quiet
    BY <1>26 DEF KillAdbDaemon, Goes, GoesTo, Updating, shared, TypeOK
  <2> QED
    BY <1>a, <2>1
<1> QED
  BY <1>1, <1>2, <1>3, <1>4, <1>5, <1>6, <1>7, <1>8, <1>9, <1>10, <1>11, <1>12, <1>13, <1>14, <1>15, <1>16, <1>17, <1>18, <1>19, <1>20, <1>21, <1>22, <1>23, <1>24, <1>25, <1>26
     DEF Proceeds, Asked

-----------------------------------------------------------------------------
\* An instance is gone only when kill_adb_daemon has looked whether it is the last.
LEMMA GoneByKill ==
  ASSUME TypeOK, BackIsCaller, NEW i \in Instance, Proceeds(i) \/ Asked(i), pc'[i] = "destroyed"
  PROVE  KillAdbDaemon(i)
<1> USE DEF TypeOK, BackIsCaller, Inside, Updating, Callers, Goes, GoesTo
<1>1. CASE CountRead(i)
  BY <1>1 DEF CountRead
<1>2. CASE CountWrite(i)
  BY <1>2 DEF CountWrite, Returns
<1>3. CASE Release(i)
  BY <1>3 DEF Release, Returns
<1>4. CASE Connect(i)
  BY <1>4 DEF Connect, MakeInited
<1>5. CASE Clear(i)
  BY <1>5 DEF Clear
<1>6. CASE Fails(i)
  BY <1>6 DEF Fails
<1>7. CASE ConnectCommand(i)
  BY <1>7 DEF ConnectCommand
<1>8. CASE Identify(i)
  BY <1>8 DEF Identify
<1>9. CASE Setup(i)
  BY <1>9 DEF Setup
<1>10. CASE Touch(i)
  BY <1>10 DEF Touch
<1>11. CASE FindMethod(i)
  BY <1>11 DEF FindMethod, MakeInited
<1>12. CASE StartTask(i)
  BY <1>12 DEF StartTask
<1>13. CASE Stop(i)
  BY <1>13 DEF Stop
<1>14. CASE GetImage(i)
  BY <1>14 DEF GetImage
<1>15. CASE Shot(i)
  BY <1>15 DEF Shot
<1>16. CASE MissShot(i)
  BY <1>16 DEF MissShot
<1>17. CASE CallFails(i)
  BY <1>17 DEF CallFails
<1>18. CASE Blank(i)
  BY <1>18 DEF Blank
<1>19. CASE TryToReconnect(i)
  BY <1>19 DEF TryToReconnect
<1>20. CASE Sleep(i)
  BY <1>20 DEF Sleep
<1>21. CASE Reconnect(i)
  BY <1>21 DEF Reconnect
<1>22. CASE Recall(i)
  BY <1>22 DEF Recall
<1>23. CASE Drop(i)
  BY <1>23 DEF Drop, MakeInited
<1>24. CASE Dropped(i)
  BY <1>24 DEF Dropped
<1>25. CASE Destroy(i)
  BY <1>25 DEF Destroy, MakeInited
<1>26. CASE KillAdbDaemon(i)
  BY <1>26
<1> QED
  BY <1>1, <1>2, <1>3, <1>4, <1>5, <1>6, <1>7, <1>8, <1>9, <1>10, <1>11, <1>12, <1>13, <1>14, <1>15, <1>16, <1>17, <1>18, <1>19, <1>20, <1>21, <1>22, <1>23, <1>24, <1>25, <1>26
     DEF Proceeds, Asked

\* When all are gone, nothing is owed.
LEMMA OwedStep ==
  ASSUME TypeOK, BackIsCaller, NoneWithoutConnection, CountIsRight, NEW i \in Instance, Proceeds(i) \/ Asked(i)
  PROVE  NothingOwed'
<1>1. SUFFICES ASSUME races' = 0, \A j \in Instance : pc'[j] = "destroyed" /\ child'[j]
               PROVE  ~owed'
  BY DEF NothingOwed
<1>2. KillAdbDaemon(i)
  BY <1>1, GoneByKill
<1>3. \A j \in Instance : pc[j] \in {"kill", "destroyed"}
  BY <1>1, <1>2 DEF TypeOK, KillAdbDaemon, Goes
<1>4. \A j \in Instance : inited[j] = FALSE
  BY <1>3 DEF NoneWithoutConnection, Unconnected
<1>5. Counted = {}
  BY <1>3, <1>4 DEF Counted
<1>6. count = 0
  <2>1. races = 0
    BY <1>1, <1>2 DEF KillAdbDaemon
  <2> QED
    BY <1>5, <2>1, FS_EmptySet DEF CountIsRight
<1>7. child[i]
  BY <1>1, <1>2 DEF KillAdbDaemon, own
<1> QED
  BY <1>2, <1>6, <1>7 DEF KillAdbDaemon

\* Who counts as connected keeps a way to take pictures.
LEMMA CaptureStep ==
  ASSUME TypeOK, NoneWithoutConnection, InitedCanCapture, NEW i \in Instance, Proceeds(i) \/ Asked(i)
  PROVE  InitedCanCapture'
<1> USE DEF TypeOK, NoneWithoutConnection, InitedCanCapture, Unconnected, Goes, Put, own
<1>1. CASE CountRead(i)
  BY <1>1 DEF CountRead
<1>2. CASE CountWrite(i)
  BY <1>2 DEF CountWrite, Returns
<1>3. CASE Release(i)
  BY <1>3 DEF Release, Returns
<1>4. CASE Connect(i)
  BY <1>4 DEF Connect, MakeInited
<1>5. CASE Clear(i)
  BY <1>5 DEF Clear
<1>6. CASE Fails(i)
  BY <1>6 DEF Fails
<1>7. CASE ConnectCommand(i)
  BY <1>7 DEF ConnectCommand
<1>8. CASE Identify(i)
  BY <1>8 DEF Identify
<1>9. CASE Setup(i)
  BY <1>9 DEF Setup
<1>10. CASE Touch(i)
  BY <1>10 DEF Touch
<1>11. CASE FindMethod(i)
  BY <1>11 DEF FindMethod, MakeInited
<1>12. CASE StartTask(i)
  BY <1>12 DEF StartTask
<1>13. CASE Stop(i)
  BY <1>13 DEF Stop
<1>14. CASE GetImage(i)
  BY <1>14 DEF GetImage
<1>15. CASE Shot(i)
  BY <1>15 DEF Shot
<1>16. CASE MissShot(i)
  BY <1>16 DEF MissShot
<1>17. CASE CallFails(i)
  BY <1>17 DEF CallFails
<1>18. CASE Blank(i)
  BY <1>18 DEF Blank
<1>19. CASE TryToReconnect(i)
  BY <1>19 DEF TryToReconnect
<1>20. CASE Sleep(i)
  BY <1>20 DEF Sleep
<1>21. CASE Reconnect(i)
  BY <1>21 DEF Reconnect
<1>22. CASE Recall(i)
  BY <1>22 DEF Recall
<1>23. CASE Drop(i)
  BY <1>23 DEF Drop, MakeInited
<1>24. CASE Dropped(i)
  BY <1>24 DEF Dropped
<1>25. CASE Destroy(i)
  BY <1>25 DEF Destroy, MakeInited
<1>26. CASE KillAdbDaemon(i)
  BY <1>26 DEF KillAdbDaemon
<1> QED
  BY <1>1, <1>2, <1>3, <1>4, <1>5, <1>6, <1>7, <1>8, <1>9, <1>10, <1>11, <1>12, <1>13, <1>14, <1>15, <1>16, <1>17, <1>18, <1>19, <1>20, <1>21, <1>22, <1>23, <1>24, <1>25, <1>26
     DEF Proceeds, Asked

\* The flag is taken back in three places only.
LEMMA DropStep ==
  ASSUME TypeOK, TriesAreBounded, NEW i \in Instance, Proceeds(i) \/ Asked(i),
         NEW j \in Instance, inited[j] = TRUE, inited'[j] = FALSE
  PROVE  pc[j] = "idle" \/ (pc[j] = "drop" /\ (tries[j] = ReconnectTimes \/ needExit[j] = TRUE))
<1> USE DEF TypeOK, TriesAreBounded, Goes, Put
<1>1. CASE CountRead(i)
  BY <1>1 DEF CountRead
<1>2. CASE CountWrite(i)
  BY <1>2 DEF CountWrite, Returns
<1>3. CASE Release(i)
  BY <1>3 DEF Release, Returns
<1>4. CASE Connect(i)
  BY <1>4 DEF Connect, MakeInited
<1>5. CASE Clear(i)
  BY <1>5 DEF Clear
<1>6. CASE Fails(i)
  BY <1>6 DEF Fails
<1>7. CASE ConnectCommand(i)
  BY <1>7 DEF ConnectCommand
<1>8. CASE Identify(i)
  BY <1>8 DEF Identify
<1>9. CASE Setup(i)
  BY <1>9 DEF Setup
<1>10. CASE Touch(i)
  BY <1>10 DEF Touch
<1>11. CASE FindMethod(i)
  BY <1>11 DEF FindMethod, MakeInited
<1>12. CASE StartTask(i)
  BY <1>12 DEF StartTask
<1>13. CASE Stop(i)
  BY <1>13 DEF Stop
<1>14. CASE GetImage(i)
  BY <1>14 DEF GetImage
<1>15. CASE Shot(i)
  BY <1>15 DEF Shot
<1>16. CASE MissShot(i)
  BY <1>16 DEF MissShot
<1>17. CASE CallFails(i)
  BY <1>17 DEF CallFails
<1>18. CASE Blank(i)
  BY <1>18 DEF Blank
<1>19. CASE TryToReconnect(i)
  BY <1>19 DEF TryToReconnect
<1>20. CASE Sleep(i)
  BY <1>20 DEF Sleep
<1>21. CASE Reconnect(i)
  BY <1>21 DEF Reconnect
<1>22. CASE Recall(i)
  BY <1>22 DEF Recall
<1>23. CASE Drop(i)
  BY <1>23 DEF Drop, MakeInited
<1>24. CASE Dropped(i)
  BY <1>24 DEF Dropped
<1>25. CASE Destroy(i)
  BY <1>25 DEF Destroy, MakeInited
<1>26. CASE KillAdbDaemon(i)
  BY <1>26 DEF KillAdbDaemon
<1> QED
  BY <1>1, <1>2, <1>3, <1>4, <1>5, <1>6, <1>7, <1>8, <1>9, <1>10, <1>11, <1>12, <1>13, <1>14, <1>15, <1>16, <1>17, <1>18, <1>19, <1>20, <1>21, <1>22, <1>23, <1>24, <1>25, <1>26
     DEF Proceeds, Asked

\* release() is called by who has just written the count.
LEMMA ReleaseStep ==
  ASSUME TypeOK, BackIsCaller, CountIsRight', NEW i \in Instance, Proceeds(i) \/ Asked(i), races' = 0,
         NEW j \in Instance, pc[j] # "release", pc'[j] = "release"
  PROVE  Counted' = {}
<1> USE DEF TypeOK, BackIsCaller, Inside, Updating, Callers, Goes, GoesTo
<1>1. CASE CountRead(i)
  BY <1>1 DEF CountRead
<1>2. CASE CountWrite(i)
  <2>1. count' = 0
    BY <1>2 DEF CountWrite, Returns
  <2>2. Cardinality(Counted') = 0
    BY <2>1 DEF CountIsRight
  <2>3. IsFiniteSet(Counted')
    <3>1. Counted' \subseteq Instance
      BY DEF Counted
    <3> QED
      BY <3>1, ControllerAssumption, FS_Subset
  <2> QED
    BY <2>2, <2>3, FS_EmptySet
<1>3. CASE Release(i)
  BY <1>3 DEF Release, Returns
<1>4. CASE Connect(i)
  BY <1>4 DEF Connect, MakeInited
<1>5. CASE Clear(i)
  BY <1>5 DEF Clear
<1>6. CASE Fails(i)
  BY <1>6 DEF Fails
<1>7. CASE ConnectCommand(i)
  BY <1>7 DEF ConnectCommand
<1>8. CASE Identify(i)
  BY <1>8 DEF Identify
<1>9. CASE Setup(i)
  BY <1>9 DEF Setup
<1>10. CASE Touch(i)
  BY <1>10 DEF Touch
<1>11. CASE FindMethod(i)
  BY <1>11 DEF FindMethod, MakeInited
<1>12. CASE StartTask(i)
  BY <1>12 DEF StartTask
<1>13. CASE Stop(i)
  BY <1>13 DEF Stop
<1>14. CASE GetImage(i)
  BY <1>14 DEF GetImage
<1>15. CASE Shot(i)
  BY <1>15 DEF Shot
<1>16. CASE MissShot(i)
  BY <1>16 DEF MissShot
<1>17. CASE CallFails(i)
  BY <1>17 DEF CallFails
<1>18. CASE Blank(i)
  BY <1>18 DEF Blank
<1>19. CASE TryToReconnect(i)
  BY <1>19 DEF TryToReconnect
<1>20. CASE Sleep(i)
  BY <1>20 DEF Sleep
<1>21. CASE Reconnect(i)
  BY <1>21 DEF Reconnect
<1>22. CASE Recall(i)
  BY <1>22 DEF Recall
<1>23. CASE Drop(i)
  BY <1>23 DEF Drop, MakeInited
<1>24. CASE Dropped(i)
  BY <1>24 DEF Dropped
<1>25. CASE Destroy(i)
  BY <1>25 DEF Destroy, MakeInited
<1>26. CASE KillAdbDaemon(i)
  BY <1>26 DEF KillAdbDaemon
<1> QED
  BY <1>1, <1>2, <1>3, <1>4, <1>5, <1>6, <1>7, <1>8, <1>9, <1>10, <1>11, <1>12, <1>13, <1>14, <1>15, <1>16, <1>17, <1>18, <1>19, <1>20, <1>21, <1>22, <1>23, <1>24, <1>25, <1>26
     DEF Proceeds, Asked

-----------------------------------------------------------------------------
SInv == CInv /\ Apart /\ CountIsRight /\ NothingOwed /\ InitedCanCapture

\* All of it holds in the beginning.
LEMMA InitInv == Init => SInv
<1> SUFFICES ASSUME Init PROVE SInv
  OBVIOUS
<1> USE ControllerAssumption DEF Init
<1>1. TypeOK
  BY DEF TypeOK, Pc
<1>2. BackIsCaller /\ NoneWithoutConnection /\ TriesAreBounded
  BY DEF BackIsCaller, NoneWithoutConnection, TriesAreBounded, Inside, Updating, Unconnected
<1>3. Apart /\ NothingOwed /\ InitedCanCapture
  BY DEF Apart, Between, NothingOwed, InitedCanCapture
<1>4. CountIsRight
  <2>1. Counted = {}
    BY DEF Counted
  <2> QED
    BY <2>1, FS_EmptySet DEF CountIsRight
<1> QED
  BY <1>1, <1>2, <1>3, <1>4 DEF SInv, CInv

\* Every step keeps all of it.
LEMMA NextInv == SInv /\ [Next]_vars => SInv'
<1> SUFFICES ASSUME SInv, [Next]_vars PROVE SInv'
  OBVIOUS
<1>1. CASE UNCHANGED vars
  BY <1>1 DEF vars, own, shared, SInv, CInv, TypeOK, BackIsCaller, NoneWithoutConnection, TriesAreBounded, Apart, Between,
     CountIsRight, Counted, NothingOwed, InitedCanCapture
<1>2. ASSUME NEW i \in Instance, Proceeds(i) \/ Asked(i)
      PROVE  SInv'
  BY <1>2, ControlStep, CountStep, OwedStep, CaptureStep DEF SInv, CInv
<1> QED
  BY <1>1, <1>2 DEF Next

\* The invariant.
LEMMA SInvAlways == Spec => []SInv
BY InitInv, NextInv, PTL DEF Spec

\* A device that counts as connected can be looked at: connect() sets the flag last, and
\* clears the method only after it has taken the flag back.
THEOREM ConnectedCanCapture == Spec => []InitedCanCapture
<1>1. SInv => InitedCanCapture
  BY DEF SInv
<1> QED
  BY <1>1, SInvAlways, PTL

\* m_instance_count is the number of the instances counted in, and nothing is owed in the
\* end, as long as no two threads update the count at once.
THEOREM CountIsShared == Spec => []SharedKept
<1>1. SInv => SharedKept
  BY DEF SInv, CountIsRight, NothingOwed, SharedKept
<1> QED
  BY <1>1, SInvAlways, PTL

\* The final release is run by the last instance only.
THEOREM LastReleases == Spec => ReleasedByTheLast
<1>1. SInv /\ SInv' /\ [Next]_vars =>
        [races' = 0 => \A i \in Instance : pc[i] # "release" /\ pc'[i] = "release" => Counted' = {}]_vars
  <2> SUFFICES ASSUME SInv, SInv', Next, races' = 0, NEW j \in Instance, pc[j] # "release", pc'[j] = "release"
               PROVE  Counted' = {}
    OBVIOUS
  <2>1. PICK i \in Instance : Proceeds(i) \/ Asked(i)
    BY DEF Next
  <2> QED
    BY <2>1, ReleaseStep DEF SInv, CInv
<1> QED
  BY <1>1, SInvAlways, PTL DEF Spec, ReleasedByTheLast

\* A connection is given up for one of three reasons.
THEOREM DropsAreReasoned == Spec => DroppedForAReason
<1>1. SInv /\ [Next]_vars =>
        [\A i \in Instance : inited[i] /\ ~inited'[i] =>
           \/ pc[i] = "idle"
           \/ pc[i] = "drop" /\ (tries[i] = ReconnectTimes \/ needExit[i])]_vars
  <2> SUFFICES ASSUME SInv, Next, SInv', NEW j \in Instance, inited[j], ~inited'[j]
               PROVE  pc[j] = "idle" \/ (pc[j] = "drop" /\ (tries[j] = ReconnectTimes \/ needExit[j]))
    BY NextInv
  <2>1. PICK i \in Instance : Proceeds(i) \/ Asked(i)
    BY DEF Next
  <2>2. inited[j] = TRUE /\ inited'[j] = FALSE
    BY DEF SInv, CInv, TypeOK
  <2>3. pc[j] = "idle" \/ (pc[j] = "drop" /\ (tries[j] = ReconnectTimes \/ needExit[j] = TRUE))
    BY <2>1, <2>2, DropStep DEF SInv, CInv
  <2> QED
    BY <2>3
<1> QED
  BY <1>1, SInvAlways, PTL DEF Spec, DroppedForAReason
-----------------------------------------------------------------------------
(* The updates of the main window: what is on the disk wherever one was cut off. *)

OfDisk == {"file", "packages", "tag", "package", "latest", "promised", "missed", "mixed", "clash", "crashes"}
OfGui == {"at", "version", "tag", "package", "check", "target", "try", "new", "hand", "window"}
OfLeaving == {"version", "tag", "released"}

\* Of the records only what the argument needs; the program that was left has released
\* the settings.
UpdateShape ==
  /\ DOMAIN disk = OfDisk /\ DOMAIN gui = OfGui /\ DOMAIN leaving = OfLeaving
  /\ disk.clash \in BOOLEAN /\ leaving.released = TRUE

DiskTypes ==
  /\ disk.file \in [Update!Files -> Nat] /\ disk.packages \in [Update!Package -> {"none", "part", "whole"}]
  /\ disk.package \in Update!Package \cup {Update!NoPackage} /\ disk.latest \in Update!Version

\* A program that runs knows what gui.json says, and downloads what it has named.
GuiKnows ==
  /\ gui.at # "off" => gui.tag = disk.tag /\ gui.package = disk.package
  /\ gui.at = "boot" => gui.check = "idle" /\ gui.hand = "none"
  /\ gui.at = "run" =>
       /\ gui.check \in {"download", "copy"} => gui.package # Update!NoPackage
       /\ gui.check = "found" => gui.target \in Update!Version /\ gui.version < gui.target

\* What was promised is there, and is what the next start will look for.
PromiseIsKept ==
  /\ disk.missed = FALSE
  /\ disk.promised # Update!NoPackage =>
       disk.promised = disk.package /\ disk.tag # Update!NoTag /\ disk.packages[disk.package] # "none"

\* The files are of one version, the one a package that is named leads from or to,
Sound(v) == v \in Update!Version /\ disk.file = Update!Manifest(v) /\ (disk.package # Update!NoPackage => v \in {disk.package[1], disk.package[2]})

\* or some are of the one and some of the other, and the package is still there.
Cut ==
  /\ disk.package \in Update!Package /\ disk.tag # Update!NoTag /\ disk.packages[disk.package] = "whole"
  /\ \A f \in Update!Files : disk.file[f] \in {0, Update!Manifest(disk.package[1])[f], Update!Manifest(disk.package[2])[f]}

\* What still has to be put in place
ToPlace ==
  /\ Cut /\ gui.new \subseteq Update!InPackage(disk.package)
  /\ gui.at = "remove" => gui.new = Update!InPackage(disk.package) /\ gui.hand = "none"
  /\ gui.at = "apply" => /\ gui.hand \in gui.new \cup {"none"}
                         /\ \A f \in Update!Files \ gui.new : disk.file[f] = Update!Manifest(disk.package[2])[f]

FilesAt ==
  /\ disk.mixed = FALSE /\ gui.at \in {"off", "boot", "remove", "apply", "forget", "restart", "run"}
  /\ gui.at \in {"off", "boot"} => (\E v \in Update!Version : Sound(v)) \/ (Cut /\ leaving.version = 0)
  /\ gui.at = "boot" => gui.version = disk.file["core"] /\ gui.version # 0
  /\ gui.at \in {"remove", "apply"} => ToPlace
  /\ gui.at = "forget" => disk.package \in Update!Package /\ Sound(disk.package[2]) /\ disk.promised = Update!NoPackage
  /\ gui.at = "restart" => disk.package = Update!NoPackage /\ \E v \in Update!Version : Sound(v)
  /\ gui.at = "run" => Sound(gui.version)

\* As long as the program that was left has overwritten no package.
UpdateIsSafe == DiskTypes /\ GuiKnows /\ PromiseIsKept /\ FilesAt
UpdateInv == UpdateShape /\ (disk.clash = FALSE => UpdateIsSafe)

\* Versions and packages
LEMMA PackageIs ==
  ASSUME NEW p \in Update!Package
  PROVE  /\ p[1] \in Update!Version /\ p[2] \in Update!Version /\ p[1] < p[2] /\ p = <<p[1], p[2]>>
         /\ p # Update!NoPackage
BY AroundAssumption DEF Update!Package, Update!Version, Update!NoPackage

LEMMA ManifestIs ==
  ASSUME NEW v \in Update!Version
  PROVE  /\ v \in Nat /\ v # 0 /\ Update!Manifest(v) \in [Update!Files -> Nat] /\ Update!Manifest(v)["core"] = v
         /\ \A f \in Update!Files : Update!Manifest(v)[f] \in {0, v}
BY AroundAssumption DEF Update!Manifest, Update!Version, Update!Files

\* The first version is installed, and nothing is promised.
LEMMA UpdateStarts == ASSUME Update!UpdateInit PROVE UpdateInv
<1>1. /\ DOMAIN disk = OfDisk /\ disk.file = Update!Manifest(1) /\ disk.packages = [p \in Update!Package |-> "none"]
      /\ disk.package = Update!NoPackage /\ disk.latest = 1 /\ disk.promised = Update!NoPackage
      /\ disk.missed = FALSE /\ disk.mixed = FALSE /\ disk.clash = FALSE
  BY DEF Update!UpdateInit, OfDisk
<1>2. /\ DOMAIN gui = OfGui /\ gui.at = "off" /\ DOMAIN leaving = OfLeaving /\ leaving.released = TRUE
  BY DEF Update!UpdateInit, Update!NotRunning, Update!Gone, OfGui, OfLeaving
<1>3. 1 \in Update!Version
  BY AroundAssumption DEF Update!Version
<1>4. DiskTypes
  BY <1>1, <1>2, <1>3, ManifestIs DEF DiskTypes
<1>5. Sound(1)
  BY <1>1, <1>3 DEF Sound
<1>6. UpdateShape
  BY <1>1, <1>2 DEF UpdateShape
<1> QED
  BY <1>1, <1>2, <1>3, <1>4, <1>5, <1>6 DEF UpdateInv, UpdateIsSafe, GuiKnows, PromiseIsKept, FilesAt

\* What Update!Booted and the others are made of.
LEMMA BootedIs ==
  ASSUME UpdateShape
  PROVE  /\ DOMAIN Update!Booted = OfGui /\ Update!Booted.at = "boot" /\ Update!Booted.version = disk.file["core"]
         /\ Update!Booted.tag = disk.tag /\ Update!Booted.package = disk.package
         /\ Update!Booted.check = "idle" /\ Update!Booted.hand = "none"
BY DEF UpdateShape, OfDisk, OfGui, Update!Booted, Update!NotRunning

LEMMA NotRunningIs == DOMAIN Update!NotRunning = OfGui /\ Update!NotRunning.at = "off"
BY DEF OfGui, Update!NotRunning

LEMMA GoneIs == DOMAIN Update!Gone = OfLeaving /\ Update!Gone.version = 0 /\ Update!Gone.released = TRUE
BY DEF OfLeaving, Update!Gone

LEMMA StartKeeps == ASSUME UpdateInv, Update!Start PROVE UpdateInv'
<1>1. /\ gui.at = "off" /\ disk.file["core"] # 0 /\ gui' = Update!Booted /\ UNCHANGED <<disk, leaving>>
  BY DEF Update!Start
<1> QED
  BY <1>1, BootedIs DEF UpdateInv, UpdateShape, UpdateIsSafe, DiskTypes, GuiKnows, PromiseIsKept, FilesAt, Sound, Cut

LEMMA NothingKeeps == ASSUME UpdateInv, Update!NothingToApply PROVE UpdateInv'
<1>1. /\ gui.at = "boot" /\ ~Update!ToApply /\ leaving' = leaving
      /\ DOMAIN gui' = OfGui /\ gui'.at = "run" /\ gui'.version = gui.version /\ gui'.tag = gui.tag /\ gui'.package = gui.package
      /\ gui'.check = gui.check
  BY DEF Update!NothingToApply, Update!Opened, UpdateInv, UpdateShape, OfGui
<1>2. /\ DOMAIN disk' = OfDisk /\ disk'.file = disk.file /\ disk'.packages = disk.packages /\ disk'.tag = disk.tag
      /\ disk'.package = disk.package /\ disk'.latest = disk.latest /\ disk'.promised = disk.promised
      /\ disk'.missed = (disk.missed \/ disk.promised # Update!NoPackage) /\ disk'.mixed = disk.mixed /\ disk'.clash = disk.clash
  BY DEF Update!NothingToApply, UpdateInv, UpdateShape, OfDisk
<1>3. UpdateShape'
  BY <1>1, <1>2 DEF UpdateInv, UpdateShape
<1>4. ASSUME disk'.clash = FALSE PROVE UpdateIsSafe'
  <2>1. UpdateIsSafe
    BY <1>2, <1>4 DEF UpdateInv
  <2>2. ~Cut /\ PromiseIsKept'
    BY <1>1, <1>2, <2>1, PackageIs DEF UpdateIsSafe, GuiKnows, PromiseIsKept, Cut, Update!ToApply
  <2>3. PICK v \in Update!Version : Sound(v)
    BY <1>1, <2>1, <2>2 DEF UpdateIsSafe, FilesAt
  <2>4. v = gui.version
    BY <1>1, <2>1, <2>3, ManifestIs DEF UpdateIsSafe, FilesAt, Sound
  <2> QED
    BY <1>1, <1>2, <2>1, <2>2, <2>3, <2>4 DEF UpdateIsSafe, DiskTypes, GuiKnows, FilesAt, Sound
<1> QED
  BY <1>3, <1>4 DEF UpdateInv

LEMMA ExtractKeeps == ASSUME UpdateInv, Update!Extract PROVE UpdateInv'
<1>1. gui.at = "boot" /\ Update!ToApply /\ leaving' = leaving
  BY DEF Update!Extract
<1>2. CASE disk.packages[gui.package] = "whole"
  <2>1. /\ DOMAIN gui' = OfGui /\ gui'.at = "remove" /\ gui'.version = gui.version /\ gui'.tag = gui.tag /\ gui'.package = gui.package
        /\ gui'.new = Update!InPackage(gui.package) /\ gui'.hand = gui.hand
    BY <1>2 DEF Update!Extract, UpdateInv, UpdateShape, OfGui
  <2>2. /\ DOMAIN disk' = OfDisk /\ disk'.file = disk.file /\ disk'.packages = disk.packages /\ disk'.tag = disk.tag
        /\ disk'.package = disk.package /\ disk'.latest = disk.latest /\ disk'.promised = disk.promised
        /\ disk'.missed = disk.missed /\ disk'.clash = disk.clash
        /\ disk'.mixed = (disk.mixed \/ gui.version \notin {gui.package[1], gui.package[2]})
    BY <1>2 DEF Update!Extract, UpdateInv, UpdateShape, OfDisk
  <2>3. UpdateShape'
    BY <1>1, <2>1, <2>2 DEF UpdateInv, UpdateShape
  <2>4. ASSUME disk'.clash = FALSE PROVE UpdateIsSafe'
    <3>1. UpdateIsSafe /\ gui.package = disk.package /\ disk.package \in Update!Package /\ disk.tag # Update!NoTag
      BY <1>1, <2>2, <2>4 DEF UpdateInv, UpdateIsSafe, GuiKnows, DiskTypes, Update!ToApply
    <3>2. disk.package[1] \in Update!Version /\ disk.package[2] \in Update!Version
      BY <3>1, PackageIs
    <3>3. ASSUME \E v \in Update!Version : Sound(v) PROVE Cut /\ gui.version \in {disk.package[1], disk.package[2]}
      <4>1. PICK v \in Update!Version : Sound(v)
        BY <3>3
      <4>2. disk.file["core"] = v /\ disk.file = Update!Manifest(v) /\ disk.package # Update!NoPackage
        BY <3>1, <4>1, PackageIs, ManifestIs DEF Sound
      <4>3. gui.version = v
        BY <1>1, <3>1, <4>2 DEF UpdateIsSafe, FilesAt
      <4>4. v \in {disk.package[1], disk.package[2]}
        BY <4>1, <4>2 DEF Sound
      <4>5. Cut
        BY <1>2, <3>1, <4>2, <4>4 DEF Cut
      <4> QED
        BY <4>3, <4>4, <4>5
    <3>4. Cut /\ gui.version \in {disk.package[1], disk.package[2]}
      <4>1. CASE Cut
        <5>1. disk.file["core"] \in {0, disk.package[1], disk.package[2]}
          BY <3>2, <4>1, ManifestIs DEF Cut, Update!Files
        <5> QED
          BY <1>1, <3>1, <4>1, <5>1 DEF UpdateIsSafe, FilesAt
      <4> QED
        BY <1>1, <3>1, <3>3, <4>1 DEF UpdateIsSafe, FilesAt
    <3>5. Cut' /\ disk'.mixed = FALSE
      BY <2>1, <2>2, <3>1, <3>4 DEF Cut, UpdateIsSafe, FilesAt
    <3> QED
      BY <1>1, <2>1, <2>2, <3>1, <3>5 DEF UpdateIsSafe, DiskTypes, GuiKnows, PromiseIsKept, FilesAt, ToPlace
  <2> QED
    BY <2>3, <2>4 DEF UpdateInv
<1>3. CASE disk.packages[gui.package] # "whole"
  <2>1. /\ DOMAIN gui' = OfGui /\ gui'.at = "run" /\ gui'.version = gui.version /\ gui'.tag = gui.tag /\ gui'.package = gui.package
        /\ gui'.check = gui.check
    BY <1>3 DEF Update!Extract, Update!Opened, UpdateInv, UpdateShape, OfGui
  <2>2. /\ DOMAIN disk' = OfDisk /\ disk'.file = disk.file /\ disk'.tag = disk.tag
        /\ disk'.packages = [disk.packages EXCEPT ![gui.package] = "none"]
        /\ disk'.package = disk.package /\ disk'.latest = disk.latest /\ disk'.promised = Update!NoPackage
        /\ disk'.missed = disk.missed /\ disk'.clash = disk.clash /\ disk'.mixed = disk.mixed
    BY <1>3 DEF Update!Extract, UpdateInv, UpdateShape, OfDisk
  <2>3. UpdateShape'
    BY <1>1, <2>1, <2>2 DEF UpdateInv, UpdateShape
  <2>4. ASSUME disk'.clash = FALSE PROVE UpdateIsSafe'
    <3>1. UpdateIsSafe /\ gui.package = disk.package
      BY <1>1, <2>2, <2>4 DEF UpdateInv, UpdateIsSafe, GuiKnows
    <3>2. PICK v \in Update!Version : Sound(v)
      BY <1>1, <1>3, <3>1 DEF UpdateIsSafe, FilesAt, Cut
    <3>3. v = gui.version
      BY <1>1, <3>1, <3>2, ManifestIs DEF UpdateIsSafe, FilesAt, Sound
    <3> QED
      BY <1>1, <2>1, <2>2, <3>1, <3>2, <3>3 DEF UpdateIsSafe, DiskTypes, GuiKnows, PromiseIsKept, FilesAt, Sound
  <2> QED
    BY <2>3, <2>4 DEF UpdateInv
<1> QED
  BY <1>2, <1>3

LEMMA RemoveKeeps == ASSUME UpdateInv, Update!Remove PROVE UpdateInv'
<1>1. /\ gui.at = "remove" /\ leaving' = leaving
      /\ DOMAIN gui' = OfGui /\ gui'.at = "apply" /\ gui'.version = gui.version /\ gui'.tag = gui.tag /\ gui'.package = gui.package
      /\ gui'.new = gui.new /\ gui'.hand = gui.hand
  BY DEF Update!Remove, Update!At, UpdateInv, UpdateShape, OfGui
<1>2. /\ DOMAIN disk' = OfDisk /\ disk'.packages = disk.packages /\ disk'.tag = disk.tag
      /\ disk'.file = [f \in Update!Files |-> IF f \in Update!RemoveList(gui.package) THEN 0 ELSE disk.file[f]]
      /\ disk'.package = disk.package /\ disk'.latest = disk.latest /\ disk'.promised = disk.promised
      /\ disk'.missed = disk.missed /\ disk'.clash = disk.clash /\ disk'.mixed = disk.mixed
  BY DEF Update!Remove, UpdateInv, UpdateShape, OfDisk
<1>3. UpdateShape'
  BY <1>1, <1>2 DEF UpdateInv, UpdateShape
<1>4. ASSUME disk'.clash = FALSE PROVE UpdateIsSafe'
  <2>1. UpdateIsSafe /\ gui.package = disk.package /\ ToPlace /\ Cut
    BY <1>1, <1>2, <1>4 DEF UpdateInv, UpdateIsSafe, GuiKnows, FilesAt, ToPlace
  <2>2. gui.new = Update!InPackage(disk.package) /\ gui.hand = "none"
    BY <1>1, <2>1 DEF ToPlace
  <2>3. disk'.file \in [Update!Files -> Nat]
    BY <1>2, <2>1 DEF UpdateIsSafe, DiskTypes
  <2>4. Cut'
    BY <1>1, <1>2, <2>1 DEF Cut
  <2>5. \A f \in Update!Files \ gui'.new : disk'.file[f] = Update!Manifest(disk.package[2])[f]
    BY <1>1, <1>2, <2>1, <2>2 DEF Update!InPackage, Update!RemoveList
  <2>6. ToPlace'
    BY <1>1, <1>2, <2>2, <2>4, <2>5 DEF ToPlace
  <2> QED
    BY <1>1, <1>2, <2>1, <2>3, <2>6 DEF UpdateIsSafe, DiskTypes, GuiKnows, PromiseIsKept, FilesAt
<1> QED
  BY <1>3, <1>4 DEF UpdateInv

LEMMA MoveAwayKeeps == ASSUME UpdateInv, NEW f \in Update!Files, Update!MoveAway(f) PROVE UpdateInv'
<1>1. /\ gui.at = "apply" /\ gui.hand = "none" /\ f \in gui.new /\ leaving' = leaving
      /\ DOMAIN gui' = OfGui /\ gui'.at = "apply" /\ gui'.version = gui.version /\ gui'.tag = gui.tag /\ gui'.package = gui.package
      /\ gui'.new = gui.new /\ gui'.hand = f
  BY DEF Update!MoveAway, UpdateInv, UpdateShape, OfGui
<1>2. /\ DOMAIN disk' = OfDisk /\ disk'.packages = disk.packages /\ disk'.tag = disk.tag
      /\ disk'.file = [disk.file EXCEPT ![f] = 0]
      /\ disk'.package = disk.package /\ disk'.latest = disk.latest /\ disk'.promised = disk.promised
      /\ disk'.missed = disk.missed /\ disk'.clash = disk.clash /\ disk'.mixed = disk.mixed
  BY DEF Update!MoveAway, UpdateInv, UpdateShape, OfDisk
<1>3. UpdateShape'
  BY <1>1, <1>2 DEF UpdateInv, UpdateShape
<1>4. ASSUME disk'.clash = FALSE PROVE UpdateIsSafe'
  <2>1. UpdateIsSafe /\ gui.package = disk.package /\ ToPlace /\ Cut
    BY <1>1, <1>2, <1>4 DEF UpdateInv, UpdateIsSafe, GuiKnows, FilesAt, ToPlace
  <2>2. disk'.file \in [Update!Files -> Nat] /\ disk'.file[f] = 0 /\ \A g \in Update!Files \ {f} : disk'.file[g] = disk.file[g]
    BY <1>2, <2>1 DEF UpdateIsSafe, DiskTypes
  <2>3. Cut'
    BY <1>2, <2>1, <2>2 DEF Cut
  <2>4. ToPlace'
    BY <1>1, <1>2, <2>1, <2>2, <2>3 DEF ToPlace
  <2> QED
    BY <1>1, <1>2, <2>1, <2>2, <2>4 DEF UpdateIsSafe, DiskTypes, GuiKnows, PromiseIsKept, FilesAt
<1> QED
  BY <1>3, <1>4 DEF UpdateInv

LEMMA MoveInKeeps == ASSUME UpdateInv, Update!MoveIn PROVE UpdateInv'
<1>1. /\ gui.at = "apply" /\ gui.hand # "none" /\ leaving' = leaving
      /\ DOMAIN gui' = OfGui /\ gui'.at = "apply" /\ gui'.version = gui.version /\ gui'.tag = gui.tag /\ gui'.package = gui.package
      /\ gui'.new = gui.new \ {gui.hand} /\ gui'.hand = "none"
  BY DEF Update!MoveIn, UpdateInv, UpdateShape, OfGui
<1>2. /\ DOMAIN disk' = OfDisk /\ disk'.packages = disk.packages /\ disk'.tag = disk.tag
      /\ disk'.file = [disk.file EXCEPT ![gui.hand] = gui.package[2]]
      /\ disk'.package = disk.package /\ disk'.latest = disk.latest /\ disk'.promised = disk.promised
      /\ disk'.missed = disk.missed /\ disk'.clash = disk.clash /\ disk'.mixed = disk.mixed
  BY DEF Update!MoveIn, UpdateInv, UpdateShape, OfDisk
<1>3. UpdateShape'
  BY <1>1, <1>2 DEF UpdateInv, UpdateShape
<1>4. ASSUME disk'.clash = FALSE PROVE UpdateIsSafe'
  <2>1. UpdateIsSafe /\ gui.package = disk.package /\ ToPlace /\ Cut
    BY <1>1, <1>2, <1>4 DEF UpdateInv, UpdateIsSafe, GuiKnows, FilesAt, ToPlace
  <2>2. /\ gui.hand \in gui.new /\ gui.hand \in Update!Files /\ Update!Manifest(disk.package[2])[gui.hand] # 0
        /\ gui.new \subseteq Update!Files
    BY <1>1, <2>1 DEF ToPlace, Update!InPackage
  <2>3. disk.package[2] \in Update!Version /\ disk.package[2] \in Nat
    BY <2>1, PackageIs, ManifestIs DEF Cut
  <2>4. Update!Manifest(disk.package[2])[gui.hand] = disk.package[2]
    BY <2>2, <2>3, ManifestIs
  <2>5. /\ disk'.file \in [Update!Files -> Nat] /\ disk'.file[gui.hand] = Update!Manifest(disk.package[2])[gui.hand]
        /\ \A g \in Update!Files \ {gui.hand} : disk'.file[g] = disk.file[g]
    BY <1>2, <2>1, <2>2, <2>3, <2>4 DEF UpdateIsSafe, DiskTypes
  <2>6. Cut'
    BY <1>2, <2>1, <2>2, <2>5 DEF Cut
  <2>7. ToPlace'
    BY <1>1, <1>2, <2>1, <2>2, <2>5, <2>6 DEF ToPlace
  <2> QED
    BY <1>1, <1>2, <2>1, <2>5, <2>7 DEF UpdateIsSafe, DiskTypes, GuiKnows, PromiseIsKept, FilesAt
<1> QED
  BY <1>3, <1>4 DEF UpdateInv

LEMMA DeleteKeeps == ASSUME UpdateInv, Update!DeletePackage PROVE UpdateInv'
<1>1. /\ gui.at = "apply" /\ gui.new = {} /\ leaving' = leaving
      /\ DOMAIN gui' = OfGui /\ gui'.at = "forget" /\ gui'.version = gui.version /\ gui'.tag = gui.tag /\ gui'.package = gui.package
  BY DEF Update!DeletePackage, Update!At, UpdateInv, UpdateShape, OfGui
<1>2. /\ DOMAIN disk' = OfDisk /\ disk'.packages = [disk.packages EXCEPT ![gui.package] = "none"] /\ disk'.tag = disk.tag
      /\ disk'.file = disk.file /\ disk'.package = disk.package /\ disk'.latest = disk.latest
      /\ disk'.promised = (IF disk.promised = gui.package THEN Update!NoPackage ELSE disk.promised)
      /\ disk'.missed = disk.missed /\ disk'.clash = disk.clash /\ disk'.mixed = disk.mixed
  BY DEF Update!DeletePackage, UpdateInv, UpdateShape, OfDisk
<1>3. UpdateShape'
  BY <1>1, <1>2 DEF UpdateInv, UpdateShape
<1>4. ASSUME disk'.clash = FALSE PROVE UpdateIsSafe'
  <2>1. UpdateIsSafe /\ gui.package = disk.package /\ ToPlace /\ disk.package \in Update!Package
    BY <1>1, <1>2, <1>4 DEF UpdateInv, UpdateIsSafe, GuiKnows, FilesAt, ToPlace, Cut
  <2>2. disk'.promised = Update!NoPackage
    BY <1>2, <2>1 DEF UpdateIsSafe, PromiseIsKept
  <2>3. disk.package[2] \in Update!Version
    BY <2>1, PackageIs
  <2>4. Update!Manifest(disk.package[2]) \in [Update!Files -> Nat]
    BY <2>3, ManifestIs
  <2>5. \A f \in Update!Files : disk.file[f] = Update!Manifest(disk.package[2])[f]
    BY <1>1, <2>1 DEF ToPlace
  <2>6. disk.file = Update!Manifest(disk.package[2])
    BY <2>1, <2>4, <2>5 DEF UpdateIsSafe, DiskTypes
  <2>7. Sound(disk.package[2])'
    BY <1>2, <2>3, <2>6 DEF Sound
  <2> QED
    BY <1>1, <1>2, <2>1, <2>2, <2>7 DEF UpdateIsSafe, DiskTypes, GuiKnows, PromiseIsKept, FilesAt
<1> QED
  BY <1>3, <1>4 DEF UpdateInv

LEMMA ForgetKeeps == ASSUME UpdateInv, Update!Forget PROVE UpdateInv'
<1>1. /\ gui.at = "forget" /\ leaving' = leaving
      /\ DOMAIN gui' = OfGui /\ gui'.at = "restart" /\ gui'.version = gui.version /\ gui'.tag = gui.tag
      /\ gui'.package = Update!NoPackage
  BY DEF Update!Forget, UpdateInv, UpdateShape, OfGui
<1>2. /\ DOMAIN disk' = OfDisk /\ disk'.packages = disk.packages /\ disk'.tag = disk.tag
      /\ disk'.file = disk.file /\ disk'.package = Update!NoPackage /\ disk'.latest = disk.latest
      /\ disk'.promised = disk.promised
      /\ disk'.missed = disk.missed /\ disk'.clash = disk.clash /\ disk'.mixed = disk.mixed
  BY DEF Update!Forget, UpdateInv, UpdateShape, OfDisk
<1>3. UpdateShape'
  BY <1>1, <1>2 DEF UpdateInv, UpdateShape
<1>4. ASSUME disk'.clash = FALSE PROVE UpdateIsSafe'
  <2>1. UpdateIsSafe /\ disk.promised = Update!NoPackage /\ Sound(disk.package[2]) /\ disk.package \in Update!Package
    BY <1>1, <1>2, <1>4 DEF UpdateInv, UpdateIsSafe, FilesAt
  <2>2. disk.package[2] \in Update!Version /\ \A v : Sound(v) => Sound(v)'
    BY <1>2, <2>1, PackageIs DEF Sound
  <2>3. \E v \in Update!Version : Sound(v)'
    BY <2>1, <2>2
  <2> QED
    BY <1>1, <1>2, <2>1, <2>3 DEF UpdateIsSafe, DiskTypes, GuiKnows, PromiseIsKept, FilesAt
<1> QED
  BY <1>3, <1>4 DEF UpdateInv

LEMMA RestartKeeps == ASSUME UpdateInv, Update!RestartUpdated PROVE UpdateInv'
<1>1. /\ gui.at = "restart" /\ gui' = Update!Booted /\ disk' = disk
      /\ DOMAIN leaving' = OfLeaving /\ leaving'.released = TRUE
  BY DEF Update!RestartUpdated, OfLeaving
<1>2. UpdateShape'
  BY <1>1, BootedIs DEF UpdateInv, UpdateShape
<1>3. ASSUME disk'.clash = FALSE PROVE UpdateIsSafe'
  <2>1. UpdateIsSafe /\ UpdateShape
    BY <1>1, <1>3 DEF UpdateInv
  <2>2. PICK v \in Update!Version : Sound(v)
    BY <1>1, <2>1 DEF UpdateIsSafe, FilesAt
  <2>3. disk.file["core"] # 0 /\ Sound(v)'
    BY <1>1, <2>2, ManifestIs DEF Sound
  <2> QED
    BY <1>1, <2>1, <2>2, <2>3, BootedIs DEF UpdateIsSafe, DiskTypes, GuiKnows, PromiseIsKept, FilesAt
<1> QED
  BY <1>2, <1>3 DEF UpdateInv

\* What the program that was left downloads is not what a start puts in place, or there is a clash.
LEMMA LeavingChecksKeeps ==
  ASSUME UpdateInv, NEW t \in Update!Version, NEW got \in {"part", "whole"}, Update!LeavingChecks(t, got) PROVE UpdateInv'
<1> DEFINE p == <<leaving.version, t>>
<1>1. leaving.version # 0 /\ gui' = gui /\ leaving' = leaving
  BY DEF Update!LeavingChecks
<1>2. /\ DOMAIN disk' = OfDisk /\ disk'.packages = [disk.packages EXCEPT ![p] = got] /\ disk'.tag = disk.tag
      /\ disk'.file = disk.file /\ disk'.package = disk.package /\ disk'.latest = disk.latest
      /\ disk'.promised = disk.promised
      /\ disk'.missed = disk.missed /\ disk'.clash = (disk.clash \/ (Update!InPlace /\ p = gui.package)) /\ disk'.mixed = disk.mixed
  BY DEF Update!LeavingChecks, UpdateInv, UpdateShape, OfDisk
<1> HIDE DEF p
<1>3. UpdateShape'
  BY <1>1, <1>2 DEF UpdateInv, UpdateShape
<1>4. ASSUME disk'.clash = FALSE PROVE UpdateIsSafe'
  <2>1. UpdateIsSafe /\ ~(Update!InPlace /\ p = gui.package)
    BY <1>2, <1>4 DEF UpdateInv, UpdateShape
  <2>2. /\ disk'.packages \in [Update!Package -> {"none", "part", "whole"}]
        /\ \A q \in Update!Package : /\ q # p => disk'.packages[q] = disk.packages[q]
                                     /\ q = p => disk'.packages[q] # "none"
    BY <1>2, <2>1 DEF UpdateIsSafe, DiskTypes
  <2>3. PromiseIsKept'
    BY <1>2, <2>1, <2>2 DEF UpdateIsSafe, PromiseIsKept, DiskTypes
  <2>4. \A v : Sound(v) => Sound(v)'
    BY <1>2 DEF Sound
  <2>5. gui.at \in {"remove", "apply"} => ToPlace'
    <3> SUFFICES ASSUME gui.at \in {"remove", "apply"} PROVE ToPlace'
      OBVIOUS
    <3>1. ToPlace /\ Cut /\ p # disk.package
      BY <2>1 DEF UpdateIsSafe, FilesAt, ToPlace, GuiKnows, Update!InPlace
    <3>2. Cut'
      BY <1>2, <2>2, <3>1 DEF Cut
    <3> QED
      BY <1>1, <1>2, <3>1, <3>2 DEF ToPlace
  <2> QED
    BY <1>1, <1>2, <2>1, <2>2, <2>3, <2>4, <2>5 DEF UpdateIsSafe, DiskTypes, GuiKnows, FilesAt
<1> QED
  BY <1>3, <1>4 DEF UpdateInv

LEMMA LeavingEndsKeeps == ASSUME UpdateInv, Update!LeavingEnds PROVE UpdateInv'
<1>1. leaving' = Update!Gone /\ disk' = disk /\ gui' = gui
  BY DEF Update!LeavingEnds
<1> QED
  BY <1>1, GoneIs DEF UpdateInv, UpdateShape, UpdateIsSafe, DiskTypes, GuiKnows, PromiseIsKept, FilesAt, ToPlace, Sound, Cut

\* The window stays open, and no file is touched.
WindowStays ==
  /\ gui.at = "run" /\ leaving' = leaving
  /\ DOMAIN gui' = OfGui /\ gui'.at = "run" /\ gui'.version = gui.version
  /\ DOMAIN disk' = OfDisk /\ disk'.file = disk.file /\ disk'.latest = disk.latest
  /\ disk'.missed = disk.missed /\ disk'.clash = disk.clash /\ disk'.mixed = disk.mixed

LEMMA WindowStaysKeeps ==
  ASSUME UpdateInv, WindowStays,
         UpdateIsSafe => /\ disk'.packages \in [Update!Package -> {"none", "part", "whole"}]
                         /\ disk'.package \in Update!Package \cup {Update!NoPackage}
                         /\ disk'.package # Update!NoPackage => gui.version \in {disk'.package[1], disk'.package[2]}
                         /\ GuiKnows' /\ PromiseIsKept'
  PROVE  UpdateInv'
<1>1. UpdateShape'
  BY DEF UpdateInv, UpdateShape, WindowStays
<1>2. ASSUME disk'.clash = FALSE PROVE UpdateIsSafe'
  <2>1. UpdateIsSafe /\ Sound(gui.version)
    BY <1>2 DEF UpdateInv, WindowStays, UpdateIsSafe, FilesAt
  <2>2. Sound(gui.version)'
    BY <2>1 DEF Sound, WindowStays
  <2>3. FilesAt'
    BY <2>1, <2>2 DEF WindowStays, FilesAt, UpdateIsSafe
  <2> QED
    BY <2>1, <2>3 DEF UpdateIsSafe, DiskTypes, WindowStays
<1> QED
  BY <1>1, <1>2 DEF UpdateInv

LEMMA CheckKeeps == ASSUME UpdateInv, Update!CheckUpdate PROVE UpdateInv'
<1>1. /\ gui'.check = "found" /\ gui'.tag = disk.latest /\ gui'.target = disk.latest /\ gui'.package = gui.package
      /\ disk.latest > gui.version
  BY DEF Update!CheckUpdate, UpdateInv, UpdateShape, OfGui
<1>2. disk'.packages = disk.packages /\ disk'.tag = disk.latest /\ disk'.package = disk.package /\ disk'.promised = disk.promised
  BY DEF Update!CheckUpdate, UpdateInv, UpdateShape, OfDisk
<1>3. WindowStays
  BY DEF Update!CheckUpdate, Update!WindowOpen, UpdateInv, UpdateShape, OfDisk, OfGui, WindowStays
<1>4. ASSUME UpdateIsSafe
      PROVE  GuiKnows' /\ PromiseIsKept' /\ (disk'.package # Update!NoPackage => gui.version \in {disk'.package[1], disk'.package[2]})
  <2>1. disk.latest \in Update!Version /\ disk.latest # Update!NoTag
    BY <1>4, ManifestIs DEF UpdateIsSafe, DiskTypes, Update!NoTag
  <2>2. gui.version \in Update!Version /\ Sound(gui.version)
    BY <1>3, <1>4 DEF UpdateIsSafe, FilesAt, Sound, WindowStays
  <2>3. gui.version < disk.latest
    BY <1>1, <2>1, <2>2, AroundAssumption DEF Update!Version
  <2> QED
    BY <1>1, <1>2, <1>3, <1>4, <2>1, <2>2, <2>3 DEF UpdateIsSafe, GuiKnows, PromiseIsKept, WindowStays, Sound
<1> QED
  BY <1>2, <1>3, <1>4, WindowStaysKeeps DEF UpdateIsSafe, DiskTypes

LEMMA NameKeeps == ASSUME UpdateInv, NEW ota \in BOOLEAN, NEW download \in BOOLEAN, Update!NamePackage(ota, download) PROVE UpdateInv'
<1> DEFINE p == IF ota THEN <<gui.version, gui.target>> ELSE Update!NoPackage
<1>1. /\ gui.check = "found" /\ gui'.check = (IF ota /\ download THEN "download" ELSE "idle") /\ gui'.tag = gui.tag
      /\ gui'.package = p
  BY DEF Update!NamePackage, UpdateInv, UpdateShape, OfGui
<1>2. disk'.packages = disk.packages /\ disk'.tag = disk.tag /\ disk'.package = p /\ disk'.promised = Update!NoPackage
  BY DEF Update!NamePackage, UpdateInv, UpdateShape, OfDisk
<1>3. WindowStays
  BY DEF Update!NamePackage, Update!WindowOpen, UpdateInv, UpdateShape, OfDisk, OfGui, WindowStays
<1>4. ASSUME UpdateIsSafe
      PROVE  /\ GuiKnows' /\ PromiseIsKept' /\ p \in Update!Package \cup {Update!NoPackage}
             /\ p # Update!NoPackage => gui.version \in {p[1], p[2]}
  <2>1. gui.version \in Update!Version /\ gui.target \in Update!Version /\ gui.version < gui.target
    BY <1>1, <1>3, <1>4 DEF UpdateIsSafe, FilesAt, Sound, WindowStays, GuiKnows
  <2>2. <<gui.version, gui.target>> \in Update!Package
    BY <2>1 DEF Update!Package
  <2>3. <<gui.version, gui.target>> # Update!NoPackage
    BY <2>2, PackageIs
  <2> QED
    BY <1>1, <1>2, <1>3, <1>4, <2>2, <2>3 DEF UpdateIsSafe, GuiKnows, PromiseIsKept, WindowStays
<1> QED
  BY <1>2, <1>3, <1>4, WindowStaysKeeps DEF UpdateIsSafe, DiskTypes

LEMMA DownloadFailsKeeps == ASSUME UpdateInv, Update!DownloadFails PROVE UpdateInv'
<1>1. /\ gui.check = "download" /\ gui'.check \in {"download", "idle"} /\ gui'.tag = gui.tag /\ gui'.package = gui.package
      /\ disk' = disk
  BY DEF Update!DownloadFails, UpdateInv, UpdateShape, OfGui
<1>2. WindowStays
  BY DEF Update!DownloadFails, Update!WindowOpen, UpdateInv, UpdateShape, OfGui, WindowStays
<1> QED
  BY <1>1, <1>2, WindowStaysKeeps DEF UpdateIsSafe, DiskTypes, GuiKnows, PromiseIsKept, FilesAt, Sound, WindowStays

LEMMA CopyKeeps == ASSUME UpdateInv, Update!CopyPackage PROVE UpdateInv'
<1>1. gui.check = "download" /\ gui'.check = "copy" /\ gui'.tag = gui.tag /\ gui'.package = gui.package
  BY DEF Update!CopyPackage, UpdateInv, UpdateShape, OfGui
<1>2. /\ disk'.packages = [disk.packages EXCEPT ![gui.package] = "part"] /\ disk'.tag = disk.tag /\ disk'.package = disk.package
      /\ disk'.promised = disk.promised
  BY DEF Update!CopyPackage, UpdateInv, UpdateShape, OfDisk
<1>3. WindowStays
  BY DEF Update!CopyPackage, Update!WindowOpen, UpdateInv, UpdateShape, OfDisk, OfGui, WindowStays
<1>4. ASSUME UpdateIsSafe
      PROVE  /\ GuiKnows' /\ PromiseIsKept' /\ disk'.packages \in [Update!Package -> {"none", "part", "whole"}]
             /\ disk'.package # Update!NoPackage => gui.version \in {disk'.package[1], disk'.package[2]}
  <2>1. gui.package = disk.package /\ disk.package \in Update!Package /\ disk.packages \in [Update!Package -> {"none", "part", "whole"}]
    BY <1>1, <1>3, <1>4 DEF UpdateIsSafe, GuiKnows, DiskTypes, WindowStays
  <2>2. disk'.packages \in [Update!Package -> {"none", "part", "whole"}] /\ disk'.packages[disk.package] # "none"
    BY <1>2, <2>1
  <2> QED
    BY <1>1, <1>2, <1>3, <1>4, <2>1, <2>2 DEF UpdateIsSafe, GuiKnows, PromiseIsKept, FilesAt, Sound, WindowStays
<1> QED
  BY <1>2, <1>3, <1>4, WindowStaysKeeps DEF UpdateIsSafe, DiskTypes

LEMMA DownloadedKeeps == ASSUME UpdateInv, NEW got \in {"part", "whole"}, Update!Downloaded(got) PROVE UpdateInv'
<1>1. gui.check = "copy" /\ gui'.check = "ask" /\ gui'.tag = gui.tag /\ gui'.package = gui.package
  BY DEF Update!Downloaded, UpdateInv, UpdateShape, OfGui
<1>2. /\ disk'.packages = [disk.packages EXCEPT ![gui.package] = got] /\ disk'.tag = disk.tag /\ disk'.package = disk.package
      /\ disk'.promised = (IF gui.tag = Update!NoTag THEN Update!NoPackage ELSE gui.package)
  BY DEF Update!Downloaded, UpdateInv, UpdateShape, OfDisk
<1>3. WindowStays
  BY DEF Update!Downloaded, Update!WindowOpen, UpdateInv, UpdateShape, OfDisk, OfGui, WindowStays
<1>4. ASSUME UpdateIsSafe
      PROVE  /\ GuiKnows' /\ PromiseIsKept' /\ disk'.packages \in [Update!Package -> {"none", "part", "whole"}]
             /\ disk'.package # Update!NoPackage => gui.version \in {disk'.package[1], disk'.package[2]}
  <2>1. /\ gui.package = disk.package /\ disk.package \in Update!Package /\ disk.packages \in [Update!Package -> {"none", "part", "whole"}]
        /\ gui.tag = disk.tag
    BY <1>1, <1>3, <1>4 DEF UpdateIsSafe, GuiKnows, DiskTypes, WindowStays
  <2>2. disk'.packages \in [Update!Package -> {"none", "part", "whole"}] /\ disk'.packages[disk.package] # "none"
    BY <1>2, <2>1
  <2> QED
    BY <1>1, <1>2, <1>3, <1>4, <2>1, <2>2 DEF UpdateIsSafe, GuiKnows, PromiseIsKept, FilesAt, Sound, WindowStays
<1> QED
  BY <1>2, <1>3, <1>4, WindowStaysKeeps DEF UpdateIsSafe, DiskTypes

\* The program is gone, and nothing of the disk has changed but the count of the crashes.
LEMMA GoneKeeps ==
  ASSUME UpdateInv, gui.at # "off", gui' = Update!NotRunning, DOMAIN disk' = OfDisk,
         disk'.file = disk.file, disk'.packages = disk.packages, disk'.tag = disk.tag, disk'.package = disk.package,
         disk'.latest = disk.latest, disk'.promised = disk.promised, disk'.missed = disk.missed, disk'.clash = disk.clash,
         disk'.mixed = disk.mixed,
         (leaving' = leaving /\ gui.at = "run") \/ leaving' = Update!Gone
  PROVE  UpdateInv'
<1>1. UpdateShape'
  BY GoneIs, NotRunningIs DEF UpdateInv, UpdateShape
<1>2. ASSUME disk'.clash = FALSE PROVE UpdateIsSafe'
  <2>1. UpdateIsSafe
    BY <1>2 DEF UpdateInv
  <2>2. \A v : Sound(v) => v \in Update!Version /\ Sound(v)'
    BY DEF Sound
  <2>3. Cut => Cut'
    BY DEF Cut
  <2>4. (\E v \in Update!Version : Sound(v)) \/ (Cut /\ leaving'.version = 0)
    <3>1. CASE gui.at = "run"
      BY <2>1, <2>2, <3>1 DEF UpdateIsSafe, FilesAt
    <3>2. CASE gui.at \in {"remove", "apply", "forget", "restart", "boot"}
      BY <2>1, <2>2, <3>2, GoneIs DEF UpdateIsSafe, FilesAt, ToPlace
    <3> QED
      BY <2>1, <3>1, <3>2 DEF UpdateIsSafe, FilesAt
  <2> QED
    BY <2>1, <2>2, <2>3, <2>4, NotRunningIs DEF UpdateIsSafe, DiskTypes, GuiKnows, PromiseIsKept, FilesAt
<1> QED
  BY <1>1, <1>2 DEF UpdateInv

LEMMA AskKeeps == ASSUME UpdateInv, Update!AskToRestart PROVE UpdateInv'
<1>1. gui.at = "run" /\ gui.check = "ask" /\ disk' = disk /\ leaving' = leaving /\ DOMAIN disk = OfDisk
  BY DEF Update!AskToRestart, Update!WindowOpen, UpdateInv, UpdateShape
<1>2. CASE gui' = [gui EXCEPT !.check = "idle"]
  <2>1. gui'.check = "idle" /\ gui'.tag = gui.tag /\ gui'.package = gui.package
    BY <1>2 DEF UpdateInv, UpdateShape, OfGui
  <2>2. WindowStays
    BY <1>1, <1>2 DEF UpdateInv, UpdateShape, OfGui, WindowStays
  <2> QED
    BY <1>1, <2>1, <2>2, WindowStaysKeeps DEF UpdateIsSafe, DiskTypes, GuiKnows, PromiseIsKept, FilesAt, Sound, WindowStays
<1>3. CASE gui' = Update!NotRunning
  BY <1>1, <1>3, GoneKeeps
<1> QED
  BY <1>2, <1>3 DEF Update!AskToRestart

LEMMA CloseNewsKeeps == ASSUME UpdateInv, Update!CloseNews PROVE UpdateInv'
<1>1. gui'.check = gui.check /\ gui'.tag = Update!NoTag /\ gui'.package = gui.package /\ gui'.target = gui.target
  BY DEF Update!CloseNews, UpdateInv, UpdateShape, OfGui
<1>2. disk'.packages = disk.packages /\ disk'.tag = Update!NoTag /\ disk'.package = disk.package /\ disk'.promised = Update!NoPackage
  BY DEF Update!CloseNews, UpdateInv, UpdateShape, OfDisk
<1>3. WindowStays
  BY DEF Update!CloseNews, Update!WindowOpen, UpdateInv, UpdateShape, OfDisk, OfGui, WindowStays
<1> QED
  BY <1>1, <1>2, <1>3, WindowStaysKeeps DEF UpdateIsSafe, DiskTypes, GuiKnows, PromiseIsKept, FilesAt, Sound, WindowStays

LEMMA PublishKeeps == ASSUME UpdateInv, Update!Publish PROVE UpdateInv'
<1>1. /\ disk.latest < MaxVersion /\ gui' = gui /\ leaving' = leaving
      /\ DOMAIN disk' = OfDisk /\ disk'.packages = disk.packages /\ disk'.tag = disk.tag
      /\ disk'.file = disk.file /\ disk'.package = disk.package /\ disk'.latest = disk.latest + 1
      /\ disk'.promised = disk.promised
      /\ disk'.missed = disk.missed /\ disk'.clash = disk.clash /\ disk'.mixed = disk.mixed
  BY DEF Update!Publish, UpdateInv, UpdateShape, OfDisk
<1>2. disk.latest \in Update!Version => disk'.latest \in Update!Version
  BY <1>1, AroundAssumption DEF Update!Version
<1>3. \A v : Sound(v) <=> Sound(v)'
  BY <1>1 DEF Sound
<1>4. (Cut <=> Cut') /\ (ToPlace => ToPlace')
  BY <1>1 DEF Cut, ToPlace
<1> QED
  BY <1>1, <1>2, <1>3, <1>4 DEF UpdateInv, UpdateShape, UpdateIsSafe, DiskTypes, GuiKnows, PromiseIsKept, FilesAt

LEMMA EndKeeps == ASSUME UpdateInv, Update!Exit \/ Update!Crash PROVE UpdateInv'
<1>1. CASE Update!Exit
  BY <1>1, GoneKeeps DEF Update!Exit, Update!WindowOpen, UpdateInv, UpdateShape
<1>2. CASE Update!Crash
  <2>1. /\ DOMAIN disk' = OfDisk /\ disk'.packages = disk.packages /\ disk'.tag = disk.tag
        /\ disk'.file = disk.file /\ disk'.package = disk.package /\ disk'.latest = disk.latest
        /\ disk'.promised = disk.promised
        /\ disk'.missed = disk.missed /\ disk'.clash = disk.clash /\ disk'.mixed = disk.mixed
    BY <1>2 DEF Update!Crash, UpdateInv, UpdateShape, OfDisk
  <2> QED
    BY <1>2, <2>1, GoneKeeps DEF Update!Crash
<1> QED
  BY <1>1, <1>2

\* With gui.json its package is forgotten; the files are of one version, or the package is lost.
LEMMA CutKeeps == ASSUME UpdateInv, Update!CrashInSave PROVE UpdateInv'
<1> DEFINE torn == disk.file # Update!Manifest(disk.file["core"])
<1>1. gui.at \in {"boot", "forget", "run"} /\ gui' = Update!NotRunning /\ leaving' = Update!Gone
  BY DEF Update!CrashInSave
<1>2. /\ DOMAIN disk' = OfDisk /\ disk'.packages = disk.packages /\ disk'.file = disk.file /\ disk'.latest = disk.latest
      /\ disk'.tag = Update!NoTag /\ disk'.package = Update!NoPackage /\ disk'.promised = Update!NoPackage
      /\ disk'.missed = disk.missed /\ disk'.mixed = disk.mixed /\ disk'.clash = (disk.clash \/ torn)
  BY DEF Update!CrashInSave, UpdateInv, UpdateShape, OfDisk
<1> HIDE DEF torn
<1>3. UpdateShape'
  <2>1. disk'.clash \in BOOLEAN
    BY <1>2
  <2> QED
    BY <1>1, <1>2, <2>1, GoneIs, NotRunningIs DEF UpdateInv, UpdateShape
<1>4. ASSUME disk'.clash = FALSE PROVE UpdateIsSafe'
  <2>1. UpdateIsSafe /\ ~torn
    BY <1>2, <1>4 DEF UpdateInv, UpdateShape
  <2>2. (\E v \in Update!Version : Sound(v)) => disk.file["core"] \in Update!Version
    BY ManifestIs DEF Sound
  <2>3. Cut => disk.file["core"] \in {0} \cup Update!Version
    BY PackageIs, ManifestIs DEF Cut, Update!Files
  <2>4. disk.file["core"] \in Update!Version
    <3>1. CASE gui.at = "boot"
      BY <2>1, <2>2, <2>3, <3>1, ManifestIs DEF UpdateIsSafe, FilesAt
    <3>2. CASE gui.at = "run"
      BY <2>1, <2>2, <3>2 DEF UpdateIsSafe, FilesAt, Sound
    <3>3. CASE gui.at = "forget"
      BY <2>1, <2>2, <3>3, PackageIs DEF UpdateIsSafe, FilesAt, Sound
    <3> QED
      BY <1>1, <3>1, <3>2, <3>3
  <2>5. Sound(disk.file["core"])'
    BY <1>2, <2>1, <2>4 DEF Sound, torn
  <2> QED
    BY <1>1, <1>2, <2>1, <2>4, <2>5, NotRunningIs DEF UpdateIsSafe, DiskTypes, GuiKnows, PromiseIsKept, FilesAt
<1> QED
  BY <1>3, <1>4 DEF UpdateInv

LEMMA UpdateGoesOn == ASSUME UpdateInv, Update!UpdateNext PROVE UpdateInv'
BY StartKeeps, NothingKeeps, ExtractKeeps, RemoveKeeps, MoveAwayKeeps, MoveInKeeps, DeleteKeeps, ForgetKeeps, RestartKeeps,
   LeavingChecksKeeps, LeavingEndsKeeps, CheckKeeps, NameKeeps, DownloadFailsKeeps, CopyKeeps, DownloadedKeeps, AskKeeps,
   CloseNewsKeeps, PublishKeeps, EndKeeps, CutKeeps
   DEF Update!UpdateNext

LEMMA UpdatesEndWhole == ASSUME UpdateInv PROVE Update!UpdatesAreWhole
BY DEF UpdateInv, UpdateShape, UpdateIsSafe, PromiseIsKept, FilesAt, Sound, Update!UpdatesAreWhole
-----------------------------------------------------------------------------
(* The resources: what the runs of the program that makes them leave, however they end. *)

OfTool == {"at", "left", "runs", "faults", "rated", "short"}
OfRepo == {"there", "bot", "game"}
OfInfrast == {"hand", "skills", "pictures"}
OfFile == {"of", "cut"}

ToolShape ==
  /\ DOMAIN tool = OfTool /\ DOMAIN repo = OfRepo /\ DOMAIN infrast = OfInfrast
  /\ DOMAIN out = Tool!Files /\ \A f \in Tool!Files : DOMAIN out[f] = OfFile /\ out[f].cut \in BOOLEAN

\* Where a run is when a step is behind it
AfterRogue == {"done"}
AfterItems == {"itemsRegions", "rogue"} \cup AfterRogue
AfterRecruit == {"recruitRegions", "items"} \cup AfterItems
AfterChars == {"game", "recruit"} \cup AfterRecruit
AfterPictures == {"stages", "chars"} \cup AfterChars
AfterInfrast == {"pictures"} \cup AfterPictures
AfterLevels == {"english", "infrast"} \cup AfterInfrast
AfterBot == {"levels"} \cup AfterLevels

\* A file is as the run has made it, or is one that could not be written.
IsOf(kind, data) == out[Tool!InChina(kind)] = Tool!Made(data) \/ Tool!InChina(kind) \in tool.short

\* What is pulled is not taken back, nor are the skills that are in the file.
DataGrows ==
  /\ repo.there \in DOMAIN SkillsOf /\ repo.bot \in Nat /\ repo.bot <= repo.there
  /\ tool.at \in AfterBot => repo.bot \in DOMAIN SkillsOf
  /\ infrast.skills = {} \/ (repo.bot \in DOMAIN SkillsOf /\ infrast.skills \subseteq SkillsOf[repo.bot])

HandIsKept == out[Tool!InChina("infrast")].cut = FALSE => infrast.hand = TRUE

\* What the run has made up to now.
BaseIsMade ==
  /\ tool.at \in AfterLevels => IsOf("levels", repo.bot)
  /\ tool.at \in AfterInfrast => IsOf("infrast", repo.bot) /\ (SkillsOf[repo.bot] \subseteq infrast.skills \/ Tool!InChina("infrast") \in tool.short)
  /\ tool.at \in AfterPictures => infrast.skills \ NoPicture \subseteq infrast.pictures
  /\ tool.at \in AfterChars => IsOf("chars", repo.bot)
  /\ tool.at \in AfterRecruit => IsOf("recruit", repo.game)
  /\ tool.at \in AfterItems => IsOf("items", repo.bot)

IsFor(kind, r) == out[<<kind, r>>] = Tool!Made(repo.game) \/ <<kind, r>> \in tool.short

\* A loop over the regions that is at step, or behind it, has written all but those that are left.
EachIsMade(step, kind, these, after) ==
  /\ tool.at = step => tool.left \subseteq these
  /\ tool.at \in after \cup {step} => \A r \in these : (tool.at = step /\ r \in tool.left) \/ IsFor(kind, r)

RegionsAreMade ==
  /\ tool.at = "recruitRegions" => tool.rated = repo.game
  /\ EachIsMade("recruitRegions", "recruit", Region, {"items"} \cup AfterItems)
  /\ EachIsMade("itemsRegions", "items", Region, {"rogue"} \cup AfterRogue)
  /\ EachIsMade("rogue", "rogue", Checked, AfterRogue)

ToolInv == ToolShape /\ DataGrows /\ HandIsKept /\ BaseIsMade /\ RegionsAreMade

LEMMA FilesAre ==
  /\ \A kind \in {"levels", "english", "infrast", "stages", "chars", "recruit", "items"} : Tool!InChina(kind) \in Tool!Files
  /\ \A kind \in {"recruit", "items", "rogue"}, r \in Region : <<kind, r>> \in Tool!Files /\ \A other : <<kind, r>> # Tool!InChina(other)
  /\ Checked \subseteq Region
BY AroundAssumption DEF Tool!Files, Tool!China, Tool!InChina

LEMMA FileIsMade ==
  ASSUME ToolShape, NEW f \in Tool!Files, NEW data, NEW whole \in BOOLEAN, out' = [out EXCEPT ![f] = Tool!Left(data, whole)]
  PROVE  /\ DOMAIN out' = Tool!Files /\ \A g \in Tool!Files : DOMAIN out'[g] = OfFile /\ out'[g].cut \in BOOLEAN
         /\ out'[f] = Tool!Left(data, whole) /\ \A g \in Tool!Files \ {f} : out'[g] = out[g]
<1>1. DOMAIN Tool!Left(data, whole) = OfFile /\ Tool!Left(data, whole).cut \in BOOLEAN
  BY DEF Tool!Left, OfFile
<1> QED
  BY <1>1 DEF ToolShape

LEMMA WroteIs ==
  ASSUME ToolShape, NEW f, NEW whole \in BOOLEAN
  PROVE  /\ DOMAIN Tool!Wrote(f, whole) = OfTool /\ Tool!Wrote(f, whole).at = tool.at /\ Tool!Wrote(f, whole).left = tool.left
         /\ Tool!Wrote(f, whole).rated = tool.rated
         /\ tool.short \subseteq Tool!Wrote(f, whole).short /\ (whole = TRUE \/ f \in Tool!Wrote(f, whole).short)
BY DEF ToolShape, OfTool, Tool!Wrote

LEMMA ToolStarts == ASSUME Tool!ToolInit PROVE ToolInv
<1>1. /\ DOMAIN tool = OfTool /\ DOMAIN repo = OfRepo /\ DOMAIN infrast = OfInfrast /\ tool.at = "idle"
      /\ repo.there = 1 /\ repo.bot = 0 /\ infrast.hand = TRUE /\ infrast.skills = {}
  BY DEF Tool!ToolInit, OfTool, OfRepo, OfInfrast, Tool!Old
<1>2. DOMAIN out = Tool!Files /\ \A f \in Tool!Files : DOMAIN out[f] = OfFile /\ out[f].cut \in BOOLEAN
  BY DEF Tool!ToolInit, Tool!Made, Tool!Left, OfFile
<1>3. 1 \in DOMAIN SkillsOf
  BY AroundAssumption
<1> QED
  BY <1>1, <1>2, <1>3 DEF ToolInv, ToolShape, DataGrows, HandIsKept, BaseIsMade, RegionsAreMade, EachIsMade, AfterRogue, AfterItems,
     AfterRecruit, AfterChars, AfterPictures, AfterInfrast, AfterLevels, AfterBot

\* A run that is not behind a step owes nothing.
LEMMA NothingIsMade ==
  ASSUME ToolShape', tool'.at \in {"idle", "bot", "levels"}
  PROVE  BaseIsMade' /\ RegionsAreMade'
BY DEF BaseIsMade, RegionsAreMade, EachIsMade, AfterRogue, AfterItems, AfterRecruit, AfterChars, AfterPictures, AfterInfrast, AfterLevels

LEMMA ToolIdles ==
  ASSUME ToolInv, DOMAIN tool' = OfTool, tool'.at \in {"idle", "bot"}, UNCHANGED <<repo, out, infrast>>
  PROVE  ToolInv'
<1>1. ToolShape' /\ HandIsKept'
  BY DEF ToolInv, ToolShape, HandIsKept
<1>2. tool'.at \notin AfterBot
  BY DEF AfterRogue, AfterItems, AfterRecruit, AfterChars, AfterPictures, AfterInfrast, AfterLevels, AfterBot
<1>3. DataGrows'
  BY <1>2 DEF ToolInv, DataGrows
<1> QED
  BY <1>1, <1>3, NothingIsMade DEF ToolInv

LEMMA FailsKeeps == ASSUME ToolInv, NEW step, Tool!Fails(step) PROVE ToolInv'
<1>1. DOMAIN tool' = OfTool /\ tool'.at = "idle"
  BY DEF Tool!Fails, ToolInv, ToolShape, OfTool
<1> QED
  BY <1>1, ToolIdles DEF Tool!Fails

LEMMA PublishedKeeps == ASSUME ToolInv, Tool!Publish PROVE ToolInv'
<1>1. /\ DOMAIN repo' = OfRepo /\ repo'.there = repo.there + 1 /\ repo'.bot = repo.bot /\ repo'.game = repo.game
      /\ tool.at = "idle" /\ repo'.there \in DOMAIN SkillsOf /\ UNCHANGED <<tool, out, infrast>>
  BY DEF Tool!Publish, ToolInv, ToolShape, OfRepo
<1>2. ToolShape' /\ HandIsKept'
  BY <1>1 DEF ToolInv, ToolShape, HandIsKept
<1>3. DataGrows'
  BY <1>1, AroundAssumption DEF ToolInv, DataGrows
<1> QED
  BY <1>1, <1>2, <1>3, NothingIsMade DEF ToolInv

LEMMA BeginsKeeps == ASSUME ToolInv, Tool!Begins PROVE ToolInv'
<1>1. DOMAIN tool' = OfTool /\ tool'.at = "bot"
  BY DEF Tool!Begins, ToolInv, ToolShape, OfTool
<1> QED
  BY <1>1, ToolIdles DEF Tool!Begins

LEMMA PullBotKeeps == ASSUME ToolInv, Tool!PullBot PROVE ToolInv'
<1>1. CASE tool.at = "bot" /\ Tool!To("levels") /\ repo' = [repo EXCEPT !.bot = repo.there] /\ UNCHANGED <<out, infrast>>
  <2>1. /\ DOMAIN repo' = OfRepo /\ repo'.there = repo.there /\ repo'.bot = repo.there
        /\ DOMAIN tool' = OfTool /\ tool'.at = "levels" /\ UNCHANGED <<out, infrast>>
    BY <1>1 DEF Tool!To, ToolInv, ToolShape, OfRepo, OfTool
  <2>2. ToolShape' /\ HandIsKept'
    BY <2>1 DEF ToolInv, ToolShape, HandIsKept
  <2>3. repo.there \in DOMAIN SkillsOf /\ repo.there \in Nat /\ repo.bot <= repo.there
    BY AroundAssumption DEF ToolInv, DataGrows
  <2>4. infrast.skills = {} \/ infrast.skills \subseteq SkillsOf[repo.there]
    BY <2>3, AroundAssumption DEF ToolInv, DataGrows
  <2>5. DataGrows'
    BY <2>1, <2>3, <2>4 DEF DataGrows
  <2> QED
    BY <2>1, <2>2, <2>5, NothingIsMade DEF ToolInv
<1> QED
  BY <1>1, FailsKeeps DEF Tool!PullBot

\* Where what has been written before is, and still is.
StillMade(kinds) == tool.short \subseteq tool'.short /\ \A kind \in kinds : out'[Tool!InChina(kind)] = out[Tool!InChina(kind)]
StillFor == \A kind \in {"recruit", "items", "rogue"}, r \in Region : IsFor(kind, r) => IsFor(kind, r)'

\* A step that writes one file of resource/ itself
WritesInChina(kind, data, next) ==
  /\ \E whole \in BOOLEAN :
       /\ out' = [out EXCEPT ![Tool!InChina(kind)] = Tool!Left(data, whole)]
       /\ whole = TRUE \/ Tool!InChina(kind) \in tool'.short
  /\ DOMAIN tool' = OfTool /\ tool'.at = next /\ tool.short \subseteq tool'.short

InChinaKinds == {"levels", "english", "infrast", "stages", "chars", "recruit", "items"}

LEMMA OneIsWritten ==
  ASSUME ToolShape, NEW kind \in InChinaKinds, NEW data, NEW next, WritesInChina(kind, data, next)
  PROVE  /\ DOMAIN out' = Tool!Files /\ \A g \in Tool!Files : DOMAIN out'[g] = OfFile /\ out'[g].cut \in BOOLEAN
         /\ out'[Tool!InChina(kind)] = Tool!Made(data) \/ Tool!InChina(kind) \in tool'.short
         /\ StillMade(InChinaKinds \ {kind})
         /\ \A other \in {"recruit", "items", "rogue"}, r \in Region : out'[<<other, r>>] = out[<<other, r>>]
<1>1. PICK whole \in BOOLEAN :
        /\ out' = [out EXCEPT ![Tool!InChina(kind)] = Tool!Left(data, whole)]
        /\ whole = TRUE \/ Tool!InChina(kind) \in tool'.short
  BY DEF WritesInChina
<1>2. Tool!InChina(kind) \in Tool!Files
  BY FilesAre DEF InChinaKinds
<1>3. /\ DOMAIN out' = Tool!Files /\ \A g \in Tool!Files : DOMAIN out'[g] = OfFile /\ out'[g].cut \in BOOLEAN
      /\ out'[Tool!InChina(kind)] = Tool!Left(data, whole)
      /\ \A g \in Tool!Files \ {Tool!InChina(kind)} : out'[g] = out[g]
  BY <1>1, <1>2, FileIsMade
<1>4. StillMade(InChinaKinds \ {kind})
  <2>1. \A other \in InChinaKinds \ {kind} : Tool!InChina(other) \in Tool!Files \ {Tool!InChina(kind)}
    BY FilesAre DEF InChinaKinds, Tool!InChina
  <2> QED
    BY <1>3, <2>1 DEF StillMade, WritesInChina
<1>5. \A other \in {"recruit", "items", "rogue"}, r \in Region : out'[<<other, r>>] = out[<<other, r>>]
  BY <1>3, FilesAre
<1> QED
  BY <1>1, <1>3, <1>4, <1>5 DEF Tool!Made

LEMMA WritesIs ==
  ASSUME ToolInv, NEW step, NEW kind, NEW data, NEW next, Tool!Writes(step, kind, data, next)
  PROVE  tool.at = step /\ WritesInChina(kind, data, next) /\ UNCHANGED <<repo, infrast>>
<1>1. PICK whole \in BOOLEAN :
        /\ out' = [out EXCEPT ![Tool!InChina(kind)] = Tool!Left(data, whole)]
        /\ tool' = [Tool!Wrote(Tool!InChina(kind), whole) EXCEPT !.at = next]
  BY DEF Tool!Writes, Tool!Puts
<1>2. /\ DOMAIN tool' = OfTool /\ tool'.at = next /\ tool.short \subseteq tool'.short
      /\ whole = TRUE \/ Tool!InChina(kind) \in tool'.short
  BY <1>1, WroteIs DEF ToolInv, OfTool
<1> QED
  BY <1>1, <1>2 DEF WritesInChina, Tool!Writes

LEMMA LevelsKeep == ASSUME ToolInv, Tool!UpdateLevels PROVE ToolInv'
<1>1. CASE Tool!Writes("levels", "levels", repo.bot, "english")
  <2>1. tool.at = "levels" /\ WritesInChina("levels", repo.bot, "english") /\ UNCHANGED <<repo, infrast>>
    BY <1>1, WritesIs
  <2>2. ToolShape' /\ IsOf("levels", repo.bot)' /\ StillMade({"infrast"})
    BY <2>1, OneIsWritten DEF WritesInChina, ToolInv, ToolShape, IsOf, StillMade, InChinaKinds
  <2> QED
    BY <2>1, <2>2 DEF WritesInChina, ToolInv, DataGrows, HandIsKept, BaseIsMade, RegionsAreMade, EachIsMade, AfterRogue, AfterItems,
       AfterRecruit, AfterChars, AfterPictures, AfterInfrast, AfterLevels, AfterBot, StillMade
<1> QED
  BY <1>1, FailsKeeps DEF Tool!UpdateLevels

LEMMA EnglishKeeps == ASSUME ToolInv, Tool!EnglishNames PROVE ToolInv'
<1>1. CASE Tool!Writes("english", "english", repo.bot, "infrast")
  <2>1. tool.at = "english" /\ WritesInChina("english", repo.bot, "infrast") /\ UNCHANGED <<repo, infrast>>
    BY <1>1, WritesIs
  <2>2. ToolShape' /\ StillMade({"infrast", "levels"})
    BY <2>1, OneIsWritten DEF WritesInChina, ToolInv, ToolShape, StillMade, InChinaKinds
  <2> QED
    BY <2>1, <2>2 DEF WritesInChina, ToolInv, DataGrows, HandIsKept, BaseIsMade, RegionsAreMade, EachIsMade, AfterRogue, AfterItems,
       AfterRecruit, AfterChars, AfterPictures, AfterInfrast, AfterLevels, AfterBot, IsOf, StillMade
<1>2. CASE tool.at = "english" /\ Tool!To("infrast") /\ UNCHANGED <<repo, out, infrast>>
  <2>1. DOMAIN tool' = OfTool /\ tool'.at = "infrast" /\ tool'.short = tool.short
    BY <1>2 DEF Tool!To, ToolInv, ToolShape, OfTool
  <2> QED
    BY <1>2, <2>1 DEF ToolInv, ToolShape, DataGrows, HandIsKept, BaseIsMade, RegionsAreMade, EachIsMade, AfterRogue, AfterItems,
       AfterRecruit, AfterChars, AfterPictures, AfterInfrast, AfterLevels, AfterBot, IsOf
<1> QED
  BY <1>1, <1>2 DEF Tool!EnglishNames

LEMMA InfrastKeeps == ASSUME ToolInv, Tool!InfrastData PROVE ToolInv'
<1>1. CASE ~out[Tool!InChina("infrast")].cut /\ Tool!InfrastWritten(infrast.skills \cup SkillsOf[repo.bot], infrast.hand)
  <2>1. PICK whole \in BOOLEAN :
          /\ out' = [out EXCEPT ![Tool!InChina("infrast")] = Tool!Left(repo.bot, whole)]
          /\ tool' = [Tool!Wrote(Tool!InChina("infrast"), whole) EXCEPT !.at = "pictures"]
          /\ infrast' = IF whole THEN [infrast EXCEPT !.skills = infrast.skills \cup SkillsOf[repo.bot], !.hand = infrast.hand]
                        ELSE [infrast EXCEPT !.skills = {}, !.hand = FALSE]
    BY <1>1 DEF Tool!InfrastWritten, Tool!Puts
  <2>2. /\ DOMAIN tool' = OfTool /\ tool'.at = "pictures" /\ tool.short \subseteq tool'.short
        /\ whole = TRUE \/ Tool!InChina("infrast") \in tool'.short
    BY <2>1, WroteIs DEF ToolInv, OfTool
  <2>3. tool.at = "infrast" /\ WritesInChina("infrast", repo.bot, "pictures") /\ repo' = repo
    BY <1>1, <2>1, <2>2 DEF Tool!InfrastWritten, WritesInChina
  <2>4. /\ DOMAIN infrast' = OfInfrast /\ (whole = TRUE => infrast'.hand = infrast.hand)
        /\ whole = TRUE => infrast'.skills = infrast.skills \cup SkillsOf[repo.bot]
        /\ whole = FALSE => infrast'.skills = {}
    BY <2>1 DEF ToolInv, ToolShape, OfInfrast
  <2>5. out'[Tool!InChina("infrast")] = Tool!Left(repo.bot, whole)
    BY <2>1, FileIsMade, FilesAre DEF ToolInv
  <2>6. ToolShape' /\ IsOf("infrast", repo.bot)' /\ StillMade({"levels"})
    BY <2>3, <2>4, OneIsWritten DEF WritesInChina, ToolInv, ToolShape, IsOf, StillMade, InChinaKinds
  <2>7. infrast.hand = TRUE
    BY <1>1, FilesAre DEF ToolInv, HandIsKept, ToolShape
  <2>8. repo.bot \in DOMAIN SkillsOf
    BY <2>3 DEF ToolInv, DataGrows, AfterBot, AfterLevels
  <2>9. /\ infrast'.skills = {} \/ infrast'.skills \subseteq SkillsOf[repo.bot]
        /\ SkillsOf[repo.bot] \subseteq infrast'.skills \/ Tool!InChina("infrast") \in tool'.short
    BY <2>2, <2>4 DEF ToolInv, DataGrows
  <2>10. DataGrows'
    BY <2>2, <2>3, <2>8, <2>9 DEF ToolInv, DataGrows
  <2>11. HandIsKept'
    <3>1. CASE whole = TRUE
      BY <2>4, <2>7, <3>1 DEF HandIsKept
    <3>2. CASE whole = FALSE
      <4>1. Tool!Left(repo.bot, whole).cut = TRUE
        BY <3>2 DEF Tool!Left
      <4> QED
        BY <2>5, <4>1 DEF HandIsKept
    <3> QED
      BY <3>1, <3>2
  <2> QED
    BY <2>2, <2>3, <2>6, <2>9, <2>10, <2>11 DEF ToolInv, BaseIsMade, RegionsAreMade, EachIsMade, AfterRogue, AfterItems,
       AfterRecruit, AfterChars, AfterPictures, AfterInfrast, AfterLevels, IsOf, StillMade
<1>2. CASE tool.at = "infrast" /\ out[Tool!InChina("infrast")].cut /\ Tool!To("idle") /\ UNCHANGED <<repo, out, infrast>>
  <2>1. DOMAIN tool' = OfTool /\ tool'.at = "idle"
    BY <1>2 DEF Tool!To, ToolInv, ToolShape, OfTool
  <2> QED
    BY <1>2, <2>1, ToolIdles
<1> QED
  BY <1>1, <1>2, FailsKeeps DEF Tool!InfrastData

LEMMA PicturesKeep == ASSUME ToolInv, Tool!InfrastPictures PROVE ToolInv'
<1>1. /\ tool.at = "pictures" /\ DOMAIN tool' = OfTool /\ tool'.at = "stages" /\ tool'.short = tool.short /\ UNCHANGED <<repo, out>>
      /\ DOMAIN infrast' = OfInfrast /\ infrast'.hand = infrast.hand /\ infrast'.skills = infrast.skills
      /\ infrast'.pictures = infrast.pictures \cup (SkillsOf[repo.bot] \ NoPicture)
  BY DEF Tool!InfrastPictures, Tool!To, ToolInv, ToolShape, OfTool, OfInfrast
<1>2. infrast'.skills \ NoPicture \subseteq infrast'.pictures
  BY <1>1 DEF ToolInv, DataGrows
<1> QED
  BY <1>1, <1>2 DEF ToolInv, ToolShape, DataGrows, HandIsKept, BaseIsMade, RegionsAreMade, EachIsMade, AfterRogue, AfterItems,
     AfterRecruit, AfterChars, AfterPictures, AfterInfrast, AfterLevels, AfterBot, IsOf

LEMMA StagesKeep == ASSUME ToolInv, Tool!UpdateStages PROVE ToolInv'
<1>1. CASE Tool!Writes("stages", "stages", repo.there, "chars")
  <2>1. tool.at = "stages" /\ WritesInChina("stages", repo.there, "chars") /\ UNCHANGED <<repo, infrast>>
    BY <1>1, WritesIs
  <2>2. ToolShape' /\ StillMade({"infrast", "levels"})
    BY <2>1, OneIsWritten DEF WritesInChina, ToolInv, ToolShape, StillMade, InChinaKinds
  <2> QED
    BY <2>1, <2>2 DEF WritesInChina, ToolInv, DataGrows, HandIsKept, BaseIsMade, RegionsAreMade, EachIsMade, AfterRogue, AfterItems,
       AfterRecruit, AfterChars, AfterPictures, AfterInfrast, AfterLevels, AfterBot, IsOf, StillMade
<1> QED
  BY <1>1, FailsKeeps DEF Tool!UpdateStages

LEMMA CharsKeep == ASSUME ToolInv, Tool!UpdateChars PROVE ToolInv'
<1>1. CASE Tool!Writes("chars", "chars", repo.bot, "game")
  <2>1. tool.at = "chars" /\ WritesInChina("chars", repo.bot, "game") /\ UNCHANGED <<repo, infrast>>
    BY <1>1, WritesIs
  <2>2. ToolShape' /\ IsOf("chars", repo.bot)' /\ StillMade({"infrast", "levels"})
    BY <2>1, OneIsWritten DEF WritesInChina, ToolInv, ToolShape, StillMade, InChinaKinds, IsOf
  <2> QED
    BY <2>1, <2>2 DEF WritesInChina, ToolInv, DataGrows, HandIsKept, BaseIsMade, RegionsAreMade, EachIsMade, AfterRogue, AfterItems,
       AfterRecruit, AfterChars, AfterPictures, AfterInfrast, AfterLevels, AfterBot, IsOf, StillMade
<1> QED
  BY <1>1, FailsKeeps DEF Tool!UpdateChars

LEMMA PullGameKeeps == ASSUME ToolInv, Tool!PullGame PROVE ToolInv'
<1>1. CASE tool.at = "game" /\ Tool!To("recruit") /\ repo' = [repo EXCEPT !.game = repo.there] /\ UNCHANGED <<out, infrast>>
  <2>1. /\ DOMAIN repo' = OfRepo /\ repo'.there = repo.there /\ repo'.bot = repo.bot
        /\ DOMAIN tool' = OfTool /\ tool'.at = "recruit" /\ tool'.short = tool.short /\ UNCHANGED <<out, infrast>>
    BY <1>1 DEF Tool!To, ToolInv, ToolShape, OfRepo, OfTool
  <2> QED
    BY <1>1, <2>1 DEF ToolInv, ToolShape, DataGrows, HandIsKept, BaseIsMade, RegionsAreMade, EachIsMade, AfterRogue, AfterItems,
       AfterRecruit, AfterChars, AfterPictures, AfterInfrast, AfterLevels, AfterBot, IsOf
<1> QED
  BY <1>1, FailsKeeps DEF Tool!PullGame

LEMMA RecruitBaseKeeps == ASSUME ToolInv, Tool!RecruitBase PROVE ToolInv'
<1>1. ASSUME ~Tool!Fails("recruit") PROVE ToolInv'
  <2> DEFINE f == Tool!InChina("recruit")
  <2>1. PICK whole \in BOOLEAN :
          /\ out' = [out EXCEPT ![f] = Tool!Left(repo.game, whole)]
          /\ tool' = [Tool!Wrote(f, whole) EXCEPT !.at = "recruitRegions", !.left = Region, !.rated = repo.game]
    BY <1>1, Zenon DEF Tool!RecruitBase, Tool!Puts
  <2>2. /\ DOMAIN tool' = OfTool /\ tool'.at = "recruitRegions" /\ tool.short \subseteq tool'.short
        /\ tool'.left = Region /\ tool'.rated = repo.game /\ (whole = TRUE \/ f \in tool'.short)
    <3>1. PICK w : w = Tool!Wrote(f, whole)
      OBVIOUS
    <3>2. DOMAIN w = OfTool /\ tool.short \subseteq w.short /\ (whole = TRUE \/ f \in w.short)
      BY <3>1, WroteIs DEF ToolInv
    <3>3. tool' = [w EXCEPT !.at = "recruitRegions", !.left = Region, !.rated = repo.game]
      BY <2>1, <3>1, Zenon
    <3> QED
      BY <3>2, <3>3 DEF OfTool
  <2>3. tool.at = "recruit" /\ WritesInChina("recruit", repo.game, "recruitRegions") /\ UNCHANGED <<repo, infrast>>
    BY <1>1, <2>1, <2>2 DEF Tool!RecruitBase, WritesInChina
  <2>4. ToolShape' /\ IsOf("recruit", repo.game)' /\ StillMade({"infrast", "levels", "chars"})
    BY <2>2, <2>3, OneIsWritten DEF ToolInv, ToolShape, InChinaKinds, IsOf, StillMade
  <2> QED
    BY <2>2, <2>3, <2>4 DEF ToolInv, DataGrows, HandIsKept, BaseIsMade, RegionsAreMade, EachIsMade, AfterRogue, AfterItems,
       AfterRecruit, AfterChars, AfterPictures, AfterInfrast, AfterLevels, AfterBot, IsOf, StillMade
<1> QED
  BY <1>1, FailsKeeps

LEMMA ItemsBaseKeeps == ASSUME ToolInv, Tool!ItemsBase PROVE ToolInv'
<1>1. ASSUME ~Tool!Fails("items") PROVE ToolInv'
  <2> DEFINE f == Tool!InChina("items")
  <2>1. PICK whole \in BOOLEAN :
          /\ out' = [out EXCEPT ![f] = Tool!Left(repo.bot, whole)]
          /\ tool' = [Tool!Wrote(f, whole) EXCEPT !.at = "itemsRegions", !.left = Region]
    BY <1>1, Zenon DEF Tool!ItemsBase, Tool!Puts
  <2>2. /\ DOMAIN tool' = OfTool /\ tool'.at = "itemsRegions" /\ tool.short \subseteq tool'.short
        /\ tool'.left = Region /\ (whole = TRUE \/ f \in tool'.short)
    <3>1. PICK w : w = Tool!Wrote(f, whole)
      OBVIOUS
    <3>2. DOMAIN w = OfTool /\ tool.short \subseteq w.short /\ (whole = TRUE \/ f \in w.short)
      BY <3>1, WroteIs DEF ToolInv
    <3>3. tool' = [w EXCEPT !.at = "itemsRegions", !.left = Region]
      BY <2>1, <3>1, Zenon
    <3> QED
      BY <3>2, <3>3 DEF OfTool
  <2>3. tool.at = "items" /\ WritesInChina("items", repo.bot, "itemsRegions") /\ UNCHANGED <<repo, infrast>>
    BY <1>1, <2>1, <2>2 DEF Tool!ItemsBase, WritesInChina
  <2>4. ToolShape' /\ IsOf("items", repo.bot)' /\ StillMade({"infrast", "levels", "chars", "recruit"}) /\ StillFor
    BY <2>2, <2>3, OneIsWritten DEF ToolInv, ToolShape, InChinaKinds, IsOf, StillMade, StillFor, IsFor
  <2>5. DataGrows' /\ HandIsKept' /\ BaseIsMade'
    BY <2>2, <2>3, <2>4 DEF ToolInv, DataGrows, HandIsKept, BaseIsMade, AfterRogue, AfterItems,
       AfterRecruit, AfterChars, AfterPictures, AfterInfrast, AfterLevels, AfterBot, IsOf, StillMade
  <2>6. RegionsAreMade'
    BY <2>2, <2>3, <2>4 DEF ToolInv, RegionsAreMade, EachIsMade, AfterRogue, AfterItems, StillFor
  <2> QED
    BY <2>4, <2>5, <2>6 DEF ToolInv
<1> QED
  BY <1>1, FailsKeeps

\* A step of a loop over the regions: all of them are done, or one of them is.
LoopGoesOn(step, kind, next, after) ==
  /\ tool.at = step /\ UNCHANGED <<repo, infrast>> /\ ToolShape' /\ tool'.rated = tool.rated
  /\ StillMade({"infrast", "levels", "chars", "recruit", "items"}) /\ StillFor
  /\ \/ tool.left = {} /\ tool'.at = next /\ tool'.left = after
     \/ \E r \in tool.left : tool'.at = step /\ tool'.left = tool.left \ {r} /\ IsFor(kind, r)'

LEMMA ForEachIs ==
  ASSUME ToolInv, NEW step, NEW kind \in {"recruit", "items", "rogue"}, NEW next, NEW after, NEW data,
         Tool!ForEach(step, kind, data, next, after), data = repo.game, tool.left \subseteq Region
  PROVE  LoopGoesOn(step, kind, next, after)
<1>1. tool.at = step /\ UNCHANGED <<repo, infrast>>
  BY DEF Tool!ForEach
<1>2. CASE tool.left = {} /\ tool' = [tool EXCEPT !.at = next, !.left = after] /\ UNCHANGED out
  BY <1>1, <1>2 DEF ToolInv, ToolShape, OfTool, StillMade, StillFor, IsFor, LoopGoesOn
<1>3. ASSUME NEW r \in tool.left, NEW whole \in BOOLEAN, tool' = [Tool!Wrote(<<kind, r>>, whole) EXCEPT !.left = @ \ {r}],
             out' = [out EXCEPT ![<<kind, r>>] = Tool!Left(data, whole)]
      PROVE  LoopGoesOn(step, kind, next, after)
  <2>1. r \in Region /\ <<kind, r>> \in Tool!Files
    BY <1>3, FilesAre
  <2>2. /\ DOMAIN out' = Tool!Files /\ \A g \in Tool!Files : DOMAIN out'[g] = OfFile /\ out'[g].cut \in BOOLEAN
        /\ out'[<<kind, r>>] = Tool!Left(data, whole) /\ \A g \in Tool!Files \ {<<kind, r>>} : out'[g] = out[g]
    BY <1>3, <2>1, FileIsMade DEF ToolInv
  <2>3. /\ DOMAIN tool' = OfTool /\ tool'.rated = tool.rated /\ tool'.at = tool.at /\ tool'.left = tool.left \ {r}
        /\ tool.short \subseteq tool'.short /\ (whole = TRUE \/ <<kind, r>> \in tool'.short)
    BY <1>3, WroteIs DEF ToolInv, OfTool
  <2>4. StillMade({"infrast", "levels", "chars", "recruit", "items"})
    BY <2>1, <2>2, <2>3, FilesAre DEF StillMade
  <2>5. IsFor(kind, r)' /\ StillFor
    BY <1>1, <2>2, <2>3, FilesAre DEF IsFor, StillFor, Tool!Made
  <2>6. ToolShape'
    BY <1>1, <2>2, <2>3 DEF ToolInv, ToolShape
  <2> QED
    BY <1>1, <2>3, <2>4, <2>5, <2>6 DEF LoopGoesOn
<1> QED
  BY <1>1, <1>2, <1>3 DEF Tool!ForEach, Tool!Puts

\* What is not of the regions is as it was, when the program goes from step to step or to next.
LEMMA ForEachBase ==
  ASSUME ToolInv, UNCHANGED <<repo, infrast>>, StillMade({"infrast", "levels", "chars", "recruit", "items"}),
         tool.at \in {"recruitRegions", "itemsRegions", "rogue"}, tool'.at \in AfterRecruit,
         tool.at = "recruitRegions" => tool'.at \notin AfterItems
  PROVE  DataGrows' /\ HandIsKept' /\ BaseIsMade'
<1>1. DataGrows' /\ HandIsKept'
  BY DEF ToolInv, DataGrows, HandIsKept, AfterRogue, AfterItems,
     AfterRecruit, AfterChars, AfterPictures, AfterInfrast, AfterLevels, AfterBot, StillMade
<1>2. BaseIsMade'
  BY DEF ToolInv, BaseIsMade, AfterRogue, AfterItems,
     AfterRecruit, AfterChars, AfterPictures, AfterInfrast, AfterLevels, IsOf, StillMade
<1> QED
  BY <1>1, <1>2

LEMMA RecruitRegionKeeps == ASSUME ToolInv, Tool!RecruitRegion PROVE ToolInv'
<1>1. CASE Tool!ForEach("recruitRegions", "recruit", tool.rated, "items", {})
  <2>1. /\ tool.at = "recruitRegions" /\ tool.left \subseteq Region /\ tool.rated = repo.game
        /\ \A r \in Region : r \in tool.left \/ IsFor("recruit", r)
    BY <1>1 DEF Tool!ForEach, ToolInv, RegionsAreMade, EachIsMade
  <2>2. LoopGoesOn("recruitRegions", "recruit", "items", {})
    BY <1>1, <2>1, ForEachIs
  <2>3. DataGrows' /\ HandIsKept' /\ BaseIsMade'
    BY <2>1, <2>2, ForEachBase DEF AfterRecruit, AfterItems, AfterRogue, LoopGoesOn
  <2>4. tool'.left \subseteq Region /\ \A r \in Region : r \in tool'.left \/ IsFor("recruit", r)'
    BY <2>1, <2>2 DEF LoopGoesOn, StillFor
  <2>5. tool'.at = "items" => tool'.left = {}
    BY <2>1, <2>2 DEF LoopGoesOn
  <2>6. RegionsAreMade'
    BY <2>1, <2>2, <2>4, <2>5 DEF RegionsAreMade, EachIsMade, AfterRogue, AfterItems, LoopGoesOn
  <2> QED
    BY <2>2, <2>3, <2>6 DEF ToolInv, LoopGoesOn
<1> QED
  BY <1>1, FailsKeeps DEF Tool!RecruitRegion

LEMMA ItemsRegionKeeps == ASSUME ToolInv, Tool!ItemsRegion PROVE ToolInv'
<1>1. CASE Tool!ForEach("itemsRegions", "items", repo.game, "rogue", Checked)
  <2>1. /\ tool.at = "itemsRegions" /\ tool.left \subseteq Region
        /\ \A r \in Region : IsFor("recruit", r) /\ (r \in tool.left \/ IsFor("items", r))
    BY <1>1 DEF Tool!ForEach, ToolInv, RegionsAreMade, EachIsMade, AfterItems
  <2>2. LoopGoesOn("itemsRegions", "items", "rogue", Checked)
    BY <1>1, <2>1, ForEachIs
  <2>3. DataGrows' /\ HandIsKept' /\ BaseIsMade'
    BY <2>1, <2>2, ForEachBase DEF AfterRecruit, AfterItems, AfterRogue, LoopGoesOn
  <2>4. \A r \in Region : IsFor("recruit", r)' /\ ((tool'.at = "itemsRegions" /\ r \in tool'.left) \/ IsFor("items", r)')
    BY <2>1, <2>2 DEF LoopGoesOn, StillFor
  <2>5. (tool'.at = "itemsRegions" /\ tool'.left \subseteq Region) \/ (tool'.at = "rogue" /\ tool'.left = Checked)
    BY <2>1, <2>2 DEF LoopGoesOn
  <2>6. RegionsAreMade'
    BY <2>4, <2>5 DEF RegionsAreMade, EachIsMade, AfterRogue, AfterItems
  <2> QED
    BY <2>2, <2>3, <2>6 DEF ToolInv, LoopGoesOn
<1> QED
  BY <1>1, FailsKeeps DEF Tool!ItemsRegion

LEMMA RogueKeeps == ASSUME ToolInv, Tool!CheckRogue PROVE ToolInv'
<1>1. CASE Tool!ForEach("rogue", "rogue", repo.game, "done", {})
  <2>1. /\ tool.at = "rogue" /\ tool.left \subseteq Checked
        /\ \A r \in Region : IsFor("recruit", r) /\ IsFor("items", r)
        /\ \A r \in Checked : r \in tool.left \/ IsFor("rogue", r)
    BY <1>1 DEF Tool!ForEach, ToolInv, RegionsAreMade, EachIsMade, AfterItems, AfterRogue
  <2>2. LoopGoesOn("rogue", "rogue", "done", {})
    BY <1>1, <2>1, ForEachIs, FilesAre
  <2>3. DataGrows' /\ HandIsKept' /\ BaseIsMade'
    BY <2>1, <2>2, ForEachBase DEF AfterRecruit, AfterItems, AfterRogue, LoopGoesOn
  <2>4. /\ \A r \in Region : IsFor("recruit", r)' /\ IsFor("items", r)'
        /\ \A r \in Checked : (tool'.at = "rogue" /\ r \in tool'.left) \/ IsFor("rogue", r)'
    BY <2>1, <2>2, FilesAre DEF LoopGoesOn, StillFor
  <2>5. (tool'.at = "rogue" /\ tool'.left \subseteq Checked) \/ tool'.at = "done"
    BY <2>1, <2>2 DEF LoopGoesOn
  <2>6. RegionsAreMade'
    BY <2>4, <2>5 DEF RegionsAreMade, EachIsMade, AfterRogue, AfterItems
  <2> QED
    BY <2>2, <2>3, <2>6 DEF ToolInv, LoopGoesOn
<1> QED
  BY <1>1, FailsKeeps DEF Tool!CheckRogue

LEMMA SuccessKeeps == ASSUME ToolInv, Tool!AllSuccess PROVE ToolInv'
<1>1. DOMAIN tool' = OfTool /\ tool'.at = "idle" /\ UNCHANGED <<repo, out, infrast>>
  BY DEF Tool!AllSuccess, Tool!To, ToolInv, ToolShape, OfTool
<1> QED
  BY <1>1, ToolIdles

LEMMA ToolEndsKeeps == ASSUME ToolInv, Tool!Ends PROVE ToolInv'
<1>1. DOMAIN tool' = OfTool /\ tool'.at = "idle" /\ repo' = repo
  BY DEF Tool!Ends, ToolInv, ToolShape, OfTool
<1>2. CASE UNCHANGED <<out, infrast>>
  BY <1>1, <1>2, ToolIdles
<1>3. ASSUME NEW f \in Tool!FilesOf(tool.at), out' = [out EXCEPT ![f].cut = TRUE],
             infrast' = IF tool.at = "infrast" THEN [infrast EXCEPT !.hand = FALSE, !.skills = {}] ELSE infrast
      PROVE  ToolInv'
  <2>1. /\ DOMAIN out' = Tool!Files /\ \A g \in Tool!Files : DOMAIN out'[g] = OfFile /\ out'[g].cut \in BOOLEAN
        /\ f \in Tool!Files => out'[f].cut = TRUE /\ \A g \in Tool!Files \ {f} : out'[g] = out[g]
    BY <1>3 DEF ToolInv, ToolShape, OfFile
  <2>2. /\ DOMAIN infrast' = OfInfrast /\ infrast'.skills \in {{}, infrast.skills}
        /\ tool.at # "infrast" => infrast'.hand = infrast.hand
    BY <1>3 DEF ToolInv, ToolShape, OfInfrast
  <2>3. tool.at = "infrast" => f = Tool!InChina("infrast")
    BY <1>3 DEF Tool!FilesOf, Tool!InChina
  <2>4. tool.at # "infrast" => f # Tool!InChina("infrast")
    BY <1>3 DEF Tool!FilesOf, Tool!InChina
  <2>5. ToolShape' /\ HandIsKept'
    BY <1>1, <2>1, <2>2, <2>3, <2>4, <1>3, FilesAre DEF ToolInv, ToolShape, HandIsKept
  <2>6. tool'.at \notin AfterBot
    BY <1>1 DEF AfterRogue, AfterItems, AfterRecruit, AfterChars, AfterPictures, AfterInfrast, AfterLevels, AfterBot
  <2>7. DataGrows'
    BY <1>1, <2>2, <2>6 DEF ToolInv, DataGrows
  <2> QED
    BY <1>1, <2>5, <2>7, NothingIsMade DEF ToolInv
<1> QED
  BY <1>2, <1>3 DEF Tool!Ends

LEMMA ToolGoesOn == ASSUME ToolInv, Tool!ToolNext PROVE ToolInv'
BY PublishedKeeps, BeginsKeeps, PullBotKeeps, LevelsKeep, EnglishKeeps, InfrastKeeps, PicturesKeep, StagesKeep, CharsKeep,
   PullGameKeeps, RecruitBaseKeeps, RecruitRegionKeeps, ItemsBaseKeeps, ItemsRegionKeeps, RogueKeeps, SuccessKeeps, ToolEndsKeeps
   DEF Tool!ToolNext

LEMMA RunsMakeOneData == ASSUME ToolInv PROVE Tool!DataIsOfOneRun
<1>1. ASSUME tool.at = "done"
      PROVE  /\ \A kind \in {"levels", "infrast", "chars", "items"} : IsOf(kind, repo.bot)
             /\ SkillsOf[repo.bot] \subseteq infrast.skills \/ Tool!InChina("infrast") \in tool.short
             /\ infrast.skills \ NoPicture \subseteq infrast.pictures
             /\ IsOf("recruit", repo.game)
  BY <1>1 DEF ToolInv, BaseIsMade, IsOf, AfterRogue, AfterItems, AfterRecruit, AfterChars, AfterPictures, AfterInfrast, AfterLevels
<1>2. ASSUME tool.at = "done"
      PROVE  \A r \in Region : IsFor("recruit", r) /\ IsFor("items", r) /\ (r \in Checked => IsFor("rogue", r))
  BY <1>2 DEF ToolInv, RegionsAreMade, EachIsMade, AfterRogue, AfterItems
<1>3. ~out[Tool!InChina("infrast")].cut => infrast.hand
  BY FilesAre DEF ToolInv, ToolShape, HandIsKept
<1> QED
  BY <1>1, <1>2, <1>3 DEF Tool!DataIsOfOneRun, Tool!InChina, IsFor, IsOf
-----------------------------------------------------------------------------
(* The main window: whose tasks the ids are that come back when all is completed. *)

OfPage == {"idle", "stopping", "copilot", "connected", "latest", "retry", "stops"}
OfLib == {"idle", "inited", "at", "list", "cur", "finished"}
OfPast == {"events", "missed", "wiped", "wrong"}

WindowShape ==
  /\ DOMAIN page = OfPage /\ DOMAIN page.latest = Window!Task
  /\ DOMAIN lib = OfLib /\ DOMAIN past = OfPast

\* A task of another page has an id that was forgotten, or the latest that is remembered for it.
KnownIds(wiped, latest, t) == wiped \cup (IF t \in Window!SideTask THEN {latest[t]} ELSE {0, Window!MainId})
KnownTo(wiped, latest) == UNION {KnownIds(wiped, latest, t) \X {t} : t \in Window!Task}
Known == KnownTo(past.wiped, page.latest)

Told == {"Connected", "Stopped", "Ended", "AllCompleted", "Disconnect"}
Messages(known) == [what : Told, task : Window!Task, finished : Seq(known)]

TasksAreKnown ==
  lib.list \in Seq(Known) /\ lib.cur \in Known /\ lib.finished \in Seq(Known) /\ msgs \in Seq(Messages(Known))

WindowInv == WindowShape /\ TasksAreKnown /\ past.wrong = FALSE

LEMMA KnownIs ==
  ASSUME NEW wiped, NEW latest
  PROVE  /\ \A t \in Window!Task : \A id \in KnownIds(wiped, latest, t) : <<id, t>> \in KnownTo(wiped, latest)
         /\ \A e \in KnownTo(wiped, latest) : e = <<e[1], e[2]>> /\ e[2] \in Window!Task /\ e[1] \in KnownIds(wiped, latest, e[2])
         /\ Window!Nothing \in KnownTo(wiped, latest) /\ <<Window!MainId, "Fight">> \in KnownTo(wiped, latest)
<1>1. "Fight" \in Window!Task /\ "Fight" \notin Window!SideTask
  BY DEF Window!Task, Window!SideTask
<1>2. 0 \in KnownIds(wiped, latest, "Fight") /\ Window!MainId \in KnownIds(wiped, latest, "Fight")
  BY <1>1 DEF KnownIds
<1>3. \A t \in Window!Task : \A id \in KnownIds(wiped, latest, t) : <<id, t>> \in KnownTo(wiped, latest)
  BY DEF KnownTo
<1>4. \A e \in KnownTo(wiped, latest) : e = <<e[1], e[2]>> /\ e[2] \in Window!Task /\ e[1] \in KnownIds(wiped, latest, e[2])
  <2> TAKE e \in KnownTo(wiped, latest)
  <2>1. PICK t \in Window!Task : e \in KnownIds(wiped, latest, t) \X {t}
    BY DEF KnownTo
  <2> QED
    BY <2>1
<1> QED
  BY <1>1, <1>2, <1>3, <1>4 DEF Window!Nothing

\* What the step must not lose: an id that is known and still to be told.
Remembers ==
  \A t \in Window!Task : \A id \in Window!InLib :
    id \in KnownIds(past.wiped, page.latest, t) => id \in KnownIds(past'.wiped, page'.latest, t)

LEMMA SeqOf ==
  ASSUME NEW S, NEW T, NEW s \in Seq(S), \A i \in DOMAIN s : s[i] \in T
  PROVE  s \in Seq(T)
OBVIOUS

\* What is known stays known.
LEMMA StillKnown ==
  ASSUME WindowInv, Remembers
  PROVE  /\ lib.list \in Seq(Known') /\ lib.cur \in Known' /\ lib.finished \in Seq(Known') /\ msgs \in Seq(Messages(Known'))
<1>1. \A e \in Known : e[1] \in Window!InLib => e \in Known'
  <2> SUFFICES ASSUME NEW e \in Known, e[1] \in Window!InLib PROVE e \in Known'
    OBVIOUS
  <2>1. e = <<e[1], e[2]>> /\ e[2] \in Window!Task /\ e[1] \in KnownIds(past.wiped, page.latest, e[2])
    BY KnownIs DEF Known
  <2>2. e[1] \in KnownIds(past'.wiped, page'.latest, e[2])
    BY <2>1 DEF Remembers
  <2>3. <<e[1], e[2]>> \in KnownTo(past'.wiped, page'.latest)
    BY <2>1, <2>2, KnownIs
  <2> QED
    BY <2>1, <2>3 DEF Known
<1>2. lib.list \in Seq(Known')
  <2>1. \A i \in DOMAIN lib.list : lib.list[i] \in Known /\ lib.list[i][1] \in Window!InLib
    BY DEF WindowInv, TasksAreKnown, Window!InLib
  <2> QED
    BY <1>1, <2>1, SeqOf DEF WindowInv, TasksAreKnown
<1>3. lib.finished \in Seq(Known')
  <2>1. \A i \in DOMAIN lib.finished : lib.finished[i] \in Known /\ lib.finished[i][1] \in Window!InLib
    BY DEF WindowInv, TasksAreKnown, Window!InLib
  <2> QED
    BY <1>1, <2>1, SeqOf DEF WindowInv, TasksAreKnown
<1>4. lib.cur \in Known'
  <2>1. CASE lib.cur = Window!Nothing
    BY <2>1, KnownIs DEF Known
  <2>2. CASE lib.cur # Window!Nothing
    BY <1>1, <2>2 DEF WindowInv, TasksAreKnown, Window!InLib
  <2> QED
    BY <2>1, <2>2
<1>5. msgs \in Seq(Messages(Known'))
  <2>1. ASSUME NEW m \in DOMAIN msgs PROVE msgs[m] \in Messages(Known')
    <3>1. msgs[m] \in Messages(Known)
      BY <2>1 DEF WindowInv, TasksAreKnown
    <3>2. msgs[m].finished \in Seq(Known)
      BY <3>1 DEF Messages
    <3>3. \A i \in DOMAIN msgs[m].finished : msgs[m].finished[i] \in Known /\ msgs[m].finished[i][1] \in Window!InLib
      BY <2>1, <3>2 DEF Window!InLib
    <3>4. msgs[m].finished \in Seq(Known')
      BY <1>1, <3>2, <3>3, SeqOf
    <3> QED
      BY <3>1, <3>4 DEF Messages
  <2> QED
    BY <2>1, SeqOf DEF WindowInv, TasksAreKnown
<1> QED
  BY <1>2, <1>3, <1>4, <1>5

LEMMA WindowStarts == ASSUME Window!WindowInit PROVE WindowInv
<1>1. WindowShape /\ past.wrong = FALSE /\ lib.list = <<>> /\ lib.finished = <<>> /\ lib.cur = Window!Nothing /\ msgs = <<>>
  BY DEF Window!WindowInit, WindowShape, OfPage, OfLib, OfPast, Window!NoTasks
<1> QED
  BY <1>1, KnownIs DEF WindowInv, TasksAreKnown, Known

LEMMA RememberedIf ==
  ASSUME WindowInv, NEW tasks \in SUBSET Window!SideTask,
         past'.wiped = (past.wiped \cup {page.latest[t] : t \in tasks}) \cap Window!InLib,
         \A t \in Window!SideTask \ tasks : page'.latest[t] = page.latest[t]
  PROVE  Remembers
BY DEF Remembers, KnownIds

PageStays == DOMAIN page' = OfPage /\ page'.latest = page.latest
PastStays == DOMAIN past' = OfPast /\ past'.wiped \in {past.wiped, past.wiped \cap Window!InLib} /\ past'.wrong = past.wrong
LibStays == DOMAIN lib' = OfLib /\ lib'.list = lib.list /\ lib'.cur = lib.cur /\ lib'.finished = lib.finished

\* One is executed, or one without tasks is added.
MsgsGo ==
  \/ msgs' = msgs
  \/ msgs # <<>> /\ msgs' = Tail(msgs)
  \/ \E what \in Told, task \in Window!Task : msgs' = Append(msgs, Window!Msg(what, task, <<>>))

LEMMA MsgsGoOn ==
  ASSUME NEW known, msgs \in Seq(Messages(known)), MsgsGo
  PROVE  msgs' \in Seq(Messages(known))
<1>1. CASE \E what \in Told, task \in Window!Task : msgs' = Append(msgs, Window!Msg(what, task, <<>>))
  <2>1. PICK what \in Told, task \in Window!Task : msgs' = Append(msgs, Window!Msg(what, task, <<>>))
    BY <1>1
  <2>2. <<>> \in Seq(known)
    OBVIOUS
  <2>3. Window!Msg(what, task, <<>>) \in Messages(known)
    BY <2>2 DEF Window!Msg, Messages
  <2> QED
    BY <2>1, <2>3
<1>2. CASE msgs # <<>> /\ msgs' = Tail(msgs)
  BY <1>2
<1> QED
  BY <1>1, <1>2 DEF MsgsGo

LEMMA QuietKeeps ==
  ASSUME WindowInv, PageStays, PastStays, LibStays, MsgsGo
  PROVE  WindowInv'
<1>1. Remembers
  BY DEF PageStays, PastStays, Remembers, KnownIds
<1>2. lib.list \in Seq(Known') /\ lib.cur \in Known' /\ lib.finished \in Seq(Known') /\ msgs \in Seq(Messages(Known'))
  BY <1>1, StillKnown
<1>3. msgs' \in Seq(Messages(Known'))
  BY <1>2, MsgsGoOn
<1> QED
  BY <1>2, <1>3 DEF WindowInv, WindowShape, TasksAreKnown, PageStays, PastStays, LibStays

\* What somebody does
LEMMA EventIs ==
  ASSUME WindowInv, Window!Event
  PROVE  PastStays
BY DEF WindowInv, WindowShape, Window!Event, PastStays, OfPast

LEMMA ClicksKeep ==
  ASSUME WindowInv, Window!LinkStart \/ Window!Stop \/ Window!CopilotStart \/ Window!StartCalc
  PROVE  WindowInv'
<1>1. PastStays
  BY EventIs DEF Window!LinkStart, Window!Stop, Window!CopilotStart, Window!StartCalc
<1>2. PageStays /\ LibStays /\ MsgsGo
  BY DEF WindowInv, WindowShape, OfPage, PageStays, LibStays, MsgsGo, Window!LinkStart, Window!Stop, Window!CopilotStart, Window!StartCalc
<1> QED
  BY <1>1, <1>2, QuietKeeps

LEMMA DisconnectsKeeps == ASSUME WindowInv, Window!Disconnects PROVE WindowInv'
<1>1. PastStays
  BY EventIs DEF Window!Disconnects
<1>2. lib.cur[2] \in Window!Task
  BY KnownIs DEF WindowInv, TasksAreKnown, Known
<1>3. MsgsGo
  BY <1>2 DEF Window!Disconnects, Window!Tells, MsgsGo, Told
<1>4. PageStays /\ LibStays
  BY DEF WindowInv, WindowShape, OfLib, PageStays, LibStays, Window!Disconnects
<1> QED
  BY <1>1, <1>3, <1>4, QuietKeeps

LEMMA ConnectsKeeps == ASSUME WindowInv, NEW f, Window!Connects(f) PROVE WindowInv'
<1>1. PastStays /\ PageStays
  BY DEF WindowInv, WindowShape, PastStays, PageStays, Window!Connects
<1>2. LibStays
  BY DEF WindowInv, WindowShape, OfLib, LibStays, Window!Connects, Window!AsstConnect
<1>3. "Connected" \in Told /\ "Fight" \in Window!Task
  BY DEF Told, Window!Task
<1>4. MsgsGo
  BY <1>3 DEF MsgsGo, Window!Connects, Window!AsstConnect
<1> QED
  BY <1>1, <1>2, <1>4, QuietKeeps

LEMMA LinkKeeps ==
  ASSUME WindowInv, NEW f, Window!LinkStarts(f) \/ Window!LinkTriesEmulator(f) \/ Window!LinkEnds(f)
  PROVE  WindowInv'
<1>1. PastStays
  BY DEF WindowInv, WindowShape, OfPast, PastStays, Window!LinkStarts, Window!LinkTriesEmulator, Window!LinkEnds, Window!SettledPast
<1>2. PageStays
  BY DEF WindowInv, WindowShape, OfPage, PageStays, Window!LinkStarts, Window!LinkTriesEmulator, Window!LinkEnds, Window!Settled
<1>3. LibStays
  BY DEF WindowInv, WindowShape, OfLib, LibStays, Window!LinkStarts, Window!LinkTriesEmulator, Window!LinkEnds, Window!Begun
<1>4. MsgsGo
  BY DEF MsgsGo, Window!LinkStarts, Window!LinkTriesEmulator, Window!LinkEnds
<1> QED
  BY <1>1, <1>2, <1>3, <1>4, QuietKeeps

LEMMA ShowsKeep ==
  ASSUME WindowInv, Window!Connected \/ Window!TaskChainStopped \/ Window!TaskChainEnds \/ Window!RetryOnDisconnected
  PROVE  WindowInv'
<1>1. PastStays
  BY DEF WindowInv, WindowShape, OfPast, PastStays, Window!Connected, Window!TaskChainStopped, Window!TaskChainEnds, Window!RetryOnDisconnected,
     Window!SettledPast
<1>2. PageStays
  BY DEF WindowInv, WindowShape, OfPage, PageStays, Window!Connected, Window!TaskChainStopped, Window!TaskChainEnds, Window!RetryOnDisconnected,
     Window!Settled
<1>3. LibStays
  BY DEF WindowInv, WindowShape, LibStays, Window!Connected, Window!TaskChainStopped, Window!TaskChainEnds, Window!RetryOnDisconnected
<1>4. MsgsGo
  BY DEF MsgsGo, Window!Connected, Window!TaskChainStopped, Window!TaskChainEnds, Window!RetryOnDisconnected, Window!Take
<1> QED
  BY <1>1, <1>2, <1>3, <1>4, QuietKeeps

\* A task of the main queue is appended.
LEMMA LinkConnectedKeeps == ASSUME WindowInv, NEW f, Window!LinkConnected(f) PROVE WindowInv'
<1>1. /\ DOMAIN lib' = OfLib /\ lib'.list = Append(lib.list, <<Window!MainId, "Fight">>) /\ lib'.cur = lib.cur
      /\ lib'.finished = lib.finished /\ UNCHANGED <<page, past, msgs>>
  BY DEF WindowInv, WindowShape, OfLib, Window!LinkConnected, Window!Appended
<1>2. Known' = Known /\ <<Window!MainId, "Fight">> \in Known
  BY <1>1, KnownIs DEF Known
<1>3. lib'.list \in Seq(Known)
  BY <1>1, <1>2 DEF WindowInv, TasksAreKnown
<1> QED
  BY <1>1, <1>2, <1>3 DEF WindowInv, WindowShape, TasksAreKnown

\* A stop: the ids are forgotten, and the list is emptied.
Forgotten ==
  /\ DOMAIN page' = OfPage /\ page'.latest = Window!NoTasks
  /\ DOMAIN past' = OfPast /\ past'.wrong = past.wrong
  /\ past'.wiped = (past.wiped \cup {page.latest[t] : t \in Window!SideTask}) \cap Window!InLib
  /\ DOMAIN lib' = OfLib /\ lib'.list = <<>> /\ lib'.cur = lib.cur /\ lib'.finished = lib.finished

LEMMA ForgottenKeeps == ASSUME WindowInv, Forgotten, MsgsGo PROVE WindowInv'
<1>1. Remembers
  BY RememberedIf DEF Forgotten
<1>2. lib.list \in Seq(Known') /\ lib.cur \in Known' /\ lib.finished \in Seq(Known') /\ msgs \in Seq(Messages(Known'))
  BY <1>1, StillKnown
<1>3. msgs' \in Seq(Messages(Known')) /\ <<>> \in Seq(Known')
  BY <1>2, MsgsGoOn
<1> QED
  BY <1>2, <1>3 DEF WindowInv, WindowShape, TasksAreKnown, Forgotten, Window!NoTasks

LEMMA AsstStopKeeps == ASSUME WindowInv, Window!AsstStop PROVE WindowInv'
<1>1. DOMAIN page' = OfPage /\ page'.latest = Window!NoTasks
  BY DEF WindowInv, WindowShape, OfPage, Window!AsstStop, Window!Cleared
<1>2. /\ DOMAIN past' = OfPast /\ past'.wrong = past.wrong
      /\ past'.wiped = (past.wiped \cup {page.latest[t] : t \in Window!SideTask}) \cap Window!InLib
  BY DEF WindowInv, WindowShape, OfPast, Window!AsstStop, Window!Wipes, Window!Forgets, Window!StopMissed
<1>3. DOMAIN lib' = OfLib /\ lib'.list = <<>> /\ lib'.cur = lib.cur /\ lib'.finished = lib.finished
  BY DEF WindowInv, WindowShape, OfLib, Window!AsstStop, Window!LibStopped
<1> QED
  BY <1>1, <1>2, <1>3, ForgottenKeeps DEF Forgotten, MsgsGo, Window!AsstStop

LEMMA CopilotStopKeeps == ASSUME WindowInv, Window!CopilotStop PROVE WindowInv'
<1>1. DOMAIN page' = OfPage /\ page'.latest = Window!NoTasks
  BY DEF WindowInv, WindowShape, OfPage, Window!CopilotStop, Window!Cleared
<1>2. /\ DOMAIN past' = OfPast /\ past'.wrong = past.wrong
      /\ past'.wiped = (past.wiped \cup {page.latest[t] : t \in Window!SideTask}) \cap Window!InLib
  BY DEF WindowInv, WindowShape, OfPast, Window!CopilotStop, Window!Wipes, Window!Forgets
<1>3. DOMAIN lib' = OfLib /\ lib'.list = <<>> /\ lib'.cur = lib.cur /\ lib'.finished = lib.finished
  BY DEF WindowInv, WindowShape, OfLib, Window!CopilotStop, Window!LibStopped
<1> QED
  BY <1>1, <1>2, <1>3, ForgottenKeeps DEF Forgotten, MsgsGo, Window!CopilotStop

LEMMA DisconnectedKeeps == ASSUME WindowInv, Window!Disconnected PROVE WindowInv'
<1>1. MsgsGo
  BY DEF Window!Disconnected, Window!Take, MsgsGo
<1>2. CASE page.idle
  <2>1. PageStays /\ LibStays /\ PastStays
    BY <1>2 DEF WindowInv, WindowShape, OfPage, PageStays, LibStays, PastStays, Window!Disconnected
  <2> QED
    BY <1>1, <2>1, QuietKeeps
<1>3. CASE ~page.idle
  <2>1. DOMAIN page' = OfPage /\ page'.latest = Window!NoTasks
    BY <1>3 DEF WindowInv, WindowShape, OfPage, Window!Disconnected, Window!Cleared
  <2>2. /\ DOMAIN past' = OfPast /\ past'.wrong = past.wrong
        /\ past'.wiped = (past.wiped \cup {page.latest[t] : t \in Window!SideTask}) \cap Window!InLib
    BY <1>3 DEF WindowInv, WindowShape, OfPast, Window!Disconnected, Window!Wipes, Window!Forgets
  <2>3. DOMAIN lib' = OfLib /\ lib'.list = <<>> /\ lib'.cur = lib.cur /\ lib'.finished = lib.finished
    BY <1>3 DEF WindowInv, WindowShape, OfLib, Window!Disconnected, Window!LibStopped
  <2> QED
    BY <1>1, <2>1, <2>2, <2>3, ForgottenKeeps DEF Forgotten
<1> QED
  BY <1>2, <1>3

\* The new id is the one that is remembered; what was asked for before is forgotten.
LEMMA SideKeeps ==
  ASSUME WindowInv, NEW f, NEW t \in Window!SideTask, Window!SideConnected(f, t) \/ Window!SideFails(f, t)
  PROVE  WindowInv'
<1>1. t \in Window!Task /\ t # "Fight" /\ Window!SideTask \subseteq Window!Task
  BY DEF Window!Task, Window!SideTask
<1>2. CASE Window!SideConnected(f, t)
  <2>1. /\ DOMAIN page' = OfPage /\ page'.latest = [page.latest EXCEPT ![t] = Window!NewId] /\ msgs' = msgs
    BY <1>2 DEF WindowInv, WindowShape, OfPage, Window!SideConnected
  <2>2. /\ DOMAIN past' = OfPast /\ past'.wrong = past.wrong
        /\ past'.wiped = (past.wiped \cup {page.latest[s] : s \in {t}}) \cap Window!InLib
    BY <1>2 DEF WindowInv, WindowShape, OfPast, Window!SideConnected, Window!Forgets
  <2>3. /\ DOMAIN lib' = OfLib /\ lib'.list = Append(lib.list, <<Window!NewId, t>>) /\ lib'.cur = lib.cur
        /\ lib'.finished = lib.finished
    BY <1>1, <1>2 DEF WindowInv, WindowShape, OfLib, Window!SideConnected, Window!Appended, Window!Begun
  <2>4. DOMAIN page'.latest = Window!Task /\ page'.latest[t] = Window!NewId /\ \A s \in Window!SideTask \ {t} : page'.latest[s] = page.latest[s]
    BY <1>1, <2>1 DEF WindowInv, WindowShape
  <2>5. Remembers
    BY <2>2, <2>4 DEF Remembers, KnownIds
  <2>6. lib.list \in Seq(Known') /\ lib.cur \in Known' /\ lib.finished \in Seq(Known') /\ msgs \in Seq(Messages(Known'))
    BY <2>5, StillKnown
  <2>7. Window!NewId \in KnownIds(past'.wiped, page'.latest, t)
    BY <2>4 DEF KnownIds
  <2>8. <<Window!NewId, t>> \in Known'
    BY <1>1, <2>7, KnownIs DEF Known
  <2>9. lib'.list \in Seq(Known')
    BY <2>3, <2>6, <2>8
  <2> QED
    BY <2>1, <2>2, <2>3, <2>4, <2>6, <2>9 DEF WindowInv, WindowShape, TasksAreKnown
<1>3. CASE Window!SideFails(f, t)
  <2>1. CASE UNCHANGED <<page, past>>
    <3>1. PageStays /\ PastStays /\ LibStays /\ MsgsGo
      BY <1>3, <2>1 DEF Window!SideFails, WindowInv, WindowShape, PageStays, PastStays, LibStays, MsgsGo
    <3> QED
      BY <3>1, QuietKeeps
  <2>2. CASE /\ page' = [page EXCEPT !.latest[t] = 0, !.copilot = IF t = "Copilot" THEN TRUE ELSE @]
             /\ past' = Window!Forgets(past, {t})
    <3>1. /\ DOMAIN page' = OfPage /\ page'.latest = [page.latest EXCEPT ![t] = 0]
      BY <2>2 DEF WindowInv, WindowShape, OfPage
    <3>2. /\ DOMAIN past' = OfPast /\ past'.wrong = past.wrong
          /\ past'.wiped = (past.wiped \cup {page.latest[s] : s \in {t}}) \cap Window!InLib
      BY <2>2 DEF WindowInv, WindowShape, OfPast, Window!Forgets
    <3>3. DOMAIN page'.latest = Window!Task /\ \A s \in Window!SideTask \ {t} : page'.latest[s] = page.latest[s]
      BY <1>1, <3>1 DEF WindowInv, WindowShape
    <3>4. Remembers
      BY <3>2, <3>3 DEF Remembers, KnownIds
    <3>5. lib.list \in Seq(Known') /\ lib.cur \in Known' /\ lib.finished \in Seq(Known') /\ msgs \in Seq(Messages(Known'))
      BY <3>4, StillKnown
    <3>6. lib' = lib /\ msgs' = msgs
      BY <1>3 DEF Window!SideFails
    <3> QED
      BY <3>1, <3>2, <3>3, <3>5, <3>6 DEF WindowInv, WindowShape, TasksAreKnown
  <2> QED
    BY <1>3, <2>1, <2>2 DEF Window!SideFails
<1> QED
  BY <1>2, <1>3

\* The worker moves what is known, from the list to what is finished and to the page.
LEMMA WorksKeep == ASSUME WindowInv, Window!Works PROVE WindowInv'
<1>1. /\ lib.list \in Seq(Known) /\ lib.cur \in Known /\ lib.finished \in Seq(Known) /\ msgs \in Seq(Messages(Known))
      /\ DOMAIN lib = OfLib
  BY DEF WindowInv, WindowShape, TasksAreKnown
<1>2. lib.cur[2] \in Window!Task /\ Window!Nothing \in Known /\ <<>> \in Seq(Known)
  BY <1>1, KnownIs DEF Known
<1>3. \A what \in Told, finished \in Seq(Known) : Window!Tells(what, finished) => msgs' \in Seq(Messages(Known))
  <2> TAKE what \in Told, finished \in Seq(Known)
  <2>1. Window!Msg(what, lib.cur[2], finished) \in Messages(Known)
    BY <1>2 DEF Window!Msg, Messages
  <2> QED
    BY <1>1, <2>1 DEF Window!Tells
<1>4. /\ UNCHANGED <<page, past>> /\ DOMAIN lib' = OfLib
      /\ lib'.list \in Seq(Known) /\ lib'.cur \in Known /\ lib'.finished \in Seq(Known) /\ msgs' \in Seq(Messages(Known))
  <2>1. CASE Window!WorkerBegins
    <3>1. Head(lib.list) \in Known
      BY <1>1, <2>1 DEF Window!WorkerBegins
    <3>2. DOMAIN lib' = OfLib /\ lib'.list = lib.list /\ lib'.cur = Head(lib.list) /\ lib'.finished = lib.finished
      BY <1>1, <2>1 DEF Window!WorkerBegins, OfLib
    <3> QED
      BY <1>1, <2>1, <3>1, <3>2 DEF Window!WorkerBegins
  <2>2. CASE Window!WorkerSleeps
    <3>1. DOMAIN lib' = OfLib /\ lib'.list = lib.list /\ lib'.cur = lib.cur /\ lib'.finished = <<>>
      BY <1>1, <2>2 DEF Window!WorkerSleeps, OfLib
    <3> QED
      BY <1>1, <1>2, <2>2, <3>1 DEF Window!WorkerSleeps
  <2>3. CASE Window!ChainEnds
    <3>1. /\ DOMAIN lib' = OfLib /\ lib'.list = (IF lib.list = <<>> THEN lib.list ELSE Tail(lib.list)) /\ lib'.cur = lib.cur
          /\ lib'.finished = Append(lib.finished, lib.cur)
      BY <1>1, <2>3 DEF Window!ChainEnds, OfLib
    <3>2. lib'.list \in Seq(Known) /\ lib'.finished \in Seq(Known)
      BY <1>1, <3>1
    <3>3. msgs' \in Seq(Messages(Known))
      BY <1>1, <1>2, <1>3, <2>3 DEF Window!ChainEnds, Told
    <3> QED
      BY <1>1, <2>3, <3>1, <3>2, <3>3 DEF Window!ChainEnds
  <2>4. CASE Window!WorkerLooks
    <3>1. /\ DOMAIN lib' = OfLib /\ lib'.list = lib.list /\ lib'.cur \in {lib.cur, Window!Nothing} /\ lib'.finished \in {lib.finished, <<>>}
      BY <1>1, <2>4 DEF Window!WorkerLooks, OfLib
    <3>2. msgs' \in Seq(Messages(Known))
      BY <1>1, <1>2, <1>3, <2>4 DEF Window!WorkerLooks, Told
    <3> QED
      BY <1>1, <1>2, <2>4, <3>1, <3>2 DEF Window!WorkerLooks
  <2>5. CASE Window!PauseEnds
    <3>1. DOMAIN lib' = OfLib /\ lib'.list = lib.list /\ lib'.cur = Window!Nothing /\ lib'.finished = lib.finished
      BY <1>1, <2>5 DEF Window!PauseEnds, OfLib
    <3>2. msgs' \in Seq(Messages(Known))
      BY <1>1, <1>2, <1>3, <2>5 DEF Window!PauseEnds, Told
    <3> QED
      BY <1>1, <1>2, <2>5, <3>1, <3>2 DEF Window!PauseEnds
  <2> QED
    BY <2>1, <2>2, <2>3, <2>4, <2>5 DEF Window!Works
<1>5. Known' = Known
  BY <1>4 DEF Known
<1> QED
  BY <1>4, <1>5 DEF WindowInv, WindowShape, TasksAreKnown

\* A task of another page that is finished alone, and was not forgotten, is the latest of that page.
LEMMA OnlyMainActs ==
  ASSUME WindowInv, msgs # <<>>,
         Window!IsMain(Head(msgs).finished, page), Len(Head(msgs).finished) = 1, Head(msgs).finished[1][2] \in Window!SideTask
  PROVE  Head(msgs).finished[1][1] \in past.wiped
<1>1. Head(msgs) \in Messages(Known)
  BY DEF WindowInv, TasksAreKnown
<1>2. Head(msgs).finished \in Seq(Known)
  BY <1>1 DEF Messages
<1>3. Head(msgs).finished[1] \in Known
  BY <1>2
<1> QED
  BY <1>3, KnownIs DEF Window!IsMain, Known, KnownIds

LEMMA CompletedKeeps == ASSUME WindowInv, Window!AllTasksCompleted PROVE WindowInv'
<1> DEFINE finished == Head(msgs).finished
           acts == Window!IsMain(finished, page)
<1>1. msgs # <<>> /\ msgs' = Tail(msgs) /\ MsgsGo
  BY DEF Window!AllTasksCompleted, Window!Take, MsgsGo
<1>2. CASE UNCHANGED <<page, lib, past>>
  <2>1. PageStays /\ PastStays /\ LibStays
    BY <1>2 DEF WindowInv, WindowShape, PageStays, PastStays, LibStays
  <2> QED
    BY <1>1, <2>1, QuietKeeps
<1>3. ASSUME NEW h, h = Window!Completes(past, finished, acts)
      PROVE  /\ DOMAIN h = OfPast /\ h.wrong = FALSE
             /\ h.wiped = (past.wiped \cup {page.latest[t] : t \in Window!SideTask}) \cap Window!InLib
  <2>1. /\ DOMAIN h = OfPast
        /\ h.wiped = (past.wiped \cup {page.latest[t] : t \in Window!SideTask}) \cap Window!InLib
        /\ h.wrong = (past.wrong \/ (acts /\ Len(finished) = 1 /\ finished[1][2] \in Window!SideTask /\ finished[1][1] \notin past.wiped))
    BY <1>3 DEF WindowInv, WindowShape, OfPast, Window!Completes, Window!Wipes, Window!Forgets
  <2>2. ~(acts /\ Len(finished) = 1 /\ finished[1][2] \in Window!SideTask /\ finished[1][1] \notin past.wiped)
    BY <1>1, OnlyMainActs
  <2> QED
    BY <2>1, <2>2 DEF WindowInv
<1>4. CASE page' = Window!AllDone(page) /\ UNCHANGED lib /\ past' = Window!Completes(past, finished, acts)
  <2>1. DOMAIN page' = OfPage /\ page'.latest = Window!NoTasks
    BY <1>4 DEF WindowInv, WindowShape, OfPage, Window!AllDone, Window!Cleared
  <2>2. /\ DOMAIN past' = OfPast /\ past'.wrong = FALSE
        /\ past'.wiped = (past.wiped \cup {page.latest[t] : t \in Window!SideTask}) \cap Window!InLib
    BY <1>3, <1>4
  <2>3. Remembers
    BY <2>2, RememberedIf
  <2>4. lib.list \in Seq(Known') /\ lib.cur \in Known' /\ lib.finished \in Seq(Known') /\ msgs \in Seq(Messages(Known'))
    BY <2>3, StillKnown
  <2>5. msgs' \in Seq(Messages(Known'))
    BY <1>1, <2>4, MsgsGoOn
  <2> QED
    BY <1>4, <2>1, <2>2, <2>4, <2>5 DEF WindowInv, WindowShape, TasksAreKnown, Window!NoTasks
<1>5. CASE /\ lib' = Window!Begun(Window!Appended(Window!LibStopped, "CloseDown"))
           /\ page' = [Window!AllDone(page) EXCEPT !.latest["CloseDown"] = Window!NewId]
           /\ past' = [Window!Completes(past, finished, acts) EXCEPT !.missed = @ \/ page.stopping, !.events = @ + 1]
  <2>1. DOMAIN page' = OfPage /\ page'.latest = [Window!NoTasks EXCEPT !["CloseDown"] = Window!NewId]
    BY <1>5 DEF WindowInv, WindowShape, OfPage, Window!AllDone, Window!Cleared
  <2>2. /\ DOMAIN past' = OfPast /\ past'.wrong = FALSE
        /\ past'.wiped = (past.wiped \cup {page.latest[t] : t \in Window!SideTask}) \cap Window!InLib
    <3>1. PICK h : h = Window!Completes(past, finished, acts)
      OBVIOUS
    <3>2. past' = [h EXCEPT !.missed = @ \/ page.stopping, !.events = @ + 1]
      BY <1>5, <3>1
    <3> QED
      BY <1>3, <3>1, <3>2 DEF OfPast
  <2>3. Remembers
    BY <2>2, RememberedIf
  <2>4. lib.list \in Seq(Known') /\ lib.cur \in Known' /\ lib.finished \in Seq(Known') /\ msgs \in Seq(Messages(Known'))
    BY <2>3, StillKnown
  <2>5. msgs' \in Seq(Messages(Known'))
    BY <1>1, <2>4, MsgsGoOn
  <2>6. /\ DOMAIN lib' = OfLib /\ lib'.list = Append(<<>>, <<Window!NewId, "CloseDown">>) /\ lib'.cur = lib.cur /\ lib'.finished = lib.finished
    BY <1>5 DEF WindowInv, WindowShape, OfLib, Window!Begun, Window!Appended, Window!LibStopped
  <2>7. "CloseDown" \in Window!Task /\ "CloseDown" \in Window!SideTask
    BY DEF Window!Task, Window!SideTask
  <2>8. page'.latest["CloseDown"] = Window!NewId /\ DOMAIN page'.latest = Window!Task
    BY <2>1, <2>7 DEF Window!NoTasks
  <2>9. Window!NewId \in KnownIds(past'.wiped, page'.latest, "CloseDown")
    BY <2>7, <2>8 DEF KnownIds
  <2>10. <<Window!NewId, "CloseDown">> \in Known'
    BY <2>7, <2>9, KnownIs DEF Known
  <2>11. lib'.list \in Seq(Known')
    BY <2>6, <2>10
  <2> QED
    BY <2>1, <2>2, <2>4, <2>5, <2>6, <2>8, <2>11 DEF WindowInv, WindowShape, TasksAreKnown
<1> QED
  BY <1>2, <1>4, <1>5 DEF Window!AllTasksCompleted

LEMMA WindowGoesOn == ASSUME WindowInv, Window!WindowNext PROVE WindowInv'
<1>1. "Copilot" \in Window!SideTask /\ "RecruitCalc" \in Window!SideTask
  BY DEF Window!SideTask
<1> QED
  BY <1>1, ClicksKeep, DisconnectsKeeps, ConnectsKeeps, LinkKeeps, ShowsKeep, LinkConnectedKeeps, AsstStopKeeps, CopilotStopKeeps,
     DisconnectedKeeps, SideKeeps, WorksKeep, CompletedKeeps
     DEF Window!WindowNext, Window!Events, Window!GoesOnByItself, Window!GoesOn, Window!SideGoesOn, Window!Executes

-----------------------------------------------------------------------------
(* The resources: what each thread has read so far is right as long as it has not       *)
(* failed, and m_loaded stands in the end for all three of them.                        *)

Anew == {"General", "Tasks", "WordOcr", "CharOcr"}
Cleared == {"Recruit", "RogueRecruit", "Shopping", "Items", "Tiles"}

\* The content c of n after a file of dir was read
ReadWell(n, c, dir) ==
  /\ "old" \in DOMAIN c
  /\ n \in Anew => c["old"] = dir
  /\ n \in Cleared => c = Loader!FileOf(dir, Loader!KeysOf(dir))

NotEmpty(n) == DOMAIN content[n] = {} => Loader!Lacking(n)
ReadRight(n) == NotEmpty(n) /\ (n # "Avatars" /\ Loader!HasFile(n) => ReadWell(n, content[n], loader.dir))

OfLoader ==
  {"loaded", "pictures", "dir", "odd", "oddities", "loads", "config", "tiles", "ocr", "failed", "main", "lacked"}

LoaderShape ==
  /\ DOMAIN loader = OfLoader /\ DOMAIN content = Loader!Configs
  /\ loader.pictures \in BOOLEAN /\ loader.loaded \in BOOLEAN
  /\ loader.config \in 1 .. 12 /\ loader.ocr \in 1 .. 3
  /\ loader.main # "idle" => loader.dir \in {"program", "region"}

\* The one odd file, and what is missing because of it.
OneIsOdd ==
  /\ loader.odd \in Loader!Odds
  /\ loader.odd # Loader!NoOdd => loader.oddities # 0
  /\ loader.odd # Loader!NoOdd => IF loader.odd.how = "absent" THEN loader.odd.file \in loader.lacked ELSE loader.lacked = {}
  /\ loader.oddities = 0 => loader.lacked = {}

SkillsAreWhole == content["Infrast"] = <<>> \/ "old" \in DOMAIN content["Infrast"]

ConfigsAreRead ==
  "config" \notin loader.failed =>
    /\ \A i \in 1 .. 11 : i < loader.config => ReadRight(Loader!ConfigFuture[i])
    /\ loader.config > 8 \/ loader.dir = "region" => loader.pictures = TRUE
    /\ loader.dir = "region" => \A i \in 1 .. 11 : NotEmpty(Loader!ConfigFuture[i])

TilesAreRead ==
  "tiles" \notin loader.failed =>
    /\ loader.tiles = "done" => ReadRight("Tiles")
    /\ loader.dir = "region" => NotEmpty("Tiles")

OcrIsRead ==
  "ocr" \notin loader.failed =>
    /\ \A i \in 1 .. 2 : i < loader.ocr => ReadRight(Loader!OcrFuture[i])
    /\ loader.dir = "region" => \A i \in 1 .. 2 : NotEmpty(Loader!OcrFuture[i])

\* What is loaded has come through the threads that were waited for.
AllAreAwaited ==
  loader.loaded = TRUE =>
    /\ loader.main \in {"tiles", "ocr", "idle"} => "config" \notin loader.failed /\ loader.config = 12
    /\ loader.main \in {"ocr", "idle"} => "tiles" \notin loader.failed /\ loader.tiles = "done"
    /\ loader.main = "idle" => "ocr" \notin loader.failed /\ loader.ocr = 3

LoaderInv == LoaderShape /\ OneIsOdd /\ SkillsAreWhole /\ ConfigsAreRead /\ TilesAreRead /\ OcrIsRead /\ AllAreAwaited

LEMMA ConfigsInOrder ==
  /\ DOMAIN Loader!ConfigFuture = 1 .. 11 /\ DOMAIN Loader!OcrFuture = 1 .. 2
  /\ Loader!ConfigFuture[7] = "Battle" /\ Loader!ConfigFuture[8] = "Tasks" /\ Loader!ConfigFuture[11] = "Avatars"
  /\ Loader!OcrFuture[1] = "WordOcr" /\ Loader!OcrFuture[2] = "CharOcr"
  /\ \A i \in 1 .. 11 : Loader!ConfigFuture[i] \notin {"Tiles", "WordOcr", "CharOcr"}
  /\ \A i \in 1 .. 10 : Loader!ConfigFuture[i] # "Avatars"
  /\ \A i, j \in 1 .. 11 : i < j => Loader!ConfigFuture[i] # Loader!ConfigFuture[j]
<1>1. /\ DOMAIN Loader!ConfigFuture = 1 .. 11 /\ DOMAIN Loader!OcrFuture = 1 .. 2
      /\ Loader!ConfigFuture[7] = "Battle" /\ Loader!ConfigFuture[8] = "Tasks" /\ Loader!ConfigFuture[11] = "Avatars"
      /\ Loader!OcrFuture[1] = "WordOcr" /\ Loader!OcrFuture[2] = "CharOcr"
  BY DEF Loader!ConfigFuture, Loader!OcrFuture
<1>2. \A i \in 1 .. 11 : Loader!ConfigFuture[i] \notin {"Tiles", "WordOcr", "CharOcr"}
  BY DEF Loader!ConfigFuture
<1>3. \A i \in 1 .. 10 : Loader!ConfigFuture[i] # "Avatars"
  BY DEF Loader!ConfigFuture
<1>4. \A i, j \in 1 .. 11 : i < j => Loader!ConfigFuture[i] # Loader!ConfigFuture[j]
  BY DEF Loader!ConfigFuture
<1> QED
  BY <1>1, <1>2, <1>3, <1>4

LEMMA AllConfigs ==
  Loader!Configs = {Loader!ConfigFuture[i] : i \in 1 .. 11} \cup {"WordOcr", "CharOcr", "Tiles"}
<1>1. {Loader!OcrFuture[i] : i \in 1 .. 2} = {"WordOcr", "CharOcr"}
  BY ConfigsInOrder
<1> QED
  BY <1>1, ConfigsInOrder DEF Loader!Configs

LEMMA NoKeys == \A dir : Loader!FileOf(dir, {}) = <<>>
BY DEF Loader!FileOf

\* Each parse makes of a whole file what its config is to be.
LEMMA ParsesWell ==
  ASSUME NEW i \in 1 .. 10, NEW n, n = Loader!ConfigFuture[i], NEW old, NEW dir, n = "Infrast" => (old = <<>> \/ "old" \in DOMAIN old)
  PROVE  ReadWell(n, Loader!Parse(n, old, Loader!FileOf(dir, Loader!KeysOf(dir))), dir)
<1> DEFINE f == Loader!FileOf(dir, Loader!KeysOf(dir))
<1>1. "old" \in DOMAIN f /\ f["old"] = dir
  BY DEF Loader!FileOf, Loader!KeysOf
<1>2. "old" \in DOMAIN Loader!Overridden(old, f) /\ Loader!Overridden(old, f)["old"] = dir
  BY <1>1 DEF Loader!Overridden
<1>3. "old" \in DOMAIN Loader!KeptFirst(old, f)
  BY <1>1 DEF Loader!KeptFirst, Loader!Overridden
<1> HIDE DEF f
<1>4. n \in {"General", "Recruit", "Stages", "Copilot", "RogueRecruit", "Shopping", "Battle", "Tasks", "Infrast", "Items"}
  BY DEF Loader!ConfigFuture
<1>5. CASE n \in {"General", "Tasks"}
  <2>1. Loader!Parse(n, old, f) = Loader!Overridden(old, f)
    BY <1>5 DEF Loader!Parse, Loader!GeneralParse, Loader!TasksParse
  <2> QED
    BY <1>5, <2>1, <1>2 DEF ReadWell, Cleared, f
<1>6. CASE n \in {"Stages", "Copilot", "Battle"}
  <2>1. Loader!Parse(n, old, f) = Loader!KeptFirst(old, f)
    BY <1>6 DEF Loader!Parse, Loader!StagesParse, Loader!CopilotParse, Loader!BattleParse
  <2> QED
    BY <1>6, <2>1, <1>3 DEF ReadWell, Cleared, Anew, f
<1>7. CASE n \in {"Recruit", "RogueRecruit", "Shopping", "Items"}
  <2>1. Loader!Parse(n, old, f) = f
    BY <1>7 DEF Loader!Parse, Loader!RecruitParse, Loader!RogueRecruitParse, Loader!ShoppingParse, Loader!ItemsParse
  <2> QED
    BY <1>7, <2>1, <1>1 DEF ReadWell, Anew, f
<1>8. CASE n = "Infrast"
  <2>1. Loader!Parse(n, old, f) = IF old = <<>> THEN f ELSE old
    BY <1>8 DEF Loader!Parse, Loader!InfrastParse
  <2> QED
    BY <1>8, <2>1, <1>1 DEF ReadWell, Anew, Cleared, f
<1> QED
  BY <1>4, <1>5, <1>6, <1>7, <1>8

LEMMA LoaderStarts == ASSUME Loader!ResourcesInit PROVE LoaderInv
<1>1. LoaderShape /\ OneIsOdd
  BY DEF Loader!ResourcesInit, LoaderShape, OneIsOdd, OfLoader, Loader!Odds
<1>2. SkillsAreWhole
  <2>1. "Infrast" \in Loader!Configs
    BY DEF Loader!Configs, Loader!ConfigFuture
  <2> QED
    BY <2>1 DEF Loader!ResourcesInit, SkillsAreWhole
<1>3. ConfigsAreRead /\ TilesAreRead /\ OcrIsRead /\ AllAreAwaited
  BY DEF Loader!ResourcesInit, ConfigsAreRead, TilesAreRead, OcrIsRead, AllAreAwaited
<1> QED
  BY <1>1, <1>2, <1>3 DEF LoaderInv

\* A load begins only when none runs; the one of a region only when all has succeeded.
LEMMA LoadBegins == ASSUME LoaderInv, NEW dir \in {"program", "region"}, Loader!LoadResource(dir) PROVE LoaderInv'
<1>1. PICK odd \in Loader!Odds :
        /\ odd # Loader!NoOdd => loader.oddities = 0
        /\ loader' = [loader EXCEPT !.dir = dir, !.odd = odd, !.oddities = IF odd = Loader!NoOdd THEN @ ELSE 1, !.loads = @ + 1,
                                    !.config = 1, !.tiles = "run", !.ocr = 1, !.failed = {}, !.main = "begun",
                                    !.lacked = IF odd.how = "absent" THEN {odd.file} ELSE @]
  BY DEF Loader!LoadResource
<1>2. /\ DOMAIN loader' = OfLoader /\ loader'.dir = dir /\ loader'.odd = odd /\ loader'.config = 1 /\ loader'.tiles = "run"
      /\ loader'.ocr = 1 /\ loader'.failed = {} /\ loader'.main = "begun"
      /\ loader'.pictures = loader.pictures /\ loader'.loaded = loader.loaded
      /\ loader'.oddities = (IF odd = Loader!NoOdd THEN loader.oddities ELSE 1)
      /\ loader'.lacked = (IF odd.how = "absent" THEN {odd.file} ELSE loader.lacked)
  BY <1>1 DEF LoaderInv, LoaderShape, OfLoader
<1>3. UNCHANGED content /\ loader.main = "idle" /\ (dir = "region" => loader.loaded = TRUE)
  BY DEF Loader!LoadResource, LoaderInv, LoaderShape
<1>4. LoaderShape'
  BY <1>2, <1>3 DEF LoaderInv, LoaderShape
<1>5. OneIsOdd' /\ (odd # Loader!NoOdd => loader.lacked = {}) /\ Loader!NoOdd.how = "none"
  <2>1. Loader!NoOdd.how = "none"
    BY DEF Loader!NoOdd
  <2>2. odd # Loader!NoOdd => loader.lacked = {}
    BY <1>1 DEF LoaderInv, OneIsOdd
  <2>3. loader'.odd # Loader!NoOdd => IF loader'.odd.how = "absent" THEN loader'.odd.file \in loader'.lacked ELSE loader'.lacked = {}
    BY <1>2, <2>2
  <2>4. loader'.oddities = 0 => loader'.lacked = {}
    BY <1>2, <2>1 DEF LoaderInv, OneIsOdd
  <2> QED
    BY <1>2, <2>1, <2>2, <2>3, <2>4 DEF OneIsOdd
<1>6. loader.lacked \subseteq loader'.lacked
  BY <1>2, <1>5
<1>7. \A n : NotEmpty(n) => NotEmpty(n)'
  BY <1>3, <1>6 DEF NotEmpty, Loader!Lacking
<1>8. ConfigsAreRead' /\ TilesAreRead' /\ OcrIsRead'
  <2>1. CASE dir = "program"
    BY <1>2, <2>1 DEF ConfigsAreRead, TilesAreRead, OcrIsRead
  <2>2. CASE dir = "region"
    <3>1. /\ "config" \notin loader.failed /\ loader.config = 12 /\ "tiles" \notin loader.failed /\ loader.tiles = "done"
          /\ "ocr" \notin loader.failed /\ loader.ocr = 3
      BY <2>2, <1>3 DEF LoaderInv, AllAreAwaited
    <3>2. /\ \A i \in 1 .. 11 : NotEmpty(Loader!ConfigFuture[i])
          /\ NotEmpty("Tiles") /\ (\A i \in 1 .. 2 : NotEmpty(Loader!OcrFuture[i])) /\ loader.pictures = TRUE
      BY <3>1 DEF LoaderInv, ConfigsAreRead, TilesAreRead, OcrIsRead, ReadRight
    <3>3. /\ \A i \in 1 .. 11 : NotEmpty(Loader!ConfigFuture[i])'
          /\ NotEmpty("Tiles")' /\ \A i \in 1 .. 2 : NotEmpty(Loader!OcrFuture[i])'
      BY <3>2, <1>7
    <3> QED
      BY <1>2, <3>2, <3>3 DEF ConfigsAreRead, TilesAreRead, OcrIsRead
  <2> QED
    BY <2>1, <2>2
<1>9. SkillsAreWhole' /\ AllAreAwaited'
  BY <1>2, <1>3 DEF LoaderInv, SkillsAreWhole, AllAreAwaited
<1> QED
  BY <1>4, <1>5, <1>8, <1>9 DEF LoaderInv

\* While a load runs, it is always of the same directory, with the same odd file.
LoadStays ==
  /\ DOMAIN loader' = OfLoader /\ loader'.dir = loader.dir /\ loader'.odd = loader.odd /\ loader'.oddities = loader.oddities
  /\ loader'.lacked = loader.lacked

\* What a thread does not read stays as right as it was.
LEMMA OthersStay ==
  ASSUME LoadStays, NEW n, content'[n] = content[n]
  PROVE  /\ NotEmpty(n) => NotEmpty(n)'
         /\ ReadRight(n) => ReadRight(n)'
BY DEF LoadStays, NotEmpty, ReadRight, Loader!Lacking, Loader!HasFile

\* What has no file is known from before, or its file is the one that is missing.
LEMMA WithoutFile ==
  ASSUME LoaderInv, Loader!Going, NEW n, ~Loader!HasFile(n), loader.dir = "region" => NotEmpty(n)
  PROVE  NotEmpty(n)
<1>1. CASE loader.dir = "region"
  BY <1>1
<1>2. CASE loader.dir = "program"
  <2>1. loader.odd = [file |-> n, how |-> "absent"]
    BY <1>2 DEF Loader!HasFile
  <2> QED
    BY <2>1 DEF LoaderInv, OneIsOdd, Loader!NoOdd, NotEmpty, Loader!Lacking
<1> QED
  BY <1>1, <1>2 DEF LoaderInv, LoaderShape, Loader!Going

\* A file that was read well is not empty.
LEMMA WellIsNotEmpty == ASSUME NEW n, ReadWell(n, content[n], loader.dir) PROVE ReadRight(n)
BY DEF ReadWell, NotEmpty, ReadRight

\* What a step of the first thread leaves behind: the next config is right, or the thread has failed.
ConfigIsRead(n) ==
  /\ LoadStays /\ UNCHANGED <<loader.loaded, loader.tiles, loader.ocr, loader.main>>
  /\ loader'.config = loader.config + 1 /\ loader'.pictures \in BOOLEAN
  /\ loader'.failed \in {loader.failed, loader.failed \cup {"config"}}
  /\ DOMAIN content' = Loader!Configs /\ \A m \in Loader!Configs : m # n => content'[m] = content[m]
  /\ "config" \notin loader'.failed =>
       ReadRight(n)' /\ (n = "Tasks" => loader'.pictures = TRUE) /\ (n # "Tasks" => loader'.pictures = loader.pictures)
  /\ SkillsAreWhole'

LEMMA ReadsConfig ==
  ASSUME LoaderInv, NEW n \in Loader!Configs, NEW ok, NEW c, NEW p \in BOOLEAN, n = "Infrast" => (c = <<>> \/ "old" \in DOMAIN c),
         ok \in BOOLEAN, content' = [content EXCEPT ![n] = c],
         loader' = [[loader EXCEPT !.config = @ + 1, !.pictures = p] EXCEPT !.failed = IF ok THEN @ ELSE @ \cup {"config"}],
         ok = TRUE => NotEmpty(n)' /\ (n # "Avatars" /\ Loader!HasFile(n) => ReadWell(n, c, loader.dir)) /\ (n = "Tasks" => p = TRUE),
         ok = TRUE /\ n # "Tasks" => p = loader.pictures
  PROVE  ConfigIsRead(n)
<1>1. LoadStays /\ UNCHANGED <<loader.loaded, loader.tiles, loader.ocr, loader.main>>
  BY DEF LoaderInv, LoaderShape, LoadStays, OfLoader
<1>2. /\ loader'.config = loader.config + 1 /\ loader'.pictures = p
      /\ loader'.failed = IF ok THEN loader.failed ELSE loader.failed \cup {"config"}
  BY DEF LoaderInv, LoaderShape, OfLoader
<1>3. DOMAIN content' = Loader!Configs /\ content'[n] = c /\ \A m \in Loader!Configs : m # n => content'[m] = content[m]
  BY DEF LoaderInv, LoaderShape
<1>4. SkillsAreWhole'
  <2>1. "Infrast" \in Loader!Configs
    BY DEF Loader!Configs, Loader!ConfigFuture
  <2> QED
    BY <2>1, <1>3 DEF LoaderInv, SkillsAreWhole
<1>5. CASE ok = FALSE
  <2>1. loader'.failed = loader.failed \cup {"config"}
    BY <1>2, <1>5
  <2> QED
    BY <1>1, <1>2, <1>3, <1>4, <2>1 DEF ConfigIsRead
<1>6. CASE ok = TRUE
  <2>1. ReadRight(n)'
    BY <1>1, <1>3, <1>6 DEF ReadRight, LoadStays, Loader!HasFile
  <2>2. loader'.failed = loader.failed
    BY <1>2, <1>6
  <2> QED
    BY <1>1, <1>2, <1>3, <1>4, <1>6, <2>1, <2>2 DEF ConfigIsRead
<1> QED
  BY <1>5, <1>6

LEMMA ConfigGoesOn == ASSUME LoaderInv, Loader!LoadConfig, NEW n, n = Loader!ConfigFuture[loader.config] PROVE ConfigIsRead(n)
<1> DEFINE old == content[n]
           dir == loader.dir
           From(keys) == Loader!Parse(n, old, Loader!FileOf(dir, keys))
           all == Loader!KeysOf(dir)
           p == loader.pictures \/ (n = "Tasks" /\ (Loader!HasFile(n) \/ loader.loaded) /\ Loader!How(n) # "throws")
<1>1. /\ Loader!Going /\ "config" \notin loader.failed /\ loader.config \in 1 .. 11 /\ n \in Loader!Configs
      /\ n \notin {"Tiles", "WordOcr", "CharOcr"}
  BY ConfigsInOrder, AllConfigs DEF Loader!LoadConfig
<1>2. n # "Avatars" => loader.config \in 1 .. 10
  BY <1>1, ConfigsInOrder
<1>3. p \in BOOLEAN /\ loader.loaded \in BOOLEAN /\ loader.pictures \in BOOLEAN /\ (n # "Tasks" => p = loader.pictures)
  BY DEF LoaderInv, LoaderShape
<1>4. SkillsAreWhole /\ (n = "Infrast" => (old = <<>> \/ "old" \in DOMAIN old))
  BY DEF LoaderInv, SkillsAreWhole
<1>5. ASSUME NEW ok \in BOOLEAN, NEW c, NEW q \in BOOLEAN, Loader!ReadsConfig(n, ok, c, q)
      PROVE  LoadStays /\ content'[n] = c /\ \A m \in Loader!Configs : m # n => content'[m] = content[m]
  BY <1>1, <1>5 DEF LoaderInv, LoaderShape, LoadStays, OfLoader, Loader!ReadsConfig, Loader!Reads
<1>6. CASE n = "Avatars" /\ Loader!ReadsConfig(n, TRUE, Loader!AvatarsLoad(old), p)
  <2>0. loader.config = 11
    <3>1. \A i \in 1 .. 10 : n # Loader!ConfigFuture[i]
      BY <1>6, ConfigsInOrder
    <3>2. loader.config \notin 1 .. 10
      BY <3>1
    <3> QED
      BY <1>1, <3>2
  <2>1. DOMAIN content["Battle"] = {} => Loader!Lacking("Battle")
    <3>1. ReadRight(Loader!ConfigFuture[7])
      BY <1>1, <2>0 DEF LoaderInv, ConfigsAreRead
    <3> QED
      BY <3>1, ConfigsInOrder DEF ReadRight, NotEmpty
  <2>2. DOMAIN Loader!AvatarsLoad(old) = {} => DOMAIN content["Battle"] = {}
    BY DEF Loader!AvatarsLoad, Loader!KeptFirst, Loader!Overridden
  <2>3. NotEmpty(n)'
    BY <1>3, <1>5, <1>6, <2>1, <2>2 DEF NotEmpty, Loader!Lacking, LoadStays
  <2> QED
    BY <1>1, <1>3, <1>6, <2>3, ReadsConfig DEF Loader!ReadsConfig, Loader!Reads
<1>7. CASE n # "Avatars" /\ ~Loader!HasFile(n) /\ Loader!ReadsConfig(n, loader.loaded, old, p)
  <2>1. NotEmpty(n)
    BY <1>1, <1>7, WithoutFile DEF LoaderInv, ConfigsAreRead
  <2>2. NotEmpty(n)'
    BY <1>3, <1>5, <1>7, <2>1 DEF NotEmpty, Loader!Lacking, LoadStays
  <2>3. loader.loaded = TRUE /\ n = "Tasks" => p = TRUE
    <3>1. CASE dir = "region"
      BY <1>1, <1>3, <3>1 DEF LoaderInv, ConfigsAreRead
    <3>2. CASE dir = "program"
      <4>1. loader.odd = [file |-> n, how |-> "absent"]
        BY <1>7, <3>2 DEF Loader!HasFile
      <4> QED
        BY <4>1 DEF Loader!How
    <3> QED
      BY <1>1, <3>1, <3>2 DEF LoaderInv, LoaderShape, Loader!Going
  <2> DEFINE ok == loader.loaded
  <2>4. ok \in BOOLEAN /\ Loader!ReadsConfig(n, ok, old, p) /\ (ok = TRUE /\ n = "Tasks" => p = TRUE)
    BY <1>3, <1>7, <2>3
  <2> HIDE DEF p, old, ok
  <2> QED
    BY <1>1, <1>3, <1>4, <1>7, <2>2, <2>4, ReadsConfig DEF Loader!ReadsConfig, Loader!Reads
<1>8. ASSUME NEW c, NEW q \in BOOLEAN, Loader!ReadsConfig(n, FALSE, c, q), n = "Infrast" => (c = <<>> \/ "old" \in DOMAIN c)
      PROVE  ConfigIsRead(n)
  BY <1>1, <1>8, ReadsConfig DEF Loader!ReadsConfig, Loader!Reads
<1>9. CASE n # "Avatars" /\ Loader!HasFile(n) /\ Loader!How(n) # "throws" /\ Loader!ReadsConfig(n, TRUE, From(all), p)
  <2>1. ReadWell(n, From(all), dir)
    BY <1>1, <1>2, <1>4, <1>9, ParsesWell
  <2>2. NotEmpty(n)'
    BY <1>3, <1>5, <1>9, <2>1 DEF NotEmpty, ReadWell
  <2>3. n = "Tasks" => p = TRUE
    BY <1>9
  <2>4. n = "Infrast" => (From(all) = <<>> \/ "old" \in DOMAIN From(all))
    BY <2>1 DEF ReadWell
  <2> HIDE DEF From, all
  <2> QED
    BY <1>1, <1>3, <1>9, <2>1, <2>2, <2>3, <2>4, ReadsConfig DEF Loader!ReadsConfig, Loader!Reads
<1>10. CASE Loader!How(n) = "throws" /\ \E some \in SUBSET all : Loader!ReadsConfig(n, FALSE, From(some), p)
  <2>1. PICK some \in SUBSET all : Loader!ReadsConfig(n, FALSE, From(some), p)
    BY <1>10
  <2>2. n = "Infrast" => (From(some) = <<>> \/ "old" \in DOMAIN From(some))
    <3> SUFFICES ASSUME n = "Infrast", old = <<>> PROVE From(some) = <<>> \/ "old" \in DOMAIN From(some)
      BY <1>4 DEF Loader!Parse, Loader!InfrastParse
    <3>1. From(some) = Loader!FileOf(dir, some)
      BY DEF Loader!Parse, Loader!InfrastParse
    <3>2. dir = "program"
      <4>1. loader.odd # Loader!NoOdd /\ loader.odd.how # "absent"
        BY <1>10 DEF Loader!How, Loader!NoOdd
      <4>2. ~Loader!Lacking("Infrast")
        BY <4>1 DEF LoaderInv, OneIsOdd, Loader!Lacking
      <4>3. ~NotEmpty("Infrast")
        BY <4>2 DEF NotEmpty
      <4> QED
        BY <1>1, <4>3 DEF LoaderInv, LoaderShape, ConfigsAreRead, Loader!Going
    <3>3. some = {} \/ "old" \in some
      BY <3>2 DEF Loader!KeysOf
    <3>4. "old" \in some => "old" \in DOMAIN From(some)
      BY <3>1 DEF Loader!FileOf
    <3> QED
      BY <3>1, <3>3, <3>4, NoKeys
  <2> QED
    BY <1>3, <1>8, <2>1, <2>2
<1>11. CASE Loader!HasFile(n) /\ n # "Avatars" /\ Loader!ReadsConfig(n, FALSE, From(all), FALSE)
  <2>1. ReadWell(n, From(all), dir)
    BY <1>1, <1>2, <1>4, <1>11, ParsesWell
  <2> QED
    BY <1>8, <1>11, <2>1 DEF ReadWell
<1>12. CASE Loader!ReadsConfig(n, FALSE, old, p)
  BY <1>3, <1>4, <1>8, <1>12
<1> QED
  BY <1>6, <1>7, <1>9, <1>10, <1>11, <1>12 DEF Loader!LoadConfig

\* The first thread goes on to its next config, and disturbs no other.
LEMMA ConfigKeeps == ASSUME LoaderInv, Loader!LoadConfig PROVE LoaderInv'
<1>0. PICK n : n = Loader!ConfigFuture[loader.config]
  OBVIOUS
<1>1. /\ Loader!Going /\ "config" \notin loader.failed /\ loader.config \in 1 .. 11 /\ n \in Loader!Configs
      /\ n \notin {"Tiles", "WordOcr", "CharOcr"}
  BY <1>0, ConfigsInOrder, AllConfigs DEF Loader!LoadConfig
<1>2. ConfigIsRead(n)
  BY <1>0, ConfigGoesOn
<1>3. /\ LoadStays /\ UNCHANGED <<loader.loaded, loader.tiles, loader.ocr, loader.main>>
      /\ loader'.config = loader.config + 1 /\ loader'.pictures \in BOOLEAN
      /\ loader'.failed \in {loader.failed, loader.failed \cup {"config"}}
      /\ DOMAIN content' = Loader!Configs /\ SkillsAreWhole'
  BY <1>2 DEF ConfigIsRead
<1>4. \A m \in Loader!Configs : m # n => (NotEmpty(m) => NotEmpty(m)') /\ (ReadRight(m) => ReadRight(m)')
  BY <1>2, <1>3, OthersStay DEF ConfigIsRead
<1>5. LoaderShape' /\ OneIsOdd'
  BY <1>1, <1>3 DEF LoaderInv, LoaderShape, OneIsOdd, LoadStays
<1>6. ConfigsAreRead'
  <2> SUFFICES ASSUME "config" \notin loader'.failed PROVE ConfigsAreRead'
    BY DEF ConfigsAreRead
  <2>1. ReadRight(n)' /\ (n = "Tasks" => loader'.pictures = TRUE) /\ (n # "Tasks" => loader'.pictures = loader.pictures)
    BY <1>2 DEF ConfigIsRead
  <2>2. \A i \in 1 .. 11 : Loader!ConfigFuture[i] \in Loader!Configs /\ (i < loader.config => Loader!ConfigFuture[i] # n)
    BY <1>0, <1>1, AllConfigs, ConfigsInOrder
  <2>3. ASSUME NEW i \in 1 .. 11, i < loader'.config PROVE ReadRight(Loader!ConfigFuture[i])'
    <3>1. CASE i = loader.config
      BY <1>0, <2>1, <3>1
    <3>2. CASE i < loader.config
      BY <1>1, <1>4, <2>2, <3>2 DEF LoaderInv, ConfigsAreRead
    <3> QED
      BY <1>1, <1>3, <2>3, <3>1, <3>2
  <2>4. ASSUME NEW i \in 1 .. 11, loader'.dir = "region" PROVE NotEmpty(Loader!ConfigFuture[i])'
    <3>1. NotEmpty(Loader!ConfigFuture[i])
      BY <1>1, <1>3, <2>4 DEF LoaderInv, ConfigsAreRead, LoadStays
    <3>2. CASE Loader!ConfigFuture[i] = n
      BY <2>1, <3>2 DEF ReadRight
    <3> QED
      BY <1>4, <2>2, <3>1, <3>2
  <2>5. loader'.config > 8 \/ loader'.dir = "region" => loader'.pictures = TRUE
    <3>1. loader.config = 8 => n = "Tasks"
      BY <1>0, ConfigsInOrder
    <3> QED
      BY <1>1, <1>3, <2>1, <3>1 DEF LoaderInv, ConfigsAreRead, LoadStays
  <2> QED
    BY <2>3, <2>4, <2>5 DEF ConfigsAreRead
<1>7. TilesAreRead' /\ OcrIsRead'
  <2>1. "Tiles" \in Loader!Configs /\ \A i \in 1 .. 2 : Loader!OcrFuture[i] \in Loader!Configs /\ Loader!OcrFuture[i] \in {"WordOcr", "CharOcr"}
    BY AllConfigs, ConfigsInOrder
  <2>2. n # "Tiles" /\ \A i \in 1 .. 2 : Loader!OcrFuture[i] # n
    BY <1>1, <2>1
  <2> QED
    BY <1>3, <1>4, <2>1, <2>2 DEF LoaderInv, TilesAreRead, OcrIsRead, LoadStays
<1>8. AllAreAwaited'
  BY <1>1, <1>3 DEF LoaderInv, AllAreAwaited
<1> QED
  BY <1>3, <1>5, <1>6, <1>7, <1>8 DEF LoaderInv

\* What a step of another thread t leaves of the configs and of the rest.
LEMMA ApartFromConfigs ==
  ASSUME LoaderInv, LoadStays, LoaderShape', NEW t \in {"tiles", "ocr"},
         UNCHANGED <<loader.config, loader.pictures, loader.loaded, loader.main>>,
         loader'.failed \in {loader.failed, loader.failed \cup {t}},
         \A m \in Loader!Configs : m \notin {"Tiles", "WordOcr", "CharOcr"} => content'[m] = content[m]
  PROVE  OneIsOdd' /\ SkillsAreWhole' /\ ConfigsAreRead'
<1>1. OneIsOdd'
  BY DEF LoaderInv, OneIsOdd, LoadStays
<1>2. "Infrast" \in Loader!Configs /\ \A i \in 1 .. 11 : content'[Loader!ConfigFuture[i]] = content[Loader!ConfigFuture[i]]
  <2>1. "Infrast" \in Loader!Configs
    BY DEF Loader!Configs, Loader!ConfigFuture
  <2> QED
    BY <2>1, AllConfigs, ConfigsInOrder
<1>3. SkillsAreWhole'
  <2>1. content'["Infrast"] = content["Infrast"]
    BY <1>2
  <2> QED
    BY <2>1 DEF LoaderInv, SkillsAreWhole
<1>4. \A i \in 1 .. 11 :
        /\ NotEmpty(Loader!ConfigFuture[i]) => NotEmpty(Loader!ConfigFuture[i])'
        /\ ReadRight(Loader!ConfigFuture[i]) => ReadRight(Loader!ConfigFuture[i])'
  <2> SUFFICES ASSUME NEW i \in 1 .. 11
               PROVE  /\ NotEmpty(Loader!ConfigFuture[i]) => NotEmpty(Loader!ConfigFuture[i])'
                      /\ ReadRight(Loader!ConfigFuture[i]) => ReadRight(Loader!ConfigFuture[i])'
    OBVIOUS
  <2>1. PICK m : m = Loader!ConfigFuture[i]
    OBVIOUS
  <2>2. content'[m] = content[m]
    BY <1>2, <2>1
  <2> QED
    BY <2>1, <2>2, OthersStay
<1>5. ConfigsAreRead'
  BY <1>4 DEF LoaderInv, ConfigsAreRead, LoadStays
<1> QED
  BY <1>1, <1>3, <1>5

LEMMA TilesKeep == ASSUME LoaderInv, Loader!LoadTiles PROVE LoaderInv'
<1>1. /\ Loader!Going /\ loader.tiles = "run" /\ "Tiles" \in Loader!Configs /\ "Tiles" \notin {"WordOcr", "CharOcr"}
  BY AllConfigs DEF Loader!LoadTiles
<1>2. \E ok \in BOOLEAN : \E c :
        /\ loader' = [[loader EXCEPT !.tiles = "done"] EXCEPT !.failed = IF ok THEN @ ELSE @ \cup {"tiles"}]
        /\ content' = [content EXCEPT !["Tiles"] = c]
        /\ \/ ~Loader!HasFile("Tiles") /\ c = content["Tiles"]
           \/ ok = FALSE
           \/ c = Loader!FileOf(loader.dir, Loader!KeysOf(loader.dir))
  <2>1. loader.loaded \in BOOLEAN
    BY DEF LoaderInv, LoaderShape
  <2> QED
    BY <2>1 DEF Loader!LoadTiles, Loader!Reads
<1>3. PICK ok \in BOOLEAN : \E c :
        /\ loader' = [[loader EXCEPT !.tiles = "done"] EXCEPT !.failed = IF ok THEN @ ELSE @ \cup {"tiles"}]
        /\ content' = [content EXCEPT !["Tiles"] = c]
        /\ \/ ~Loader!HasFile("Tiles") /\ c = content["Tiles"]
           \/ ok = FALSE
           \/ c = Loader!FileOf(loader.dir, Loader!KeysOf(loader.dir))
  BY <1>2
<1>4. PICK c :
        /\ loader' = [[loader EXCEPT !.tiles = "done"] EXCEPT !.failed = IF ok THEN @ ELSE @ \cup {"tiles"}]
        /\ content' = [content EXCEPT !["Tiles"] = c]
        /\ \/ ~Loader!HasFile("Tiles") /\ c = content["Tiles"]
           \/ ok = FALSE
           \/ c = Loader!FileOf(loader.dir, Loader!KeysOf(loader.dir))
  BY <1>3
<1>5. /\ LoadStays /\ UNCHANGED <<loader.config, loader.pictures, loader.loaded, loader.main, loader.ocr>>
      /\ loader'.failed = (IF ok THEN loader.failed ELSE loader.failed \cup {"tiles"}) /\ loader'.tiles = "done"
      /\ DOMAIN content' = Loader!Configs /\ content'["Tiles"] = c
      /\ \A m \in Loader!Configs : m # "Tiles" => content'[m] = content[m]
  BY <1>1, <1>4 DEF LoaderInv, LoaderShape, LoadStays, OfLoader
<1>6. LoaderShape'
  BY <1>5 DEF LoaderInv, LoaderShape, LoadStays
<1>7. OneIsOdd' /\ SkillsAreWhole' /\ ConfigsAreRead'
  BY <1>5, <1>6, ApartFromConfigs
<1>8. TilesAreRead'
  <2> SUFFICES ASSUME "tiles" \notin loader'.failed PROVE ReadRight("Tiles")'
    BY DEF TilesAreRead, ReadRight
  <2>1. "tiles" \notin loader.failed /\ ok = TRUE
    BY <1>5
  <2>2. CASE ~Loader!HasFile("Tiles") /\ c = content["Tiles"]
    <3>1. NotEmpty("Tiles")
      BY <1>1, <2>1, <2>2, WithoutFile DEF LoaderInv, TilesAreRead
    <3>2. ReadRight("Tiles")
      BY <2>2, <3>1 DEF ReadRight
    <3> QED
      BY <1>5, <2>2, <3>2, OthersStay
  <2>3. CASE c = Loader!FileOf(loader.dir, Loader!KeysOf(loader.dir))
    <3>1. ReadWell("Tiles", c, loader.dir)
      BY <2>3 DEF ReadWell, Anew, Loader!FileOf, Loader!KeysOf
    <3> QED
      BY <1>5, <3>1 DEF ReadRight, NotEmpty, ReadWell, LoadStays
  <2> QED
    BY <1>4, <2>1, <2>2, <2>3
<1>9. OcrIsRead'
  <2>1. \A i \in 1 .. 2 : Loader!OcrFuture[i] \in Loader!Configs /\ Loader!OcrFuture[i] # "Tiles"
    BY AllConfigs, ConfigsInOrder
  <2>2. ASSUME NEW m \in Loader!Configs, m # "Tiles"
        PROVE  (NotEmpty(m) => NotEmpty(m)') /\ (ReadRight(m) => ReadRight(m)')
    BY <1>5, <2>2, OthersStay
  <2> QED
    BY <1>5, <2>1, <2>2 DEF LoaderInv, OcrIsRead, LoadStays
<1>10. AllAreAwaited'
  BY <1>1, <1>5 DEF LoaderInv, AllAreAwaited
<1> QED
  BY <1>6, <1>7, <1>8, <1>9, <1>10 DEF LoaderInv

LEMMA OcrKeeps == ASSUME LoaderInv, Loader!LoadOcr PROVE LoaderInv'
<1>0. PICK n : n = Loader!OcrFuture[loader.ocr]
  OBVIOUS
<1>1. /\ Loader!Going /\ "ocr" \notin loader.failed /\ loader.ocr \in 1 .. 2 /\ n \in Loader!Configs
      /\ n \in {"WordOcr", "CharOcr"}
  BY <1>0, ConfigsInOrder, AllConfigs DEF Loader!LoadOcr
<1>2. \E ok \in BOOLEAN : \E c :
        /\ loader' = [[loader EXCEPT !.ocr = @ + 1] EXCEPT !.failed = IF ok THEN @ ELSE @ \cup {"ocr"}]
        /\ content' = [content EXCEPT ![n] = c]
        /\ \/ ~Loader!HasFile(n) /\ c = content[n]
           \/ /\ ok = (DOMAIN c = {"old", "new"})
              /\ \E keys \in {{"old"}, {"old", "new"}} : c = Loader!Overridden(content[n], Loader!FileOf(loader.dir, keys))
  <2>1. loader.loaded \in BOOLEAN
    BY DEF LoaderInv, LoaderShape
  <2>2. CASE ~Loader!HasFile(n)
    BY <1>0, <2>1, <2>2 DEF Loader!LoadOcr, Loader!Reads
  <2>3. CASE Loader!HasFile(n)
    <3> DEFINE keys == IF Loader!How(n) = "half" THEN {"old"} ELSE {"old", "new"}
               c == Loader!Overridden(content[n], Loader!FileOf(loader.dir, keys))
               ok == DOMAIN c = {"old", "new"}
    <3>1. /\ loader' = [[loader EXCEPT !.ocr = @ + 1] EXCEPT !.failed = IF ok THEN @ ELSE @ \cup {"ocr"}]
          /\ content' = [content EXCEPT ![n] = c]
      BY <1>0, <2>3 DEF Loader!LoadOcr, Loader!Reads
    <3>2. keys \in {{"old"}, {"old", "new"}} /\ ok \in BOOLEAN
      OBVIOUS
    <3> QED
      BY <3>1, <3>2
  <2> QED
    BY <2>2, <2>3
<1>3. PICK ok \in BOOLEAN : \E c :
        /\ loader' = [[loader EXCEPT !.ocr = @ + 1] EXCEPT !.failed = IF ok THEN @ ELSE @ \cup {"ocr"}]
        /\ content' = [content EXCEPT ![n] = c]
        /\ \/ ~Loader!HasFile(n) /\ c = content[n]
           \/ /\ ok = (DOMAIN c = {"old", "new"})
              /\ \E keys \in {{"old"}, {"old", "new"}} : c = Loader!Overridden(content[n], Loader!FileOf(loader.dir, keys))
  BY <1>2
<1>4. PICK c :
        /\ loader' = [[loader EXCEPT !.ocr = @ + 1] EXCEPT !.failed = IF ok THEN @ ELSE @ \cup {"ocr"}]
        /\ content' = [content EXCEPT ![n] = c]
        /\ \/ ~Loader!HasFile(n) /\ c = content[n]
           \/ /\ ok = (DOMAIN c = {"old", "new"})
              /\ \E keys \in {{"old"}, {"old", "new"}} : c = Loader!Overridden(content[n], Loader!FileOf(loader.dir, keys))
  BY <1>3
<1>5. /\ LoadStays /\ UNCHANGED <<loader.config, loader.pictures, loader.loaded, loader.main, loader.tiles>>
      /\ loader'.failed = (IF ok THEN loader.failed ELSE loader.failed \cup {"ocr"}) /\ loader'.ocr = loader.ocr + 1
      /\ DOMAIN content' = Loader!Configs /\ content'[n] = c
      /\ \A m \in Loader!Configs : m # n => content'[m] = content[m]
  BY <1>1, <1>4 DEF LoaderInv, LoaderShape, LoadStays, OfLoader
<1>6. LoaderShape'
  BY <1>1, <1>5 DEF LoaderInv, LoaderShape, LoadStays
<1>7. OneIsOdd' /\ SkillsAreWhole' /\ ConfigsAreRead'
  BY <1>1, <1>5, <1>6, ApartFromConfigs
<1>8. ASSUME NEW m \in Loader!Configs, m # n
      PROVE  (NotEmpty(m) => NotEmpty(m)') /\ (ReadRight(m) => ReadRight(m)')
  BY <1>5, <1>8, OthersStay
<1>9. TilesAreRead'
  <2>1. "Tiles" \in Loader!Configs /\ "Tiles" # n
    BY <1>1, AllConfigs
  <2> QED
    BY <1>5, <1>8, <2>1 DEF LoaderInv, TilesAreRead, LoadStays
<1>10. OcrIsRead'
  <2> SUFFICES ASSUME "ocr" \notin loader'.failed PROVE OcrIsRead'
    BY DEF OcrIsRead
  <2>1. ok = TRUE
    BY <1>5
  <2>2. ReadRight(n)'
    <3>1. CASE ~Loader!HasFile(n) /\ c = content[n]
      <4>1. NotEmpty(n)
        BY <1>0, <1>1, <3>1, WithoutFile DEF LoaderInv, OcrIsRead
      <4>2. ReadRight(n)
        BY <3>1, <4>1 DEF ReadRight
      <4> QED
        BY <1>5, <3>1, <4>2, OthersStay
    <3>2. CASE \E keys \in {{"old"}, {"old", "new"}} : c = Loader!Overridden(content[n], Loader!FileOf(loader.dir, keys))
      <4>1. "old" \in DOMAIN c /\ c["old"] = loader.dir
        BY <3>2 DEF Loader!Overridden, Loader!FileOf
      <4>2. ReadWell(n, c, loader.dir)
        BY <1>1, <4>1 DEF ReadWell, Cleared
      <4> QED
        BY <1>5, <4>2 DEF ReadRight, NotEmpty, ReadWell, LoadStays
    <3> QED
      BY <1>4, <3>1, <3>2
  <2>3. \A i \in 1 .. 2 : Loader!OcrFuture[i] \in Loader!Configs /\ (i < loader.ocr => Loader!OcrFuture[i] # n)
    BY <1>0, <1>1, AllConfigs, ConfigsInOrder
  <2>4. ASSUME NEW i \in 1 .. 2, i < loader'.ocr PROVE ReadRight(Loader!OcrFuture[i])'
    <3>1. CASE i = loader.ocr
      BY <1>0, <2>2, <3>1
    <3>2. CASE i < loader.ocr
      BY <1>1, <1>8, <2>3, <3>2 DEF LoaderInv, OcrIsRead
    <3> QED
      BY <1>1, <1>5, <2>4, <3>1, <3>2
  <2>5. ASSUME NEW i \in 1 .. 2, loader'.dir = "region" PROVE NotEmpty(Loader!OcrFuture[i])'
    <3>1. NotEmpty(Loader!OcrFuture[i])
      BY <1>1, <1>5, <2>5 DEF LoaderInv, OcrIsRead, LoadStays
    <3>2. CASE Loader!OcrFuture[i] = n
      BY <2>2, <3>2 DEF ReadRight
    <3> QED
      BY <1>8, <2>3, <3>1, <3>2
  <2> QED
    BY <2>4, <2>5 DEF OcrIsRead
<1>11. AllAreAwaited'
  BY <1>1, <1>5 DEF LoaderInv, AllAreAwaited
<1> QED
  BY <1>6, <1>7, <1>9, <1>10, <1>11 DEF LoaderInv

\* A step that only waits or is done leaves what was read.
LEMMA ReadStays ==
  ASSUME LoaderInv, LoadStays, UNCHANGED <<content, loader.config, loader.pictures, loader.tiles, loader.ocr, loader.failed>>,
         loader'.loaded \in BOOLEAN, loader.main # "idle"
  PROVE  LoaderShape' /\ OneIsOdd' /\ SkillsAreWhole' /\ ConfigsAreRead' /\ TilesAreRead' /\ OcrIsRead'
<1>1. LoaderShape' /\ OneIsOdd' /\ SkillsAreWhole'
  BY DEF LoaderInv, LoaderShape, OneIsOdd, SkillsAreWhole, LoadStays
<1>2. \A n : (NotEmpty(n) => NotEmpty(n)') /\ (ReadRight(n) => ReadRight(n)')
  BY OthersStay
<1> QED
  BY <1>1, <1>2 DEF LoaderInv, ConfigsAreRead, TilesAreRead, OcrIsRead, LoadStays

LEMMA MarkedKeeps == ASSUME LoaderInv, Loader!MarkLoaded PROVE LoaderInv'
<1>1. /\ LoadStays /\ UNCHANGED <<content, loader.config, loader.pictures, loader.tiles, loader.ocr, loader.failed>>
      /\ loader.main = "begun" /\ loader'.main = "config" /\ loader'.loaded = TRUE
  BY DEF Loader!MarkLoaded, LoaderInv, LoaderShape, LoadStays, OfLoader
<1>2. AllAreAwaited'
  BY <1>1 DEF AllAreAwaited
<1> QED
  BY <1>1, <1>2, ReadStays DEF LoaderInv

LEMMA FutureKeeps == ASSUME LoaderInv, Loader!GetFuture PROVE LoaderInv'
<1> DEFINE t == loader.main
<1>1. /\ LoadStays /\ UNCHANGED <<content, loader.config, loader.pictures, loader.tiles, loader.ocr, loader.failed>>
      /\ t \in {"config", "tiles", "ocr"} /\ loader'.main = Loader!Then(t) /\ loader'.loaded = (loader.loaded /\ t \notin loader.failed)
  BY DEF Loader!GetFuture, LoaderInv, LoaderShape, LoadStays, OfLoader
<1>2. loader'.loaded \in BOOLEAN /\ (loader'.loaded = TRUE => loader.loaded = TRUE /\ t \notin loader.failed)
  BY <1>1 DEF LoaderInv, LoaderShape
<1>3. AllAreAwaited'
  <2> SUFFICES ASSUME loader'.loaded = TRUE PROVE AllAreAwaited'
    BY DEF AllAreAwaited
  <2>1. /\ t = "config" => loader.config = 12
        /\ t = "tiles" => loader.tiles = "done"
        /\ t = "ocr" => loader.ocr = 3
    BY <1>2, ConfigsInOrder DEF Loader!GetFuture, Loader!FutureReady, LoaderInv, LoaderShape
  <2>2. loader'.main = (IF t = "config" THEN "tiles" ELSE IF t = "tiles" THEN "ocr" ELSE "idle")
    BY <1>1 DEF Loader!Then
  <2> QED
    BY <1>1, <1>2, <2>1, <2>2 DEF LoaderInv, AllAreAwaited
<1> QED
  BY <1>1, <1>2, <1>3, ReadStays DEF LoaderInv

LEMMA LoaderGoesOn == ASSUME LoaderInv, Loader!ResourcesNext PROVE LoaderInv'
BY LoadBegins, ConfigKeeps, TilesKeep, OcrKeeps, MarkedKeeps, FutureKeeps DEF Loader!ResourcesNext

\* When a load has succeeded, each config was read rightly.
LEMMA LoadsEndWhole == ASSUME LoaderInv PROVE Loader!ResourcesAreWhole
<1> SUFFICES ASSUME loader.main = "idle", loader.loaded = TRUE PROVE Loader!ResourcesAreWhole
  BY DEF Loader!ResourcesAreWhole, LoaderInv, LoaderShape
<1>1. /\ "config" \notin loader.failed /\ loader.config = 12 /\ "tiles" \notin loader.failed /\ loader.tiles = "done"
      /\ "ocr" \notin loader.failed /\ loader.ocr = 3
  BY DEF LoaderInv, AllAreAwaited
<1>2. \A i \in 1 .. 11 : ReadRight(Loader!ConfigFuture[i])
  BY <1>1 DEF LoaderInv, ConfigsAreRead
<1>3. ReadRight("Tiles") /\ ReadRight("WordOcr") /\ ReadRight("CharOcr")
  BY <1>1, ConfigsInOrder DEF LoaderInv, TilesAreRead, OcrIsRead
<1>4. \A n \in Loader!Configs : ReadRight(n)
  BY <1>2, <1>3, AllConfigs
<1>5. loader.pictures
  BY <1>1 DEF LoaderInv, ConfigsAreRead
<1>6. \A n \in Loader!Configs : content[n] = <<>> => Loader!Lacking(n)
  BY <1>4 DEF ReadRight, NotEmpty
<1>7. \A n \in Loader!Configs \ {"Avatars"} : Loader!HasFile(n) => ReadWell(n, content[n], loader.dir)
  BY <1>4 DEF ReadRight
<1>8. Anew \cup Cleared \subseteq Loader!Configs \ {"Avatars"}
  BY DEF Anew, Cleared, Loader!Configs, Loader!ConfigFuture, Loader!OcrFuture
<1> QED
  BY <1>5, <1>6, <1>7, <1>8 DEF Loader!ResourcesAreWhole, ReadWell, Anew, Cleared

-----------------------------------------------------------------------------
(* The parts side by side: each is run alone, and the others stay as they are. *)

FilesInv == UpdateInv /\ ToolInv

LEMMA UpdateStays == ASSUME UpdateInv, UNCHANGED update PROVE UpdateInv'
BY DEF update, UpdateInv, UpdateShape, UpdateIsSafe, DiskTypes, GuiKnows, PromiseIsKept, FilesAt, ToPlace, Cut, Sound

LEMMA ToolStays == ASSUME ToolInv, UNCHANGED made PROVE ToolInv'
BY DEF made, ToolInv, ToolShape, DataGrows, HandIsKept, BaseIsMade, RegionsAreMade, EachIsMade, IsFor, IsOf

LEMMA WindowWaits == ASSUME WindowInv, UNCHANGED window PROVE WindowInv'
BY DEF window, WindowInv, WindowShape, TasksAreKnown, Known

LEMMA LoaderWaits == ASSUME LoaderInv, UNCHANGED resources PROVE LoaderInv'
BY DEF resources, LoaderInv, LoaderShape, OneIsOdd, SkillsAreWhole, ConfigsAreRead, TilesAreRead, OcrIsRead, AllAreAwaited,
   ReadRight, NotEmpty, Loader!Lacking, Loader!HasFile

LEMMA FilesStep == ASSUME FilesInv, [AroundNext]_around PROVE FilesInv'
<1>1. CASE UNCHANGED around
  BY <1>1, UpdateStays, ToolStays DEF around, FilesInv
<1>2. CASE AroundNext
  <2>1. CASE UNCHANGED made /\ UNCHANGED update
    BY <2>1, UpdateStays, ToolStays DEF FilesInv
  <2>2. CASE Update!UpdateNext /\ UNCHANGED made
    BY <2>2, UpdateGoesOn, ToolStays DEF FilesInv
  <2>3. CASE Tool!ToolNext /\ UNCHANGED update
    BY <2>3, ToolGoesOn, UpdateStays DEF FilesInv
  <2> QED
    BY <1>2, <2>1, <2>2, <2>3 DEF AroundNext
<1> QED
  BY <1>1, <1>2

\* However an update of the main window is cut off, or a run of the program that makes the
\* resources fails or ends: what is there can be used, and is of one version.  For any
\* number of versions, crashes, runs, faults, regions and skills.
THEOREM UpdatesLeaveWholeFiles == AroundSpec => []FilesAreWhole
<1>1. AroundInit => FilesInv
  BY UpdateStarts, ToolStarts DEF AroundInit, FilesInv
<1>2. FilesInv /\ [AroundNext]_around => FilesInv'
  BY FilesStep
<1>3. FilesInv => FilesAreWhole
  BY UpdatesEndWhole, RunsMakeOneData DEF FilesInv, FilesAreWhole
<1> QED
  BY <1>1, <1>2, <1>3, PTL DEF AroundSpec

\* What is done when all is completed is never done for a task of another page that is
\* finished alone, unless its id was forgotten on its way: for any number of events and
\* messages.
THEOREM OnlyTheMainQueueActs == AroundSpec => []ActsForMainTasks
<1>1. AroundInit => WindowInv
  BY WindowStarts DEF AroundInit
<1>2. WindowInv /\ [AroundNext]_around => WindowInv'
  <2> SUFFICES ASSUME WindowInv, [AroundNext]_around PROVE WindowInv'
    OBVIOUS
  <2>1. CASE UNCHANGED window
    BY <2>1, WindowWaits
  <2>2. CASE Window!WindowNext
    BY <2>2, WindowGoesOn
  <2> QED
    BY <2>1, <2>2 DEF AroundNext, around
<1>3. WindowInv => ActsForMainTasks
  BY DEF WindowInv, ActsForMainTasks, Window!ActsForMainTasks
<1> QED
  BY <1>1, <1>2, <1>3, PTL DEF AroundSpec

\* However many directories are loaded over each other, with one file of one of them
\* absent or wrong: once a load has succeeded, each config is what its parse is to make of
\* what its directory has, and none is empty but for a missing file.
THEOREM LoadsAreWhole == AroundSpec => []Loader!ResourcesAreWhole
<1>1. AroundInit => LoaderInv
  BY LoaderStarts DEF AroundInit
<1>2. LoaderInv /\ [AroundNext]_around => LoaderInv'
  <2> SUFFICES ASSUME LoaderInv, [AroundNext]_around PROVE LoaderInv'
    OBVIOUS
  <2>1. CASE UNCHANGED resources
    BY <2>1, LoaderWaits
  <2>2. CASE Loader!ResourcesNext
    BY <2>2, LoaderGoesOn
  <2> QED
    BY <2>1, <2>2 DEF AroundNext, around
<1>3. LoaderInv => Loader!ResourcesAreWhole
  BY LoadsEndWhole
<1> QED
  BY <1>1, <1>2, <1>3, PTL DEF AroundSpec
=============================================================================
