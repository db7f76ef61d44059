------------------------- MODULE CallbackQueueProofs -------------------------
(***************************************************************************)
(* The callback queue keeps its types, never sleeps on a message and       *)
(* implements a FIFO channel, whatever the messages and however long the   *)
(* queue (MaxQueue is any positive number).                                *)
(***************************************************************************)
EXTENDS CallbackQueue, TLAPS

\* Between two calls msg_proc holds no message: it has one in hand exactly
\* while it is calling the user's callback.
InHand == (mpc = "calling") <=> (inflight # NoMessage)

IInv == TypeOK /\ InHand /\ NoSleepOnMessage

\* The constructor establishes the invariant.
LEMMA InitIInv == Init => IInv
<1> SUFFICES ASSUME Init PROVE IInv
  OBVIOUS
<1> USE DEF Init, ThreadInit
<1>1. TypeOK
  <2>1. queue \in Seq(Loggable)
    OBVIOUS
  <2>2. exit \in BOOLEAN
    OBVIOUS
  <2> QED
    BY <2>1, <2>2 DEF TypeOK, MsgPc, DtorPc
<1>2. InHand /\ NoSleepOnMessage
  BY DEF InHand, NoSleepOnMessage
<1> QED
  BY <1>1, <1>2 DEF IInv

\* Each step keeps the inductive invariant.
LEMMA NextIInv == IInv /\ [Next]_vars => IInv'
<1> SUFFICES ASSUME IInv, [Next]_vars PROVE IInv'
  OBVIOUS
<1> USE DEF IInv, TypeOK, InHand, NoSleepOnMessage, MsgPc, DtorPc
<1>1. CASE Post
  <2>1. PICK m \in Message : AppendCallback(m)
    BY <1>1 DEF Post
  <2> QED
    BY <1>1, <2>1 DEF Post, AppendCallback, Notify
<1>2. CASE MsgThread
  <2>1. CASE MsgCheck
    BY <1>2, <2>1 DEF MsgThread, MsgCheck
  <2>2. CASE MsgTake
    <3>1. Head(queue) \in Loggable /\ Tail(queue) \in Seq(Loggable)
      BY <2>2 DEF MsgTake
    <3>2. Head(queue) # NoMessage
      BY <3>1, MessageAssumption
    <3> QED
      BY <1>2, <2>2, <3>1, <3>2 DEF MsgThread, MsgTake
  <2>3. CASE MsgSleep
    BY <1>2, <2>3 DEF MsgThread, MsgSleep
  <2>4. CASE MsgCall
    BY <1>2, <2>4 DEF MsgThread, MsgCall
  <2>5. CASE MsgSpurious
    BY <1>2, <2>5 DEF MsgThread, MsgSpurious
  <2> QED
    BY <1>2, <2>1, <2>2, <2>3, <2>4, <2>5 DEF MsgThread, MsgStep
<1>3. CASE SetExit
  BY <1>3 DEF SetExit, threadVars
<1>4. CASE WakeMsgThread
  BY <1>4 DEF WakeMsgThread, Notify
<1>5. CASE JoinMsgThread
  BY <1>5 DEF JoinMsgThread, threadVars
<1>6. CASE UNCHANGED vars
  BY <1>6 DEF vars
<1> QED
  BY <1>1, <1>2, <1>3, <1>4, <1>5, <1>6 DEF Next

\* The invariant holds in every reachable state of the queue.
THEOREM Invariance == Spec => []IInv
BY InitIInv, NextIInv, PTL DEF Spec

\* TypeOK is an invariant of the callback queue of Assistant.
THEOREM TypeCorrect == Spec => []TypeOK
<1>1. IInv => TypeOK
  BY DEF IInv
<1> QED
  BY <1>1, Invariance, PTL

\* No wakeup by append_callback is lost: msg_proc waits only on an empty queue.
THEOREM NoLostWakeup == Spec => []NoSleepOnMessage
<1>1. IInv => NoSleepOnMessage
  BY DEF IInv
<1> QED
  BY <1>1, Invariance, PTL

-----------------------------------------------------------------------------
\* The channel that queue and inflight stand for.
Chan == IF inflight = NoMessage THEN queue ELSE <<inflight>> \o queue

\* The queue starts as an empty channel.
LEMMA ChannelInit == Init => Channel!Init
BY DEF Init, ThreadInit, Channel!Init

\* A message in hand is the oldest of the channel.
LEMMA InHandIsHead ==
  ASSUME NEW S, NEW m \in S, NEW q \in Seq(S)
  PROVE  Head(<<m>> \o q) = m /\ Tail(<<m>> \o q) = q /\ <<m>> \o q # <<>>
OBVIOUS

\* A message queued behind the one in hand is last in the channel.
LEMMA AppendInHand ==
  ASSUME NEW S, NEW m \in S, NEW q \in Seq(S), NEW n \in S
  PROVE  <<m>> \o Append(q, n) = Append(<<m>> \o q, n)
OBVIOUS

\* Taking the front message into the hand leaves the channel as it was.
LEMMA HeadAndTail ==
  ASSUME NEW S, NEW q \in Seq(S), q # <<>>
  PROVE  <<Head(q)>> \o Tail(q) = q
OBVIOUS

\* Every step of the queue is a step of the channel or leaves it alone.
LEMMA ChannelStep ==
  IInv /\ [Next]_vars => [Channel!Next]_<<Chan, last>>
<1> SUFFICES ASSUME IInv, [Next]_vars PROVE [Channel!Next]_<<Chan, last>>
  OBVIOUS
<1> USE DEF IInv, TypeOK, InHand, Chan
<1>1. CASE Post
  <2>1. PICK m \in Message : AppendCallback(m)
    BY <1>1 DEF Post
  <2>2. CASE m \in Loggable
    <3>1. Chan' = Append(Chan, m)
      BY <2>1, <2>2, AppendInHand DEF AppendCallback
    <3> QED
      BY <2>1, <2>2, <3>1 DEF AppendCallback, Channel!Next, Channel!Send
  <2>3. CASE m \notin Loggable
    BY <2>1, <2>3 DEF AppendCallback
  <2> QED
    BY <2>2, <2>3
<1>2. CASE MsgThread
  <2>1. CASE MsgTake
    <3>1. Head(queue) \in Loggable /\ Head(queue) # NoMessage
      BY <2>1, MessageAssumption DEF MsgTake
    <3>2. Chan' = Chan
      BY <2>1, <3>1, HeadAndTail DEF MsgTake
    <3> QED
      BY <2>1, <3>2 DEF MsgTake
  <2>2. CASE MsgCall
    <3>1. inflight \in Loggable /\ inflight # NoMessage
      BY <2>2 DEF MsgCall
    <3>2. Chan # <<>> /\ Head(Chan) = inflight /\ Tail(Chan) = queue
      BY <3>1, InHandIsHead
    <3>3. Chan' = queue
      BY <2>2 DEF MsgCall
    <3> QED
      BY <2>2, <3>2, <3>3 DEF MsgCall, Channel!Next, Channel!Deliver
  <2>3. CASE MsgCheck \/ MsgSleep \/ MsgSpurious
    BY <2>3 DEF MsgCheck, MsgSleep, MsgSpurious
  <2> QED
    BY <1>2, <2>1, <2>2, <2>3 DEF MsgThread, MsgStep
<1>3. CASE SetExit \/ WakeMsgThread \/ JoinMsgThread \/ UNCHANGED vars
  BY <1>3 DEF SetExit, WakeMsgThread, JoinMsgThread, vars, threadVars
<1> QED
  BY <1>1, <1>2, <1>3 DEF Next

\* append_callback and msg_proc implement the FIFO channel: callbacks are
\* raised one by one, once each, in the order of the posts.
THEOREM ImplementsChannel == Spec => IsFifoChannel
<1>1. Init => Channel!Init
  BY ChannelInit
<1>2. IInv /\ [Next]_vars => [Channel!Next]_<<Chan, last>>
  BY ChannelStep
<1> QED
  BY <1>1, <1>2, Invariance, PTL DEF Spec, IsFifoChannel, Channel!Spec, Chan
=============================================================================
