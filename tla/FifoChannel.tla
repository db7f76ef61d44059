---------------------------- MODULE FifoChannel ----------------------------
(***************************************************************************)
(* What a user of the callback queue is promised: callbacks are raised one *)
(* at a time, each exactly once, in the order in which the messages were   *)
(* posted.  CallbackQueue implements this channel.                         *)
(***************************************************************************)
EXTENDS Sequences

CONSTANTS Message,   \* the messages that can be posted
          NoMessage  \* "nothing has been delivered yet"

VARIABLES chan,      \* posted and not yet delivered, oldest first
          last       \* the message of the latest callback

Init == chan = <<>> /\ last = NoMessage

Send(m) == /\ chan' = Append(chan, m)
           /\ UNCHANGED last

Deliver == /\ chan # <<>>
           /\ last' = Head(chan)
           /\ chan' = Tail(chan)

Next == (\E m \in Message : Send(m)) \/ Deliver

Spec == Init /\ [][Next]_<<chan, last>>
=============================================================================
