-------------------------- MODULE InfrastReception --------------------------
(***************************************************************************)
(* The task of the reception room: it puts clues into the places that are  *)
(* vacant, begins an exchange when all of them are full, takes the new     *)
(* clues, of which some are sent to others when the hand is full, puts     *)
(* clues into their places again, and shifts the operators, whose skills   *)
(* count for the one clue that lacks, if it is one (InfrastStaff and       *)
(* InfrastShift say how).                                                  *)
(*                                                                         *)
(* The game holds the board with the places and the clues in the hand; an  *)
(* exchange ends by itself.                                                *)
(***************************************************************************)
EXTENDS Worker, FiniteSets, Functions

CONSTANTS
  Clue,          \* No1 to No7
  HandSize,      \* how many clues the hand may hold
  MaxNew         \* bound on the new clues

ASSUME ReceptionAssumption == IsFiniteSet(Clue) /\ Clue \subseteq Nat \ {0} /\ HandSize \in Nat /\ MaxNew \in Nat

VARIABLES
  visit,   \* which use_clue it is, the clues it has still to look at, and m_product
  board    \* the game

receptionVars == <<worker, visit, board>>

General == 0   \* as a product, next to the numbers of the clues
InHand(hand) == {c \in Clue : hand[c] > 0}
Held(hand) == FoldFunction(+, 0, hand)

ReceptionInit ==
  /\ visit = [use |-> 1, left |-> {}, again |-> FALSE, product |-> General]
  /\ board \in [vacant : SUBSET Clue, hand : {h \in [Clue -> 0..HandSize] : Held(h) <= HandSize}, exchange : BOOLEAN,
                new : {<<>>}, wasted : {FALSE}]

ReceptionFails == RunFails(0) /\ UNCHANGED <<visit, board>>

-----------------------------------------------------------------------------
\* _run up to the clues; nobody looks whether the end of an exchange was closed.
EnterReception ==
  /\ at = "run"
  /\ \/ ReceptionFails
     \/ Goes("places") /\ visit' = [visit EXCEPT !.left = Clue] /\ UNCHANGED board

\* proc_clue_vacancy: the places in their order; a stop ends the loop and not the task.
PlaceClue ==
  /\ at = "places" /\ visit.left # {}
  /\ \/ stopped /\ visit' = [visit EXCEPT !.left = {}] /\ UNCHANGED board
     \/ /\ ~stopped
        /\ LET c == CHOOSE d \in visit.left : \A e \in visit.left : d <= e
           IN  /\ visit' = [visit EXCEPT !.left = @ \ {c}]
               /\ IF c \in board.vacant /\ board.hand[c] > 0
                    THEN board' = [board EXCEPT !.vacant = @ \ {c}, !.hand[c] = @ - 1]
                    ELSE UNCHANGED board
  /\ Stays

\* unlock_clue_exchange, once between two rounds over the places; the game may say that
\* the button is a fake.
UnlockClueExchange ==
  /\ at = "places" /\ visit.left = {} /\ ~visit.again
  /\ \/ /\ ~stopped /\ board.vacant = {} /\ ~board.exchange
        /\ board' = [board EXCEPT !.exchange = TRUE, !.vacant = Clue]
        /\ visit' = [visit EXCEPT !.left = Clue, !.again = TRUE]
     \/ UNCHANGED board /\ visit' = [visit EXCEPT !.again = TRUE]
  /\ Stays

\* Fault: the first round is left out.
SetClueProductLate ==
  /\ at = "places" /\ UNCHANGED board
  /\ visit' = [visit EXCEPT !.again = FALSE, !.left = {}]
  /\ IF visit.use = 1 THEN Goes("get") ELSE Goes("shift")

\* What is missing decides which skills are worth most.
SetClueProduct ==
  /\ at = "places" /\ visit.left = {} /\ visit.again /\ UNCHANGED board
  /\ visit' = [visit EXCEPT !.again = FALSE,
                            !.product = IF Cardinality(board.vacant) = 1 THEN CHOOSE c \in board.vacant : TRUE ELSE General]
  /\ IF visit.use = 1 THEN Goes("get") ELSE Goes("shift")

\* get_clue: a ProcessTask, of the clues one has found and those of friends
GetClue ==
  /\ at = "get" /\ ~stopped /\ Len(board.new) < MaxNew /\ Held(board.hand) < HandSize /\ UNCHANGED visit /\ Stays
  /\ \E c \in Clue : board' = [board EXCEPT !.hand[c] = @ + 1, !.new = Append(@, c)]

\* and, when the hand is full, of those that are given away
SendClue ==
  /\ at = "get" /\ ~stopped /\ Held(board.hand) = HandSize /\ UNCHANGED visit /\ Stays
  /\ \E c \in InHand(board.hand) :
       board' = [board EXCEPT !.hand[c] = @ - 1,
                              !.wasted = @ \/ (c \in board.vacant /\ \A i \in DOMAIN board.new : board.new[i] # c)]

\* What it returns is not looked at; but a stop is.
ClueGot ==
  /\ at = "get"
  /\ \/ stopped /\ ReceptionFails
     \/ ~stopped /\ Goes("places") /\ visit' = [visit EXCEPT !.use = 2, !.left = Clue] /\ UNCHANGED board

ShiftReception ==
  /\ at = "shift"
  /\ \/ stopped /\ ReceptionFails
     \/ Goes("succeeded") /\ UNCHANGED <<visit, board>>

ReceptionNext ==
  \/ EnterReception \/ PlaceClue \/ UnlockClueExchange \/ SetClueProduct \/ GetClue \/ SendClue \/ ClueGot \/ ShiftReception
-----------------------------------------------------------------------------
\* No clue is given away while its own place is vacant, but one that has just come (the
\* comment in _run); and without a stop no place that could be filled is left vacant for
\* the shift, whose product is then the clue that lacks.
CluesArePlaced ==
  task = "reception" =>
    /\ ~board.wasted
    /\ at = "shift" /\ ~stopped =>
         /\ board.vacant \cap InHand(board.hand) = {}
         /\ visit.product = General \/ board.vacant = {visit.product}
=============================================================================
