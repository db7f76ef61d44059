------------------------------- MODULE MCHost -------------------------------
(***************************************************************************)
(* All of what there is around the worker and its tasks: Around, with the  *)
(* definitions of the tasks (TaskData) as one more part.                   *)
(*                                                                         *)
(* Two Assistants of one process, one reconnect, one try for a picture     *)
(* before them, and one overlap of two updates of the count.  Three tasks  *)
(* that may be made of each other, one of them by its prefix, with lists   *)
(* that name each other's and their own, and two names that only a lookup  *)
(* asks for.  Three versions, so that a package may be superseded and a    *)
(* file come back; two crashes, so that a second start may find what the   *)
(* first has left.  Three events in the main window: two starts and a      *)
(* stop, or one of them and what the device does; two callbacks that wait  *)
(* while more are told.  Two loads, one of them with a file that is odd.   *)
(* Two runs of the updater of the resources over two versions of the data, *)
(* with two failures.                                                      *)
(***************************************************************************)
EXTENDS Around

LOCAL INSTANCE TLC
LOCAL INSTANCE Sequences

CONSTANTS Keys, Definitions, Overrides, Names

VARIABLE res

Data == INSTANCE TaskData

all == <<around, res>>

HostInit == AroundInit /\ Data!ResInit

HostNext ==
  \/ AroundNext /\ UNCHANGED res
  \/ part = "task data" /\ Data!ResNext /\ UNCHANGED around

HostSpec == HostInit /\ [][HostNext]_all /\ AroundFairness
-----------------------------------------------------------------------------
\* What is loaded is what the files say, however many are loaded over each other: the
\* tasks (TaskData) and all the others (Resources).
ResourcesAreMeant == Data!TasksAreMeant /\ Loader!ResourcesAreWhole
-----------------------------------------------------------------------------
B == <<"B">>
C == <<"C">>
AB == <<"A", "B">>
XAB == <<"X", "A", "B">>

\* Written out: a constant that went through Data would be given in terms of itself.
NoBase == <<>>
Clean == <<"">>

Entry(name, what) == [name |-> name, what |-> what]
Says(bases, nexts, subs) ==
  {[base |-> b, next |-> n, sub |-> s, algo |-> "", mark |-> <<>>] : b \in bases, n \in nexts, s \in subs}

\* One task may be read by its text; those made of it have other texts, or a picture.
Reads(says) == {[d EXCEPT !.algo = "ocr", !.mark = << <<"text">> >>] : d \in says}
Texts(says) == {[d EXCEPT !.mark = << <<"other">> >>] : d \in says}
Shows(says) == {[d EXCEPT !.algo = "match"] : d \in says}

MCKeys == <<AB, B, C>>

Nexts ==
  {<<>>,
   << <<Entry(C, "task"), Entry(<<>>, "next"), Entry(AB, "self")>> >>,
   << <<Entry(B, "next"), Entry(B, "back"), Entry(C, "next")>> >>}

MCDefinitions ==
  (AB :> Says({NoBase, Clean, C}, Nexts, {<<>>}) \cup Texts(Says({NoBase}, {<<>>}, {<<>>})))
  @@ (B :> Says({NoBase, AB}, Nexts, {<<>>}) \cup Reads(Says({NoBase, AB}, {<<>>}, {<<>>})))
  @@ (C :> Says({NoBase, B, XAB}, Nexts, {<<>>}))

MCOverrides ==
  [k \in {AB, B, C} |->
     Says({NoBase}, {<<>>}, {<< <<Entry(B, "task"), Entry(<<>>, "sub")>> >>})
     \cup Shows(Says({Clean}, {<< <<Entry(XAB, "sub")>> >>}, {<<>>}))]

MCSkillsOf == <<{"skill", "dorm"}, {"skill", "another", "dorm"}>>

MCNames == {XAB, <<"X", "C">>}
=============================================================================
