-------------------------------- MODULE Depot --------------------------------
(***************************************************************************)
(* DepotRecognitionTask reads what the player owns: it takes a picture,    *)
(* lets another thread swipe while DepotImageAnalyzer looks at it, and     *)
(* goes on until a page ends with the same item as the one before.         *)
(*                                                                         *)
(* The game shows the items in the order of get_ordered_material_item_id,  *)
(* new ones in between that the resources do not know yet.  A number may   *)
(* not be readable, and a swipe may go any way up to a page, or be lost.   *)
(***************************************************************************)
EXTENDS Worker, FiniteSets, SequencesExt, FiniteSetsExt

CONSTANTS
  Materials,     \* get_ordered_material_item_id
  Alike,         \* the other materials whose pictures match an item as well
  Novelties,     \* items the resources do not know
  Has,           \* how many the player has of each
  Contents,      \* what the depot may hold, in the order of the game
  PageSize, MaxExtraMatch,
  Unit           \* what the character of a large number stands for

\* The game shows the materials in their order, of which the first MaxExtraMatch that look
\* like an item are looked at; nothing looks like what is new.
ASSUME DepotAssumption ==
  /\ PageSize \in Nat \ {0} /\ MaxExtraMatch \in Nat \ {0} /\ Unit \in Nat \ {0}
  /\ Materials \in Seq(DOMAIN Has) /\ Novelties \subseteq DOMAIN Has /\ Novelties \cap ToSet(Materials) = {}
  /\ \A m, n \in DOMAIN Materials : Materials[m] = Materials[n] => m = n
  /\ \A m \in DOMAIN Materials : Cardinality({n \in 1..(m - 1) : Materials[n] \in Alike[Materials[m]]}) < MaxExtraMatch
  /\ \A item \in Novelties : Alike[item] \cap ToSet(Materials) = {}
  /\ \A item \in DOMAIN Has : Has[item] \in Nat \ {0}
  /\ Contents \subseteq Seq(Novelties \cup ToSet(Materials))
  /\ \A c \in Contents : \A i, j \in DOMAIN c : \A m, n \in DOMAIN Materials :
       i < j /\ c[i] = Materials[m] /\ c[j] = Materials[n] => m < n

VARIABLES
  depot,   \* m_all_items, pre_pos and the page that is looked at
  chest    \* the game, and what became of it

depotVars == <<worker, depot, chest>>

NoItems == <<>>

DepotInit ==
  /\ depot = [all |-> NoItems, pos |-> 0, page |-> <<>>, swiping |-> FALSE]
  /\ \E c \in Contents : chest = [holds |-> c, offset |-> 0, unread |-> {}, doubt |-> FALSE, told |-> NoItems]

-----------------------------------------------------------------------------
\* DepotImageAnalyzer

\* A large number is shown in units.
Quantity(item) == IF Has[item] < Unit THEN Has[item] ELSE (Has[item] \div Unit) * Unit

Score(item, i) == IF Materials[i] = item THEN 2 ELSE IF Materials[i] \in Alike[item] THEN 1 ELSE 0

\* match_item: of the first that match from begin on, the last of the best; or NPos, which is 0.
MatchItem(item, begin) ==
  LET matching == {i \in begin + 1 .. Len(Materials) : Score(item, i) > 0}
      looked   == {i \in matching : Cardinality({j \in matching : j < i}) < MaxExtraMatch}
      best     == {i \in looked : \A j \in looked : Score(item, i) >= Score(item, j)}
  IN  IF looked = {} THEN 0 ELSE Max(best)

Match == [item \in DOMAIN Has |-> [begin \in 0..Len(Materials) |-> MatchItem(item, begin)]]

\* Each item is looked for behind the one before it; the first that is not found ends
\* the page.
SeenFrom(begin, page) ==
  LET seen[k \in 0..Len(page)] ==
        IF k = 0 THEN begin ELSE IF k > 1 /\ seen[k - 1] = 0 THEN 0 ELSE Match[page[k]][seen[k - 1]]
  IN  seen

\* The indices of those that are found
FoundFrom(begin, page) ==
  LET seen == SeenFrom(begin, page)
  IN  [k \in {n \in DOMAIN page : seen[n] # 0} |-> seen[k]]

\* Fault: the search goes on where it ended on the page before.
FoundOn(page) == FoundFrom(depot.pos, page)

\* Pages overlap, so it begins anew with each page.
AnalyzeAllItems(page) == FoundFrom(0, page)

-----------------------------------------------------------------------------
\* What DepotBegin comes to is ignored, but not a stop between the subtasks.
EnterDepot == at = "run" /\ Goes(IF stopped THEN "failed" ELSE "picture") /\ UNCHANGED <<depot, chest>>

PageAt(offset) == SubSeq(chest.holds, offset + 1, Min({offset + PageSize, Len(chest.holds)}))

TakePicture ==
  /\ at = "picture" /\ Goes("analyze") /\ UNCHANGED chest
  /\ depot' = [depot EXCEPT !.page = PageAt(chest.offset), !.swiping = TRUE]

\* DepotSlowlySwipeToTheRight, in its own thread
Swipe ==
  /\ depot.swiping /\ depot' = [depot EXCEPT !.swiping = FALSE] /\ Stays
  /\ \/ ~stopped /\ \E way \in 1..PageSize :
          chest' = [chest EXCEPT !.offset = Min({@ + way, Max({0, Len(chest.holds) - PageSize})})]
     \/ chest' = [chest EXCEPT !.doubt = TRUE]

\* What is read of a page, and what becomes known with it: the first number is kept.
ItemsOf(page, read) ==
  LET found == AnalyzeAllItems(page)
  IN  [i \in {found[k] : k \in read} |-> Quantity(page[CHOOSE k \in read : found[k] = i])]

Merged(all, items) == [i \in DOMAIN all \cup DOMAIN items |-> IF i \in DOMAIN all THEN all[i] ELSE items[i]]

\* One whose number is not read is left out.  A page that ends like the one before, or on
\* which nothing is read, is the last one.
AnalyzePage ==
  /\ at = "analyze"
  /\ LET found == AnalyzeAllItems(depot.page)
         pos   == found[Max(DOMAIN found)]
     IN  \E unread \in {{}} \cup {{k} : k \in DOMAIN found} :
           LET read == DOMAIN found \ unread
           IN  /\ chest' = [chest EXCEPT !.unread = @ \cup {depot.page[k] : k \in unread},
                                         !.doubt = IF unread # {} /\ read = {} THEN TRUE ELSE @]
               /\ IF read = {} \/ pos = depot.pos THEN UNCHANGED depot /\ Goes("done")
                  ELSE depot' = [depot EXCEPT !.pos = pos, !.all = Merged(@, ItemsOf(depot.page, read))] /\ Goes("wait")

\* callback_analyze_result
Tell == chest' = [chest EXCEPT !.told = depot.all]

\* future.wait
NextPage ==
  /\ at = "wait" /\ ~depot.swiping /\ UNCHANGED depot /\ Tell
  /\ Goes("picture")

\* The destructor of the future waits, too.
DepotDone ==
  /\ at = "done" /\ ~depot.swiping /\ UNCHANGED depot /\ Tell
  /\ Goes(IF depot.all = NoItems THEN "failed" ELSE "succeeded")

DepotNext == EnterDepot \/ TakePicture \/ Swipe \/ AnalyzePage \/ NextPage \/ DepotDone
-----------------------------------------------------------------------------
\* What comes before the first item that is not known
KnownPart == LET novel == {i \in DOMAIN chest.holds : chest.holds[i] \in Novelties}
             IN  IF novel = {} THEN ToSet(chest.holds) ELSE ToSet(SubSeq(chest.holds, 1, Min(novel) - 1))

\* What is reported is there, in the quantity that is shown; and in the end all of it is
\* reported up to the first item that is not known, but for those that were not readable
\* and unless a swipe was lost, a page could not be read, or a stop came.
DepotIsReported ==
  task = "depot" =>
    /\ \A i \in DOMAIN chest.told : Materials[i] \in ToSet(chest.holds) /\ chest.told[i] = Quantity(Materials[i])
    /\ at \in {"succeeded", "failed"} /\ ~stopped /\ ~chest.doubt => KnownPart \ chest.unread \subseteq {Materials[i] : i \in DOMAIN chest.told}
=============================================================================
