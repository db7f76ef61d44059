-------------------------------- MODULE Mall --------------------------------
(***************************************************************************)
(* The credit store: MallTask runs its subtasks one after the other, those *)
(* that may fail with their errors ignored.  It visits friends and fights  *)
(* for credit, goes to the store, and then shops up to three times with a  *)
(* CreditShoppingTask each: what is to be bought first, by a white list;   *)
(* what is not on the black list; and what is left, as long as there is    *)
(* more credit than MaxCredit.                                             *)
(*                                                                         *)
(* The game: the goods, the credit, and whether the page of goods is in    *)
(* sight.  A name, a mark or the credit may be misread, a click be lost.   *)
(***************************************************************************)
EXTENDS Worker, FiniteSets, SequencesExt

CONSTANTS
  Commodities,        \* their names, in the order of the page
  Price,        \* what each of these costs
  Within,       \* the entries of lists that are found in a name
  Shoppings,   \* set of [first, black, force, fight]
  Credits,      \* what the player may have
  MaxCredit,
  Unread        \* what credit_ocr returns if nothing is read

ASSUME MallAssumption ==
  /\ \A p \in Shoppings : p.force \in BOOLEAN /\ p.fight \in BOOLEAN
  /\ Credits \subseteq Nat /\ MaxCredit \in Nat /\ Unread < 0 /\ IsFiniteSet(DOMAIN Commodities)
  /\ \A i \in DOMAIN Commodities : Price[i] \in 1..MaxCredit

VARIABLES
  mall,    \* the params, which CreditShoppingTask runs, its list and its retry
  store    \* the game, and what became of it

mallVars == <<worker, mall, store>>

Passes == <<"first", "list", "force">>

MallInit ==
  /\ \E p \in Shoppings : mall = [params |-> p, pass |-> 1, list |-> <<>>, again |-> 0]
  /\ \E c \in Credits : store = [credit |-> c, sold |-> {}, page |-> TRUE, bought |-> <<>>, doubt |-> FALSE]

Enabled(p) ==
  \/ Passes[p] = "first" /\ mall.params.first # <<>>
  \/ Passes[p] = "list"
  \/ Passes[p] = "force" /\ mall.params.force

-----------------------------------------------------------------------------
\* PackageTask::run between two subtasks
Visit ==
  /\ at = "run" /\ UNCHANGED mall
  /\ IF stopped THEN Goes("failed") /\ UNCHANGED store
     ELSE \E gain \in {0, 1} : store' = [store EXCEPT !.credit = @ + gain] /\ Goes("fight")

\* CreditFightTask: five subtasks, each of which may fail; that is ignored.
CreditFight ==
  /\ at = "fight" /\ UNCHANGED mall
  /\ IF stopped THEN Goes("failed") /\ UNCHANGED store
     ELSE \E gain \in {0} \cup (IF mall.params.fight THEN {1} ELSE {}) : store' = [store EXCEPT !.credit = @ + gain] /\ Goes("mall")

ToMall ==
  /\ at = "mall" /\ UNCHANGED <<mall, store>>
  /\ \E ok \in BOOLEAN : Sub(ok) /\ IF ok THEN Goes("pass") ELSE Goes("failed")

\* The last subtask is not followed by a look for a stop.
NextPass ==
  /\ at = "pass" /\ UNCHANGED <<mall, store>>
  /\ \/ mall.pass > Len(Passes) /\ Goes("succeeded")
     \/ mall.pass <= Len(Passes) /\ stopped /\ Goes("failed")
     \/ mall.pass <= Len(Passes) /\ ~stopped /\ Goes("shop")

PassOver == mall' = [mall EXCEPT !.pass = @ + 1, !.list = <<>>, !.again = 0] /\ Goes("pass")

\* Each CreditShoppingTask is tried twice.
PassFails ==
  IF stopped \/ mall.again = 1 THEN PassOver ELSE mall' = [mall EXCEPT !.again = 1, !.list = <<>>] /\ Goes("shop")

SkipPass == at = "shop" /\ ~Enabled(mall.pass) /\ PassOver /\ UNCHANGED store

-----------------------------------------------------------------------------
\* CreditShopImageAnalyzer

\* OcrImageAnalyzer takes a name for the first of those required that is found in it.
EntryOf(i, list) == SelectInSeq(list, LAMBDA entry : entry \in Within[Commodities[i]])

\* whether_to_buy_analyze; without a list everything is wanted.
ToBuy(i) ==
  CASE Passes[mall.pass] = "first" -> EntryOf(i, mall.params.first) # 0
    [] Passes[mall.pass] = "list"  -> EntryOf(i, mall.params.black) = 0
    [] OTHER                       -> TRUE

\* Fault: what is wanted first is bought as the page shows it.
ByPage(s) == {SetToSortSeq(s, LAMBDA i, j : i < j)}

\* A white list puts its own order above that of the page, and leaves that of goods
\* with the same entry open.
ShelfOrders(s) ==
  {o \in SetToSeqs(s) : \A i, j \in DOMAIN o : i < j =>
     IF Passes[mall.pass] = "first" THEN EntryOf(o[i], mall.params.first) <= EntryOf(o[j], mall.params.first) ELSE o[i] < o[j]}

\* Fault: what fits is taken for too much.
OverflowsEarly(credit) == credit >= MaxCredit

\* The force is off while the credit is not above MaxCredit, or not read.
Overflows(credit) == credit > MaxCredit

CommoditiesInSight == store.page
SoldOut == store.sold

Shop(credit, wanted) ==
  /\ at = "shop" /\ Enabled(mall.pass)
  /\ IF Passes[mall.pass] = "force" /\ ~Overflows(credit) THEN PassOver
     ELSE IF ~CommoditiesInSight \/ wanted \subseteq SoldOut THEN PassFails
     ELSE \E order \in ShelfOrders(wanted \ SoldOut) : mall' = [mall EXCEPT !.list = order] /\ Goes("buy")

CreditShopping ==
  \/ Shop(store.credit, {i \in DOMAIN Commodities : ToBuy(i)}) /\ UNCHANGED store
  \/ /\ \E i \in DOMAIN Commodities \ store.sold :
          Shop(store.credit, LET w == {j \in DOMAIN Commodities : ToBuy(j)} IN IF i \in w THEN w \ {i} ELSE w \cup {i})
     /\ store' = [store EXCEPT !.doubt = TRUE]
  \/ /\ Shop(Unread, {})
     /\ Passes[mall.pass] = "force" /\ store' = [store EXCEPT !.doubt = TRUE]

\* The commodity is clicked and CreditShop-BuyIt is run, whatever comes of them: it is
\* bought, or it is too dear, or nothing happens.
Pay(i) ==
  IF store.credit >= Price[i]
  THEN store' = [store EXCEPT !.credit = @ - Price[i], !.sold = @ \cup {i},
                              !.bought = Append(@, [good |-> i, pass |-> Passes[mall.pass], credit |-> store.credit])]
  ELSE \E page \in BOOLEAN : store' = [store EXCEPT !.page = page]

BuyIt ==
  /\ at = "buy"
  /\ IF mall.list = <<>> THEN PassOver /\ UNCHANGED store
     ELSE IF stopped THEN PassFails /\ UNCHANGED store
     ELSE /\ mall' = [mall EXCEPT !.list = Tail(@)]
          /\ \/ Pay(Head(mall.list)) /\ Goes(IF store.credit >= Price[Head(mall.list)] THEN "bought" ELSE "no money")
             \/ store' = [store EXCEPT !.doubt = TRUE] /\ Goes("bought")

\* CreditShop-NoMoney ends the shopping if it is seen.
NoMoney ==
  /\ at = "no money" /\ UNCHANGED store
  /\ IF stopped THEN PassFails ELSE PassOver

\* With force the credit is read again after each purchase; -1 ends the shopping, too.
CreditOcr ==
  /\ at = "bought"
  /\ IF stopped THEN PassFails /\ UNCHANGED store
     ELSE IF Passes[mall.pass] # "force" THEN UNCHANGED <<mall, store>> /\ Goes("buy")
     ELSE \/ UNCHANGED store /\ IF Overflows(store.credit) THEN UNCHANGED mall /\ Goes("buy") ELSE PassOver
          \/ store' = [store EXCEPT !.doubt = TRUE] /\ PassOver

MallNext ==
  \/ Visit \/ CreditFight \/ ToMall \/ NextPass \/ SkipPass
  \/ CreditShopping \/ BuyIt \/ NoMoney \/ CreditOcr
-----------------------------------------------------------------------------
\* Unless something was misread: the white list alone is bought first, and in its order;
\* then nothing of the black list; then only while there is too much credit; and with
\* force there is not too much left, unless everything is sold.
CreditsAreSpentAsAsked ==
  task = "mall" /\ ~store.doubt =>
    /\ \A k \in DOMAIN store.bought :
         LET b == store.bought[k] IN
         /\ b.pass = "first" =>
              /\ EntryOf(b.good, mall.params.first) # 0
              /\ \A l \in 1..k - 1 : store.bought[l].pass = "first" =>
                   EntryOf(store.bought[l].good, mall.params.first) <= EntryOf(b.good, mall.params.first)
         /\ b.pass = "list" => EntryOf(b.good, mall.params.black) = 0
         /\ b.pass = "force" => b.credit > MaxCredit
    /\ at = "succeeded" /\ mall.params.force /\ ~stopped => store.credit <= MaxCredit \/ store.sold = DOMAIN Commodities
=============================================================================
