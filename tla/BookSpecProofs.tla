--------------------------- MODULE BookSpecProofs ---------------------------
(***************************************************************************)
(* The abstract book is type correct, keeps its orders apart and is never  *)
(* crossed, for every set of accounts, prices and quantities and any       *)
(* number of orders.                                                       *)
(***************************************************************************)
EXTENDS BookSpec, SequenceTheorems, TLAPS

(* A limit order being matched has a limit price, so what rests of it does
   too. *)
TakerIsPriced == taker # NoOrder /\ taker.type = "Limit" => taker.price \in Prices

Inv == TypeOK /\ UniqueOrders /\ RestingIsLive /\ TakerIsPriced /\ Uncrossed

(* The identifier 0 of "no order" is no order's. *)
LEMMA NoOrderIsNone == NoOrder \notin Order
BY MaxOrderIDAssumption DEF NoOrder, Order, OrderIDs

(* A new order is an order of the given identifier and a positive quantity. *)
LEMMA NewOrderType ==
    ASSUME NEW id \in OrderIDs, NEW o \in NewOrders(id)
    PROVE  o \in Order /\ o.id = id /\ o.qty > 0
           /\ (o.type = "Limit" => o.price \in Prices)
<1>1. /\ o \in [id : {id}, side : OrderSide, type : OrderType,
                price : Prices \cup {0}, qty : Quantities, placer : Placers]
      /\ o.type = "Market" <=> o.price = 0
  BY DEF NewOrders
<1>2. o \in Order
  BY <1>1, QuantitiesAssumption DEF Order
<1>3. o.id = id /\ o.qty \in Nat \ {0} /\ o.price \in Prices \cup {0}
  BY <1>1, QuantitiesAssumption
<1>4. o.type = "Limit" => o.price \in Prices
  BY <1>1, <1>3
<1>5. QED
  BY <1>2, <1>3, <1>4

(* Matching lists trades and identifiers of the right type. *)
LEMMA TradesGrow ==
    ASSUME NEW r \in MatchResult, NEW t \in Trade
    PROVE  [r EXCEPT !.trades = Append(@, t)] \in MatchResult
<1>1. r.trades \in Seq(Trade)
  BY DEF MatchResult
<1>2. Append(r.trades, t) \in Seq(Trade)
  BY <1>1, AppendProperties
<1>3. QED
  BY <1>2 DEF MatchResult

LEMMA SelfPreventedGrow ==
    ASSUME NEW r \in MatchResult, NEW id \in OrderIDs
    PROVE  [r EXCEPT !.selfPrevented = Append(@, id)] \in MatchResult
<1>1. r.selfPrevented \in Seq(OrderIDs)
  BY DEF MatchResult
<1>2. Append(r.selfPrevented, id) \in Seq(OrderIDs)
  BY <1>1, AppendProperties
<1>3. QED
  BY <1>2 DEF MatchResult

(* The initial state. *)
LEMMA InitInv == Init => Inv
<1>1. NoResult \in MatchResult
  BY DEF NoResult, MatchResult
<1>2. QED
  BY <1>1 DEF Init, Inv, TypeOK, UniqueOrders, RestingIsLive, TakerIsPriced,
              Uncrossed, NoOrder

(* A new order leaves the resting orders alone and is above all of them. *)
LEMMA SubmitInv ==
    ASSUME Inv, NEW id \in OrderIDs, id > maxOrderID, NEW o \in NewOrders(id), Submit(o)
    PROVE  Inv'
<1>1. o \in Order /\ o.id = id /\ (o.type = "Limit" => o.price \in Prices)
  BY NewOrderType
<1>2. NoResult \in MatchResult
  BY DEF NoResult, MatchResult
<1>3. maxOrderID' = id /\ id \in Nat
  BY <1>1 DEF Submit, OrderIDs
<1>4. TypeOK'
  BY <1>1, <1>2, <1>3 DEF Inv, TypeOK, Submit
<1>5. UniqueOrders'
  BY <1>1, <1>3 DEF Inv, TypeOK, UniqueOrders, Submit, Order, OrderIDs
<1>6. RestingIsLive' /\ TakerIsPriced' /\ Uncrossed'
  BY <1>1 DEF Inv, RestingIsLive, TakerIsPriced, Uncrossed, Submit
<1>7. QED
  BY <1>4, <1>5, <1>6 DEF Inv

(* Removing an order, by self-match prevention or by a cancel, disturbs
   nothing. *)
LEMMA RemoveInv ==
    ASSUME Inv, NEW m \in resting, PreventSelf(m) \/ (\E by \in Placers : Cancel(m, by))
    PROVE  Inv'
<1>1. m.id \in OrderIDs
  BY DEF Inv, TypeOK, Order
<1>2. res' \in MatchResult
  <2>1. CASE PreventSelf(m)
    BY <1>1, <2>1, SelfPreventedGrow DEF PreventSelf, Inv, TypeOK
  <2>2. CASE \E by \in Placers : Cancel(m, by)
    BY <2>2 DEF Cancel, Inv, TypeOK
  <2>3. QED BY <2>1, <2>2
<1>3. resting' \subseteq resting /\ UNCHANGED <<taker, nextTradeID, maxOrderID>>
  BY DEF PreventSelf, Cancel
<1>4. QED
  BY <1>2, <1>3 DEF Inv, TypeOK, UniqueOrders, RestingIsLive, TakerIsPriced, Uncrossed

(* A trade takes `fill' from both sides and leaves the rest of the maker where
   it was. *)
LEMMA FillInv ==
    ASSUME Inv, NEW m \in resting, Fill(m)
    PROVE  Inv'
<1> DEFINE fill == Lesser(taker.qty, m.qty)
<1> DEFINE left == [m EXCEPT !.qty = @ - fill]
<1>1. /\ taker \in Order /\ m \in Order
      /\ taker.qty \in Nat /\ m.qty \in Nat
      /\ taker.id \in OrderIDs /\ m.id \in OrderIDs
      /\ taker.placer \in Placers /\ m.placer \in Placers
      /\ taker.side \in OrderSide /\ m.side \in OrderSide
      /\ m.price \in Prices
  BY DEF Fill, Inv, TypeOK, Order, RestingIsLive
<1>2. fill \in Nat /\ fill <= taker.qty /\ fill <= m.qty
  BY <1>1 DEF Lesser
<1>3. /\ left \in Order /\ left.id = m.id /\ left.side = m.side
      /\ left.price = m.price /\ left.type = m.type
      /\ left.qty = m.qty - fill
  BY <1>1, <1>2 DEF Order
<1>4. /\ taker' \in Order /\ taker'.id = taker.id /\ taker'.type = taker.type
      /\ taker'.price = taker.price
  BY <1>1, <1>2 DEF Fill, Order
<1>5. /\ maxOrderID' = maxOrderID
      /\ nextTradeID' = nextTradeID + 1
      /\ resting' = (resting \ {m}) \cup (IF m.qty > fill THEN {left} ELSE {})
  BY DEF Fill
<1>6. Execution(nextTradeID + 1, taker, m, m.price, fill) \in Trade
  BY <1>1, <1>2 DEF Execution, Trade, Inv, TypeOK
<1>7. TypeOK'
  <2>1. res' \in MatchResult
    BY <1>1, <1>6, TradesGrow DEF Fill, Inv, TypeOK
  <2>2. QED
    BY <1>3, <1>4, <1>5, <2>1 DEF Inv, TypeOK
<1>8. \A x \in resting' : \/ x \in resting /\ x # m
                          \/ x = left /\ m.qty > fill
  BY <1>5
<1>9. UniqueOrders'
  <2>1. \A x \in resting' : \E y \in resting : x.id = y.id
    BY <1>3, <1>8
  <2>2. ASSUME NEW x \in resting', NEW y \in resting', x.id = y.id
        PROVE  x = y
    BY <1>3, <1>8, <2>2 DEF Inv, UniqueOrders
  <2>3. QED
    BY <1>4, <1>5, <2>1, <2>2 DEF Inv, UniqueOrders
<1> HIDE DEF fill, left
<1>10. RestingIsLive'
  BY <1>1, <1>2, <1>3, <1>8 DEF Inv, RestingIsLive
<1>11. TakerIsPriced'
  BY <1>1, <1>4, NoOrderIsNone DEF Inv, TakerIsPriced
<1>12. Uncrossed'
  BY <1>3, <1>8 DEF Inv, Uncrossed
<1>13. QED
  BY <1>7, <1>9, <1>10, <1>11, <1>12 DEF Inv

(* What rests of a limit order has nothing left to match: every opposite
   order is at a strictly worse price. *)
LEMMA FinishInv ==
    ASSUME Inv, Finish
    PROVE  Inv'
<1>1. taker \in Order /\ taker' = NoOrder /\ maxOrderID' = maxOrderID
      /\ nextTradeID' = nextTradeID
  BY DEF Finish, Inv, TypeOK
<1>2. CASE ~(taker.type = "Limit" /\ taker.qty > 0)
  BY <1>1, <1>2 DEF Finish, Inv, TypeOK, UniqueOrders, RestingIsLive, TakerIsPriced,
                    Uncrossed, NoOrder, Order, OrderIDs
<1>3. CASE taker.type = "Limit" /\ taker.qty > 0
  <2>1. /\ resting' = resting \cup {taker}
        /\ res' = [res EXCEPT !.resting = taker.qty]
        /\ Matchable = {}
        /\ taker.price \in Prices /\ taker.qty \in Nat /\ taker.side \in OrderSide
    BY <1>1, <1>3 DEF Finish, Inv, TakerIsPriced, Order
  <2>2. TypeOK'
    BY <1>1, <2>1 DEF Inv, TypeOK, MatchResult
  <2>3. UniqueOrders'
    BY <1>1, <2>1 DEF Inv, TypeOK, UniqueOrders, NoOrder, Order, OrderIDs
  <2>4. RestingIsLive' /\ TakerIsPriced'
    BY <1>1, <1>3, <2>1 DEF Inv, RestingIsLive, TakerIsPriced
  <2>5. Uncrossed'
    <3>1. \A m \in resting : m.side # Opposite(taker.side) \/ ~Acceptable(taker, m.price)
      BY <2>1 DEF Matchable
    <3>2. \A m \in resting : m.price \in Nat
      BY PricesAssumption DEF Inv, RestingIsLive
    <3>3. taker.price \in Nat
      BY <2>1, PricesAssumption
    <3>4. ASSUME NEW m \in resting
          PROVE  /\ taker.side = "Buy" /\ m.side = "Sell" => taker.price < m.price
                 /\ taker.side = "Sell" /\ m.side = "Buy" => m.price < taker.price
      BY <1>3, <3>1, <3>2, <3>3 DEF Acceptable, Opposite
    <3>5. QED
      BY <2>1, <3>4 DEF Inv, Uncrossed
  <2>6. QED
    BY <2>2, <2>3, <2>4, <2>5 DEF Inv
<1>4. QED
  BY <1>2, <1>3

LEMMA NextInv == Inv /\ [Next]_vars => Inv'
<1> SUFFICES ASSUME Inv, [Next]_vars PROVE Inv'
  OBVIOUS
<1>1. CASE \E id \in OrderIDs : id > maxOrderID /\ \E o \in NewOrders(id) : Submit(o)
  BY <1>1, SubmitInv
<1>2. CASE Refuse
  <2>1. Refused \in MatchResult
    BY DEF Refused, MatchResult
  <2>2. QED
    BY <1>2, <2>1 DEF Refuse, Inv, TypeOK, UniqueOrders, RestingIsLive, TakerIsPriced,
                      Uncrossed
<1>3. ASSUME NEW m \in resting, PreventSelf(m) \/ Fill(m)
      PROVE  Inv'
  BY <1>3, RemoveInv, FillInv
<1>4. CASE Finish
  BY <1>4, FinishInv
<1>5. ASSUME NEW m \in resting, NEW by \in Placers, Cancel(m, by)
      PROVE  Inv'
  BY <1>5, RemoveInv
<1>6. CASE UNCHANGED vars
  BY <1>6 DEF vars, Inv, TypeOK, UniqueOrders, RestingIsLive, TakerIsPriced, Uncrossed,
              Matchable
<1>7. QED
  BY <1>1, <1>2, <1>3, <1>4, <1>5, <1>6 DEF Next

-----------------------------------------------------------------------------

(* Inv holds in every state of the abstract book. *)
LEMMA Invariance == Spec => []Inv
BY InitInv, NextInv, PTL DEF Spec

(* The book's components keep their types whatever is submitted, matched and
   cancelled. *)
THEOREM TypeCorrect == Spec => []TypeOK
<1>1. Inv => TypeOK
  BY DEF Inv
<1>2. QED
  BY <1>1, Invariance, PTL

(* No submission, matched or half matched, and no cancel leaves a resting bid
   at or above a resting ask. *)
THEOREM NeverCrossed == Spec => []Uncrossed
<1>1. Inv => Uncrossed
  BY DEF Inv
<1>2. QED
  BY <1>1, Invariance, PTL

(* Resting orders are live limit orders and no two of them share an
   identifier. *)
THEOREM OrdersApart == Spec => [](UniqueOrders /\ RestingIsLive)
<1>1. Inv => UniqueOrders /\ RestingIsLive
  BY DEF Inv
<1>2. QED
  BY <1>1, Invariance, PTL

=============================================================================
