------------------------------ MODULE BookSpec ------------------------------
(***************************************************************************)
(* What a limit order book promises, without its data structures: the      *)
(* resting orders are a set, and an incoming order trades, one maker at a  *)
(* time, with the best-priced and, at one price, earliest resting order of *)
(* the other side, for as long as the prices cross.                        *)
(*                                                                         *)
(* Module Book is the implementation (ladders, levels, index).  The        *)
(* sequencer goroutine is the only caller of a book, so no operation       *)
(* starts while `taker' is being matched.                                  *)
(***************************************************************************)
EXTENDS Orders

VARIABLES
    resting,      \* the set of orders in the book
    taker,        \* the order being matched, or NoOrder
    nextTradeID,  \* identifier of the last trade
    maxOrderID,   \* highest order identifier seen
    res           \* MatchResult of the submission under way, or of the last

vars == <<resting, taker, nextTradeID, maxOrderID, res>>

Init ==
    /\ resting = {}
    /\ taker = NoOrder
    /\ nextTradeID = 0
    /\ maxOrderID = 0
    /\ res = NoResult

-----------------------------------------------------------------------------

(* Maker m is ahead of maker n of the same side: a better price, or the same
   price and an earlier arrival. *)
Ahead(m, n) ==
    \/ IF m.side = "Sell" THEN m.price < n.price ELSE m.price > n.price
    \/ m.price = n.price /\ m.id < n.id

(* The resting orders that the taker could trade with at its price. *)
Matchable ==
    { m \in resting : m.side = Opposite(taker.side) /\ Acceptable(taker, m.price) }

(* The first of them in price-time priority. *)
BestMaker(m) == m \in Matchable /\ \A n \in Matchable \ {m} : Ahead(m, n)

(* A new order arrives. *)
Submit(o) ==
    /\ taker = NoOrder
    /\ taker' = o
    /\ maxOrderID' = IF o.id > maxOrderID THEN o.id ELSE maxOrderID
    /\ res' = NoResult
    /\ UNCHANGED <<resting, nextTradeID>>

(* An order of unknown side or type is refused and changes no order. *)
Refuse ==
    /\ taker = NoOrder
    /\ res' = Refused
    /\ UNCHANGED <<resting, taker, nextTradeID, maxOrderID>>

(* The best maker is of the taker's own account: it leaves, nothing trades. *)
PreventSelf(m) ==
    /\ taker # NoOrder /\ taker.qty > 0
    /\ BestMaker(m)
    /\ selfMatch(taker, m)
    /\ resting' = resting \ {m}
    /\ res' = [res EXCEPT !.selfPrevented = Append(@, m.id)]
    /\ UNCHANGED <<taker, nextTradeID, maxOrderID>>

(* The taker trades with the best maker, at the maker's price. *)
Fill(m) ==
    /\ taker # NoOrder /\ taker.qty > 0
    /\ BestMaker(m)
    /\ ~selfMatch(taker, m)
    /\ LET fill == Lesser(taker.qty, m.qty)
       IN  /\ nextTradeID' = nextTradeID + 1
           /\ res' = [res EXCEPT !.trades =
                        Append(@, Execution(nextTradeID + 1, taker, m, m.price, fill))]
           /\ taker' = [taker EXCEPT !.qty = @ - fill]
           /\ resting' = (resting \ {m}) \cup
                         (IF m.qty > fill THEN {[m EXCEPT !.qty = @ - fill]} ELSE {})
    /\ UNCHANGED maxOrderID

(* Nothing is left to match: what remains of a LIMIT order rests, what
   remains of a MARKET order is dropped. *)
Finish ==
    /\ taker # NoOrder
    /\ taker.qty = 0 \/ Matchable = {}
    /\ IF taker.type = "Limit" /\ taker.qty > 0
         THEN /\ resting' = resting \cup {taker}
              /\ res' = [res EXCEPT !.resting = taker.qty]
         ELSE UNCHANGED <<resting, res>>
    /\ taker' = NoOrder
    /\ UNCHANGED <<nextTradeID, maxOrderID>>

(* `by' cancels its order; NoAccount cancels whosever order it is. *)
Cancel(m, by) ==
    /\ taker = NoOrder
    /\ m \in resting
    /\ by \in {NoAccount, m.placer}
    /\ resting' = resting \ {m}
    /\ UNCHANGED <<taker, nextTradeID, maxOrderID, res>>

Next ==
    \/ \E id \in OrderIDs : id > maxOrderID /\ \E o \in NewOrders(id) : Submit(o)
    \/ Refuse
    \/ \E m \in resting : PreventSelf(m) \/ Fill(m)
    \/ Finish
    \/ \E m \in resting, by \in Placers : Cancel(m, by)

Spec == Init /\ [][Next]_vars
-----------------------------------------------------------------------------

(* The book holds well-formed limit orders and the taker is an order. *)
TypeOK ==
    /\ resting \subseteq Order
    /\ taker \in Order \cup {NoOrder}
    /\ nextTradeID \in Nat
    /\ maxOrderID \in Nat
    /\ res \in MatchResult

(* No resting bid reaches a resting ask: nothing that could trade rests, not
   even while an incoming order is half matched. *)
Uncrossed ==
    \A b, s \in resting :
        b.side = "Buy" /\ s.side = "Sell" => b.price < s.price

(* Two resting orders never share an identifier, and none is the taker's:
   an order never trades with itself and a cancel names one order. *)
UniqueOrders ==
    /\ \A m, n \in resting : m.id = n.id => m = n
    /\ \A m \in resting : m.id <= maxOrderID /\ m.id # taker.id
    /\ taker.id <= maxOrderID

(* Only live limit orders rest: a filled order or a market order in the book
   would be matched or cancelled again. *)
RestingIsLive == \A m \in resting : m.qty > 0 /\ m.type = "Limit" /\ m.price \in Prices

=============================================================================
