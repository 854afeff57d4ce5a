------------------------------- MODULE Orders -------------------------------
(***************************************************************************)
(* The vocabulary of the matching engine (internal/oms/types.go): orders,  *)
(* trades, and the two tests on a pair of orders that matching is built    *)
(* from.  Time stamps are left out ("metric only, not used in matching").  *)
(* The symbol is left out too: a book holds the orders of one symbol.      *)
(***************************************************************************)
EXTENDS Integers, Sequences

CONSTANTS
    Accounts,     \* account identifiers
    NoAccount,    \* the empty Placer: "no account", never a self match
    Prices,       \* limit prices in play
    Quantities,   \* order quantities in play
    MaxOrderID    \* bound: order identifiers are 1..MaxOrderID

ASSUME NoAccountAssumption == NoAccount \notin Accounts
ASSUME PricesAssumption == Prices \subseteq Nat \ {0}
ASSUME QuantitiesAssumption == Quantities \subseteq Nat \ {0}
ASSUME MaxOrderIDAssumption == MaxOrderID \in Nat

Placers == Accounts \cup {NoAccount}
OrderIDs == 1 .. MaxOrderID

OrderSide == {"Buy", "Sell"}
OrderType == {"Limit", "Market"}

Opposite(side) == IF side = "Buy" THEN "Sell" ELSE "Buy"

(***************************************************************************)
(* An order as the sequencer hands it to the book: a LIMIT order has a     *)
(* positive price, a MARKET order has price 0.  The quantity is what is    *)
(* left of it; it is positive on arrival and while the order rests.        *)
(***************************************************************************)
Order ==
    [id : OrderIDs, side : OrderSide, type : OrderType,
     price : Prices \cup {0}, qty : Nat, placer : Placers]

NewOrders(id) ==
    { o \in [id : {id}, side : OrderSide, type : OrderType,
             price : Prices \cup {0}, qty : Quantities, placer : Placers] :
        (o.type = "Market") <=> (o.price = 0) }

(* No order is being matched. *)
NoOrder == [id |-> 0]

(* SeqID, prices, parties and direction of one execution. *)
Trade ==
    [id : Nat, price : Prices, maker : OrderIDs, taker : OrderIDs,
     makerAcc : Placers, takerAcc : Placers, qty : Nat, takerSide : OrderSide]

(* The account that receives the shares and pays the cash of trade t ...   *)
Buyer(t) == IF t.takerSide = "Buy" THEN t.takerAcc ELSE t.makerAcc

(* ... and the account on the other end. *)
Seller(t) == IF t.takerSide = "Buy" THEN t.makerAcc ELSE t.takerAcc

(* The two orders are of one account; the empty account is nobody's. *)
selfMatch(taker, maker) ==
    taker.placer # NoAccount /\ taker.placer = maker.placer

(* A LIMIT taker stops at the first opposite price worse than its own. *)
Acceptable(taker, price) ==
    \/ taker.type = "Market"
    \/ IF taker.side = "Buy" THEN price <= taker.price ELSE price >= taker.price

Lesser(m, n) == IF m <= n THEN m ELSE n

(* The trade of `fill' shares that a taker makes against a resting maker,
   always at the maker's price. *)
Execution(tradeID, taker, maker, price, fill) ==
    [id |-> tradeID, price |-> price, maker |-> maker.id, taker |-> taker.id,
     makerAcc |-> maker.placer, takerAcc |-> taker.placer, qty |-> fill,
     takerSide |-> taker.side]

(* What one Submit did to the book, with the error of SubmitOrder. *)
MatchResult ==
    [trades : Seq(Trade), selfPrevented : Seq(OrderIDs), resting : Nat, err : BOOLEAN]

NoResult == [trades |-> <<>>, selfPrevented |-> <<>>, resting |-> 0, err |-> FALSE]
Refused == [trades |-> <<>>, selfPrevented |-> <<>>, resting |-> 0, err |-> TRUE]

=============================================================================
