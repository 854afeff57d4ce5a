-------------------------------- MODULE Book --------------------------------
(***************************************************************************)
(* The limit order book of one symbol (internal/oms/book.go): two price    *)
(* ladders, a FIFO level per price, and an index from order identifiers to *)
(* levels.  A submission is the action SubmitOrder, one step per iteration *)
(* of the matching loop, and the action Rest; the sequencer goroutine is   *)
(* the book's only caller, so nothing else happens in between.             *)
(*                                                                         *)
(* An index entry points at a level and a list element.  Here it is the    *)
(* price of the level; the element is the order of that identifier in the  *)
(* level's queue.                                                          *)
(***************************************************************************)
EXTENDS BookFn

VARIABLES
    bids, asks,   \* prices with resting orders, best first
    levels,       \* price -> [side, orders], orders oldest first
    index,        \* order identifier -> price of the level it rests in
    nextTradeID,  \* identifier of the last trade of this book
    maxOrderID,   \* highest order identifier seen
    taker,        \* the order being matched, or NoOrder
    res,          \* MatchResult of the submission under way, or of the last
    before        \* history: the book and the order when the submission began

ladders == <<bids, asks>>
vars == <<bids, asks, levels, index, nextTradeID, maxOrderID, taker, res, before>>

NoHistory == [orders |-> {}, order |-> NoOrder, lastTrade |-> 0]

(* NewBook *)
Init ==
    /\ bids = <<>> /\ asks = <<>>
    /\ levels = <<>>
    /\ index = <<>>
    /\ nextTradeID = 0 /\ maxOrderID = 0
    /\ taker = NoOrder
    /\ res = NoResult
    /\ before = NoHistory

-----------------------------------------------------------------------------

Ladder(side) == IF side = "Buy" THEN bids ELSE asks

SetLadder(side, ladder) ==
    IF side = "Buy" THEN bids' = ladder /\ UNCHANGED asks
                    ELSE asks' = ladder /\ UNCHANGED bids

(* sort.Search: the first rung at or past `price', bids descending and asks
   ascending; one past the end when there is none. *)
Rung(side, price) ==
    LET ladder == Ladder(side)
        past(i) == IF side = "Buy" THEN ladder[i] <= price ELSE ladder[i] >= price
    IN  CHOOSE i \in 1 .. Len(ladder) + 1 :
            /\ i \in DOMAIN ladder => past(i)
            /\ \A j \in 1 .. i - 1 : ~past(j)

(* m[key] = value on a map. *)
Assign(m, key, value) == [k \in DOMAIN m \cup {key} |-> IF k = key THEN value ELSE m[k]]

(* getOrCreateLevel followed by push: an existing level is taken as it is,
   whatever its side. *)
PushOrder(o) ==
    IF o.price \in DOMAIN levels
    THEN /\ levels' = [levels EXCEPT ![o.price].orders = Append(@, o)]
         /\ UNCHANGED ladders
    ELSE /\ levels' = Assign(levels, o.price, [side |-> o.side, orders |-> <<o>>])
         /\ SetLadder(o.side, InsertAt(Ladder(o.side), Rung(o.side, o.price), o.price))

(* removeLevel *)
removeLevel(side, price) ==
    /\ SetLadder(side, RemoveAt(Ladder(side), Rung(side, price)))
    /\ levels' = Restrict(levels, DOMAIN levels \ {price})

(* What the loop and CancelOwned do with a level whose queue became `queue'. *)
SetQueue(side, price, queue) ==
    IF queue = <<>>
    THEN removeLevel(side, price)
    ELSE /\ levels' = [levels EXCEPT ![price].orders = queue]
         /\ UNCHANGED ladders

(* delete(b.index, id), as the identifiers that stay. *)
Indexed(ids) == Restrict(index, ids)

(* The list element of an index entry, as a place in the level's queue. *)
Element(id) == SelectInSeq(levels[index[id]].orders, LAMBDA o : o.id = id)
OrderAt(id) == levels[index[id]].orders[Element(id)]

(* RestingOrders: the orders the index leads to. *)
RestingOrders == { OrderAt(id) : id \in DOMAIN index }

(* Mutant: the depth of a level is the size of its first order. *)
levelQuantityOfFirst(level) == Head(level.orders).qty

(* Snapshot: price and total quantity of every level, best first. *)
levelQuantity(level) == FoldLeft(LAMBDA total, o : total + o.qty, 0, level.orders)

Snapshot(side) ==
    [ i \in DOMAIN Ladder(side) |->
        [price |-> Ladder(side)[i], qty |-> levelQuantity(levels[Ladder(side)[i]])] ]

-----------------------------------------------------------------------------

(* SubmitOrder up to the matching loop.  The sequencer numbers orders upwards
   and burns the number of an order it refuses, so identifiers may skip. *)
SubmitOrder(o) ==
    /\ taker = NoOrder
    /\ maxOrderID' = IF o.id > maxOrderID THEN o.id ELSE maxOrderID
    /\ taker' = o
    /\ res' = NoResult
    /\ before' = [orders |-> RestingOrders, order |-> o, lastTrade |-> nextTradeID]
    /\ UNCHANGED <<bids, asks, levels, index, nextTradeID>>

(* SubmitOrder on an order of unknown side or type. *)
RefuseUnknown ==
    /\ taker = NoOrder
    /\ res' = Refused
    /\ UNCHANGED <<bids, asks, levels, index, nextTradeID, maxOrderID, taker, before>>

(* Mutant: an order that meets its own account rests instead of going on. *)
MatchingUnlessSelf(side) ==
    /\ taker # NoOrder
    /\ taker.side = Opposite(side)
    /\ taker.qty > 0
    /\ Ladder(side) # <<>>
    /\ Acceptable(taker, Head(Ladder(side)))
    /\ ~selfMatch(taker, Head(levels[Head(Ladder(side))].orders))

(* The condition of the matching loop and its two breaks. *)
Matching(side) ==
    /\ taker # NoOrder
    /\ taker.side = Opposite(side)
    /\ taker.qty > 0
    /\ Ladder(side) # <<>>
    /\ Acceptable(taker, Head(Ladder(side)))

(* Mutant: a partly filled maker loses its place in line. *)
RequeueAtBack(maker, rest) == Append(rest, maker)

(* pushFront: a partly filled maker stays first in line. *)
Requeue(maker, rest) == <<maker>> \o rest

(* Mutant: the maker is tested before it is popped, and skipped. *)
MatchSelfWithoutPop(side) ==
    /\ Matching(side)
    /\ selfMatch(taker, Head(levels[Head(Ladder(side))].orders))
    /\ UNCHANGED vars

(* One iteration of matchAgainstAsks (side = "Sell") or matchAgainstBids
   (side = "Buy") in which the popped maker is of the taker's account ... *)
MatchSelf(side) ==
    /\ Matching(side)
    /\ LET price == Head(Ladder(side))
           maker == Head(levels[price].orders)
       IN  /\ selfMatch(taker, maker)
           /\ SetQueue(side, price, Tail(levels[price].orders))
           /\ index' = Indexed(DOMAIN index \ {maker.id})
           /\ res' = [res EXCEPT !.selfPrevented = Append(@, maker.id)]
    /\ UNCHANGED <<nextTradeID, maxOrderID, taker, before>>

(* ... and one in which it trades. *)
MatchTrade(side) ==
    /\ Matching(side)
    /\ LET price == Head(Ladder(side))
           maker == Head(levels[price].orders)
           rest  == Tail(levels[price].orders)
           fill  == Lesser(taker.qty, maker.qty)
           done  == maker.qty = fill
           left  == Indexed(DOMAIN index \ {maker.id})
       IN  /\ ~selfMatch(taker, maker)
           /\ nextTradeID' = nextTradeID + 1
           /\ res' = [res EXCEPT !.trades =
                        Append(@, Execution(nextTradeID + 1, taker, maker, price, fill))]
           /\ taker' = [taker EXCEPT !.qty = @ - fill]
           /\ SetQueue(side, price,
                       IF done THEN rest
                               ELSE Requeue([maker EXCEPT !.qty = @ - fill], rest))
           /\ index' = IF done THEN left ELSE Assign(left, maker.id, price)
    /\ UNCHANGED <<maxOrderID, before>>

matchAgainstAsks == taker # NoOrder /\ (MatchSelf("Sell") \/ MatchTrade("Sell"))
matchAgainstBids == taker # NoOrder /\ (MatchSelf("Buy") \/ MatchTrade("Buy"))

(* SubmitOrder after the loop: what is left of a LIMIT order rests, what is
   left of a MARKET order is dropped. *)
Rest ==
    /\ taker # NoOrder
    /\ \A side \in OrderSide : ~Matching(side)
    /\ IF taker.type = "Limit" /\ taker.qty > 0
         THEN /\ PushOrder(taker)
              /\ index' = Assign(index, taker.id, taker.price)
              /\ res' = [res EXCEPT !.resting = taker.qty]
         ELSE UNCHANGED <<bids, asks, levels, index, res>>
    /\ taker' = NoOrder
    /\ before' = NoHistory
    /\ UNCHANGED <<nextTradeID, maxOrderID>>

(* Mutant: a cancel takes the order's whole level off the book. *)
CancelLevel(id, by) ==
    /\ taker = NoOrder
    /\ id \in DOMAIN index
    /\ by \in {NoAccount, OrderAt(id).placer}
    /\ removeLevel(levels[index[id]].side, index[id])
    /\ index' = Indexed({ k \in DOMAIN index : index[k] # index[id] })
    /\ UNCHANGED <<nextTradeID, maxOrderID, taker, res, before>>

(* CancelOwned.  A cancel of an order the index does not have, or of another
   account's order, returns an error and changes nothing. *)
CancelOwned(id, by) ==
    /\ taker = NoOrder
    /\ id \in DOMAIN index
    /\ by \in {NoAccount, OrderAt(id).placer}
    /\ LET price == index[id]
       IN  SetQueue(levels[price].side, price, RemoveAt(levels[price].orders, Element(id)))
    /\ index' = Indexed(DOMAIN index \ {id})
    /\ UNCHANGED <<nextTradeID, maxOrderID, taker, res, before>>

Next ==
    \/ \E id \in OrderIDs : id > maxOrderID /\ \E o \in NewOrders(id) : SubmitOrder(o)
    \/ RefuseUnknown
    \/ matchAgainstAsks
    \/ matchAgainstBids
    \/ Rest
    \/ \E id \in OrderIDs, by \in Placers : CancelOwned(id, by)

(* The goroutine inside SubmitOrder runs on; that callers come is not assumed. *)
Fairness == WF_vars(matchAgainstAsks \/ matchAgainstBids \/ Rest)

Spec == Init /\ [][Next]_vars /\ Fairness
-----------------------------------------------------------------------------

Queue(price) == levels[price].orders

(* Every component of the book has its type. *)
TypeOK ==
    /\ bids \in Seq(Prices) /\ asks \in Seq(Prices)
    /\ DOMAIN levels \subseteq Prices
    /\ \A p \in DOMAIN levels :
         levels[p].side \in OrderSide /\ levels[p].orders \in Seq(Order)
    /\ DOMAIN index \subseteq OrderIDs
    /\ \A id \in DOMAIN index : index[id] \in Prices
    /\ nextTradeID \in Nat /\ maxOrderID \in Nat
    /\ taker \in Order \cup {NoOrder}
    /\ res \in MatchResult

(* BestBid < BestAsk whenever both exist.  getOrCreateLevel finds a level by
   price alone, so this is also what keeps a sell out of a buy level. *)
Uncrossed == bids # <<>> /\ asks # <<>> => Head(bids) < Head(asks)

(* Each ladder is strictly sorted, best first, and lists exactly the prices
   of its side's levels, none of them empty: BestBid and BestAsk can read the
   first rung, and removeLevel's binary search hits the price it is given. *)
LaddersExact ==
    /\ \A i, j \in DOMAIN bids : i < j => bids[i] > bids[j]
    /\ \A i, j \in DOMAIN asks : i < j => asks[i] < asks[j]
    /\ \A side \in OrderSide :
         ToSet(Ladder(side)) = { p \in DOMAIN levels : levels[p].side = side }
    /\ \A p \in DOMAIN levels : Queue(p) # <<>>

(* The index has exactly the orders that are in the levels, each in the level
   of its price and side: Cancel reaches every resting order, and nothing that
   has been filled or cancelled. *)
IndexExact ==
    /\ \A p \in DOMAIN levels : \A i \in DOMAIN Queue(p) :
         LET o == Queue(p)[i]
         IN  /\ o.price = p /\ o.side = levels[p].side
             /\ o.id \in DOMAIN index /\ index[o.id] = p
    /\ \A id \in DOMAIN index :
         /\ index[id] \in DOMAIN levels
         /\ \E o \in ToSet(Queue(index[id])) : o.id = id

(* A level's queue is in order of arrival: a partly filled maker goes back to
   the front, so it never loses its place to a later order. *)
TimePriority ==
    \A p \in DOMAIN levels : \A i, j \in DOMAIN Queue(p) :
        i < j => Queue(p)[i].id < Queue(p)[j].id

(* The several structures that describe the same resting orders agree at every
   iteration of the matching loop, when a maker has been popped, traded with, put
   back or taken out half way through a submission. *)
StructuresAgree == TypeOK /\ Uncrossed /\ LaddersExact /\ IndexExact /\ TimePriority

(* The depth a snapshot reports adds up, side by side and price by price, to
   the resting orders: nothing is counted twice and nothing is left out. *)
SnapshotIsExact ==
    \A side \in OrderSide : \A p \in Prices :
        LET orders == { o \in RestingOrders : o.side = side /\ o.price = p }
            rows   == { row \in ToSet(Snapshot(side)) : row.price = p }
        IN  rows = IF orders = {} THEN {}
                   ELSE {[price |-> p, qty |-> MapThenSumSet(LAMBDA o : o.qty, orders)]}

(* However long the matching loop ran, a submission ends with the book, the
   trades (price, quantity, parties, numbers), the self-match cancellations
   and the resting quantity that the matching function computes in one go. *)
SubmitMatchesReference ==
    [][taker # NoOrder /\ taker' = NoOrder =>
         LET end == SubmitAll(before.orders, before.order, before.lastTrade)
         IN  /\ RestingOrders' = end.orders
             /\ nextTradeID' = end.lastTrade
             /\ res' = [trades |-> end.trades, selfPrevented |-> end.selfPrevented,
                        resting |-> end.resting, err |-> FALSE]]_vars

(* The matching loop ends: a taker is never matched for ever. *)
SubmissionEnds == (taker # NoOrder) ~> (taker = NoOrder)

(* The book implements the set of orders with price-time priority. *)
Abstract == INSTANCE BookSpec WITH resting <- RestingOrders
ImplementsBookSpec == Abstract!Spec

=============================================================================
