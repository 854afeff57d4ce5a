------------------------------- MODULE BookFn -------------------------------
(***************************************************************************)
(* Matching as a function: what a whole Submit makes of a set of resting   *)
(* orders.  It is the reference the step-by-step book is checked against,  *)
(* and the book of the modules in which a submission is one step.          *)
(***************************************************************************)
EXTENDS Orders, SequencesExt

(* Price-time priority among the makers of one side. *)
Precedes(m, n) ==
    \/ IF m.side = "Sell" THEN m.price < n.price ELSE m.price > n.price
    \/ m.price = n.price /\ m.id < n.id

(* The makers an order would meet, in the order it would meet them. *)
MakersFor(orders, o) ==
    SetToSortSeq({ m \in orders : m.side = Opposite(o.side) /\ Acceptable(o, m.price) },
                 Precedes)

(* One maker met by what is left of the taker. *)
Meet(s, m) ==
    IF s.taker.qty = 0 THEN s
    ELSE IF selfMatch(s.taker, m)
    THEN [s EXCEPT !.orders = @ \ {m}, !.selfPrevented = Append(@, m.id)]
    ELSE LET fill == Lesser(s.taker.qty, m.qty)
             left == IF m.qty > fill THEN {[m EXCEPT !.qty = @ - fill]} ELSE {}
         IN  [orders |-> (s.orders \ {m}) \cup left,
              taker |-> [s.taker EXCEPT !.qty = @ - fill],
              lastTrade |-> s.lastTrade + 1,
              trades |-> Append(s.trades,
                           Execution(s.lastTrade + 1, s.taker, m, m.price, fill)),
              selfPrevented |-> s.selfPrevented]

(* The outcome of submitting o to a book of `orders' whose last trade has
   identifier lastTrade: the orders left, the trades, the makers cancelled and
   the quantity of o that rests. *)
SubmitAll(orders, o, lastTrade) ==
    LET start == [orders |-> orders, taker |-> o, lastTrade |-> lastTrade,
                  trades |-> <<>>, selfPrevented |-> <<>>]
        end   == FoldLeft(Meet, start, MakersFor(orders, o))
        rests == end.taker.type = "Limit" /\ end.taker.qty > 0
    IN  [orders |-> end.orders \cup (IF rests THEN {end.taker} ELSE {}),
         lastTrade |-> end.lastTrade,
         trades |-> end.trades,
         selfPrevented |-> end.selfPrevented,
         resting |-> IF rests THEN end.taker.qty ELSE 0]

=============================================================================
