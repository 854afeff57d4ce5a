------------------------------ MODULE Accounts ------------------------------
(***************************************************************************)
(* The account store behind the pre-trade check (internal/oms/accounts.go): *)
(* what each account owns, what its live orders have reserved, and the     *)
(* hold of each live order.  Every method takes the store's one lock, so a *)
(* method is a function from a store to a store; module Venue interleaves  *)
(* the calls of the symbols' sequencers.                                   *)
(*                                                                         *)
(* Amounts are int64.  MaxValue stands for MaxInt64 where the code guards  *)
(* against it: in price * quantity.                                        *)
(***************************************************************************)
EXTENDS BookFn

CONSTANTS
    Symbols,
    MaxValue      \* the largest notional that does not overflow

ASSUME MaxValueAssumption == MaxValue \in Nat

(***************************************************************************)
(* A store.  `known' are the accounts with an entry in the cash or the     *)
(* positions map; an absent map entry reads as 0.  `holds' maps the        *)
(* symbol and identifier of a live order to its outstanding reservation.   *)
(***************************************************************************)
Store(known, cash, positions) ==
    [known |-> known, cash |-> cash, positions |-> positions,
     reservedCash |-> [x \in Accounts |-> 0],
     reservedShares |-> [x \in Accounts |-> [s \in Symbols |-> 0]],
     holds |-> <<>>]

HoldOf(o) == [account |-> o.placer, side |-> o.side, price |-> o.price, qty |-> o.qty]

HasHold(a, s, id) == <<s, id>> \in DOMAIN a.holds

(* notional refuses a product that would wrap. *)
Overflows(price, qty) == price * qty > MaxValue

AvailableCash(a, x) == a.cash[x] - a.reservedCash[x]
AvailablePosition(a, x, s) == a.positions[x][s] - a.reservedShares[x][s]

(* Mutant: a resting order's reservation does not count as committed. *)
CanReserveOwned(a, s, o) ==
    /\ o.placer \in a.known
    /\ ~HasHold(a, s, o.id)
    /\ IF o.side = "Sell" THEN a.positions[o.placer][s] >= o.qty
       ELSE IF o.type = "Market" THEN AvailableCash(a, o.placer) > 0
       ELSE ~Overflows(o.price, o.qty) /\ a.cash[o.placer] >= o.price * o.qty

(* The checks of Reserve. *)
CanReserve(a, s, o) ==
    /\ o.placer \in a.known
    /\ ~HasHold(a, s, o.id)
    /\ IF o.side = "Sell" THEN AvailablePosition(a, o.placer, s) >= o.qty
       ELSE IF o.type = "Market" THEN AvailableCash(a, o.placer) > 0
       ELSE ~Overflows(o.price, o.qty) /\ AvailableCash(a, o.placer) >= o.price * o.qty

(* What an order of this side and price reserves for `qty' shares; a market
   buy has price 0 and reserves nothing. *)
AddReserved(a, s, h, qty) ==
    IF h.side = "Sell"
    THEN [a EXCEPT !.reservedShares[h.account][s] = @ + qty]
    ELSE [a EXCEPT !.reservedCash[h.account] = @ + h.price * qty]

(* Reserve, once its checks have passed. *)
Reserve(a, s, o) ==
    LET held == [a EXCEPT !.holds = (<<s, o.id>> :> HoldOf(o)) @@ @]
    IN  AddReserved(held, s, HoldOf(o), o.qty)

(* RestoreHold: the hold of a recovered order, affordable or not.  An
   overflowing cost is held without being reserved. *)
RestoreHold(a, s, o) ==
    IF HasHold(a, s, o.id) THEN a
    ELSE IF o.side = "Buy" /\ Overflows(o.price, o.qty)
    THEN [a EXCEPT !.holds = (<<s, o.id>> :> HoldOf(o)) @@ @]
    ELSE Reserve(a, s, o)

(* shrinkHoldLocked: at most what is held is freed. *)
ShrinkHold(a, s, id, qty) ==
    LET h   == a.holds[<<s, id>>]
        cut == Lesser(qty, h.qty)
        b   == [a EXCEPT !.holds[<<s, id>>].qty = @ - cut]
    IN  IF h.side = "Buy" /\ Overflows(h.price, cut) THEN b
        ELSE AddReserved(b, s, h, -cut)

DropHold(a, s, id) == [a EXCEPT !.holds = Restrict(@, DOMAIN @ \ {<<s, id>>})]

(* Mutant: the hold is forgotten and what it reserved is not given back. *)
ReleaseHoldOnly(a, s, id) == IF HasHold(a, s, id) THEN DropHold(a, s, id) ELSE a

(* Release: the whole of what an order still reserves, if anything. *)
Release(a, s, id) ==
    IF HasHold(a, s, id)
    THEN DropHold(ShrinkHold(a, s, id, a.holds[<<s, id>>].qty), s, id)
    ELSE a

(* shrinkTradedLocked *)
ShrinkTraded(a, s, id, qty) ==
    IF ~HasHold(a, s, id) THEN a
    ELSE LET b == ShrinkHold(a, s, id, qty)
         IN  IF b.holds[<<s, id>>].qty = 0 THEN DropHold(b, s, id) ELSE b

(* Mutant: the buyer pays and the seller is not paid. *)
MoveValueOneWay(a, s, t) ==
    [a EXCEPT !.known = @ \cup {Buyer(t), Seller(t)},
              !.cash[Buyer(t)] = @ - t.price * t.qty,
              !.positions[Buyer(t)][s] = @ + t.qty,
              !.positions[Seller(t)][s] = @ - t.qty]

(* Cash and shares change hands. *)
MoveValue(a, s, t) ==
    LET value == t.price * t.qty
    IN  [a EXCEPT !.known = @ \cup {Buyer(t), Seller(t)},
                  !.cash[Buyer(t)] = @ - value,
                  !.positions[Buyer(t)][s] = @ + t.qty,
                  !.cash[Seller(t)] = @ + value,
                  !.positions[Seller(t)][s] = @ - t.qty]

(* One trade of Complete.  A trade whose value overflows is skipped. *)
CompleteTrade(a, s, t) ==
    IF Overflows(t.price, t.qty) THEN a
    ELSE ShrinkTraded(ShrinkTraded(MoveValue(a, s, t), s, t.maker, t.qty),
                      s, t.taker, t.qty)

(* Complete: the outcome of an order, in one step. *)
Complete(a, s, id, trades, resting, selfPrevented) ==
    LET moved == FoldLeft(LAMBDA x, t : CompleteTrade(x, s, t), a, trades)
        freed == FoldLeft(LAMBDA x, m : Release(x, s, m), moved, selfPrevented)
    IN  IF resting <= 0 THEN Release(freed, s, id) ELSE freed

=============================================================================
