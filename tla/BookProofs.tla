----------------------------- MODULE BookProofs -----------------------------
(***************************************************************************)
(* The book's ladders, levels and index agree at every iteration of the    *)
(* matching loop, and the book implements price-time priority on a set of  *)
(* orders (module BookSpec): for every set of accounts, prices and         *)
(* quantities and any number of orders.                                    *)
(***************************************************************************)
EXTENDS Book, SequenceTheorems, WellFoundedInduction, TLAPS

-----------------------------------------------------------------------------
(* The inductive invariant, over values: lv is `levels', ix is `index'.    *)

Better(side, p, q) == IF side = "Buy" THEN p > q ELSE p < q

(* A ladder has the prices of its side's levels, best first. *)
LadderOf(side, l, lv) ==
    /\ l \in Seq(Prices)
    /\ \A i, j \in 1 .. Len(l) : i < j => Better(side, l[i], l[j])
    /\ \A p \in DOMAIN lv : lv[p].side = side => \E i \in 1 .. Len(l) : l[i] = p
    /\ \A i \in 1 .. Len(l) : l[i] \in DOMAIN lv /\ lv[l[i]].side = side

(* The queue of the level at p: live limit orders, earliest first. *)
QueueOK(q, p, side) ==
    /\ q \in Seq(Order) /\ q # <<>>
    /\ \A i \in 1 .. Len(q) :
         q[i].price = p /\ q[i].side = side /\ q[i].type = "Limit" /\ q[i].qty > 0
    /\ \A i, j \in 1 .. Len(q) : i < j => q[i].id < q[j].id

LevelsOK(lv) ==
    /\ lv \in [DOMAIN lv -> [side : OrderSide, orders : Seq(Order)]]
    /\ DOMAIN lv \subseteq Prices
    /\ \A p \in DOMAIN lv : QueueOK(lv[p].orders, p, lv[p].side)

(* The orders of a queue, and of all of them. *)
QSet(q) == { q[i] : i \in 1 .. Len(q) }
OrdersOf(lv) == { o \in Order : \E p \in DOMAIN lv : o \in QSet(lv[p].orders) }

(* The index has these orders, each at its price. *)
IndexOf(os, ix) ==
    /\ ix \in [DOMAIN ix -> Prices]
    /\ DOMAIN ix \subseteq OrderIDs
    /\ \A o \in os : o.id \in DOMAIN ix /\ ix[o.id] = o.price
    /\ \A id \in DOMAIN ix : \E o \in os : o.id = id

(* The abstract book, with what is proved of it. *)
AB == INSTANCE BookSpecProofs WITH resting <- RestingOrders

(* The data structures fit each other ... *)
StructOK ==
    /\ LevelsOK(levels)
    /\ IndexOf(OrdersOf(levels), index)
    /\ LadderOf("Buy", bids, levels) /\ LadderOf("Sell", asks, levels)

(* ... the orders they hold are those of a book in good order, and the order
   being matched is the latest. *)
Latest == taker # NoOrder => taker.id = maxOrderID

BInv == StructOK /\ AB!Inv /\ Latest

-----------------------------------------------------------------------------
(* Sequences.                                                              *)

(* t is s without its element i. *)
Without(s, i, t) ==
    /\ Len(t) = Len(s) - 1
    /\ \A k \in 1 .. Len(s) - 1 : t[k] = IF k < i THEN s[k] ELSE s[k + 1]

(* t is s with e at place i. *)
Inserted(s, i, e, t) ==
    /\ Len(t) = Len(s) + 1
    /\ \A k \in 1 .. Len(s) + 1 :
         t[k] = IF k < i THEN s[k] ELSE IF k = i THEN e ELSE s[k - 1]

(* A part of a sequence, perhaps empty. *)
LEMMA Part ==
    ASSUME NEW S, NEW s \in Seq(S), NEW m \in 1 .. Len(s) + 1, NEW n \in m - 1 .. Len(s)
    PROVE  /\ SubSeq(s, m, n) \in Seq(S)
           /\ Len(SubSeq(s, m, n)) = n - m + 1
           /\ \A k \in 1 .. n - m + 1 : SubSeq(s, m, n)[k] = s[m + k - 1]
<1>1. Len(s) \in Nat /\ m \in Int /\ n \in Int
  BY LenProperties
<1>2. \A k \in m .. n : s[k] \in S
  <2>1. \A k \in m .. n : k \in 1 .. Len(s)
    BY <1>1
  <2>2. QED
    BY <2>1, ElementOfSeq
<1>3. n - m + 1 = IF m <= n THEN n - m + 1 ELSE 0
  BY <1>1
<1>4. QED
  BY <1>1, <1>2, <1>3, SubSeqProperties

LEMMA RemoveAtProperties ==
    ASSUME NEW S, NEW s \in Seq(S), NEW i \in 1 .. Len(s)
    PROVE  RemoveAt(s, i) \in Seq(S) /\ Without(s, i, RemoveAt(s, i))
<1> DEFINE a == SubSeq(s, 1, i - 1)
           b == SubSeq(s, i + 1, Len(s))
<1>1. Len(s) \in Nat /\ i \in Nat
  BY LenProperties
<1>2. /\ a \in Seq(S) /\ Len(a) = i - 1
      /\ \A k \in 1 .. i - 1 : a[k] = s[k]
  <2>1. PICK m \in 1 .. Len(s) + 1 : m = 1
    BY <1>1
  <2>2. PICK n \in m - 1 .. Len(s) : n = i - 1
    BY <1>1, <2>1
  <2>3. /\ SubSeq(s, m, n) \in Seq(S) /\ Len(SubSeq(s, m, n)) = n - m + 1
        /\ \A k \in 1 .. n - m + 1 : SubSeq(s, m, n)[k] = s[m + k - 1]
    BY Part
  <2>4. n - m + 1 = i - 1 /\ \A k \in 1 .. i - 1 : m + k - 1 = k
    BY <1>1, <2>1, <2>2
  <2>5. QED
    BY <2>1, <2>2, <2>3, <2>4
<1>3. /\ b \in Seq(S) /\ Len(b) = Len(s) - i
      /\ \A k \in 1 .. Len(s) - i : b[k] = s[i + k]
  <2>1. PICK m \in 1 .. Len(s) + 1 : m = i + 1
    BY <1>1
  <2>2. PICK n \in m - 1 .. Len(s) : n = Len(s)
    BY <1>1, <2>1
  <2>3. /\ SubSeq(s, m, n) \in Seq(S) /\ Len(SubSeq(s, m, n)) = n - m + 1
        /\ \A k \in 1 .. n - m + 1 : SubSeq(s, m, n)[k] = s[m + k - 1]
    BY Part
  <2>4. n - m + 1 = Len(s) - i /\ \A k \in 1 .. Len(s) - i : m + k - 1 = i + k
    BY <1>1, <2>1, <2>2
  <2>5. QED
    BY <2>1, <2>2, <2>3, <2>4
<1> HIDE DEF a, b
<1>4. /\ a \o b \in Seq(S) /\ Len(a \o b) = Len(s) - 1
      /\ \A k \in 1 .. Len(s) - 1 : (a \o b)[k] = IF k <= i - 1 THEN a[k] ELSE b[k - (i - 1)]
  <2>1. Len(a) + Len(b) = Len(s) - 1
    BY <1>1, <1>2, <1>3
  <2>2. /\ a \o b \in Seq(S) /\ Len(a \o b) = Len(a) + Len(b)
        /\ \A k \in 1 .. Len(a) + Len(b) :
             (a \o b)[k] = IF k <= Len(a) THEN a[k] ELSE b[k - Len(a)]
    BY <1>2, <1>3, ConcatProperties
  <2>3. QED
    BY <1>2, <2>1, <2>2, Zenon
<1>5. ASSUME NEW k \in 1 .. Len(s) - 1
      PROVE  (a \o b)[k] = IF k < i THEN s[k] ELSE s[k + 1]
  <2>1. CASE k < i
    <3>1. k <= i - 1 /\ k \in 1 .. i - 1
      BY <1>1, <2>1
    <3>2. QED
      BY <1>2, <1>4, <2>1, <3>1
  <2>2. CASE ~(k < i)
    <3>1. ~(k <= i - 1) /\ k - (i - 1) \in 1 .. Len(s) - i /\ i + (k - (i - 1)) = k + 1
      BY <1>1, <2>2
    <3>2. QED
      BY <1>3, <1>4, <2>2, <3>1
  <2>3. QED
    BY <2>1, <2>2
<1>6. RemoveAt(s, i) = a \o b
  BY DEF RemoveAt, a, b
<1>7. QED
  BY <1>4, <1>5, <1>6 DEF Without

(* The queue without its first order. *)
LEMMA TailProperties ==
    ASSUME NEW S, NEW s \in Seq(S), s # <<>>
    PROVE  /\ 1 \in 1 .. Len(s) /\ Head(s) = s[1]
           /\ Tail(s) \in Seq(S) /\ Without(s, 1, Tail(s))
<1>1. /\ Head(s) = s[1] /\ Tail(s) \in Seq(S) /\ Len(Tail(s)) = Len(s) - 1
      /\ \A k \in 1 .. Len(Tail(s)) : Tail(s)[k] = s[k + 1]
  BY HeadTailProperties
<1>2. Len(s) \in Nat /\ Len(s) # 0
  BY LenProperties, EmptySeq
<1>3. QED
  BY <1>1, <1>2 DEF Without

LEMMA InsertAtProperties ==
    ASSUME NEW S, NEW s \in Seq(S), NEW i \in 1 .. Len(s) + 1, NEW e \in S
    PROVE  InsertAt(s, i, e) \in Seq(S) /\ Inserted(s, i, e, InsertAt(s, i, e))
<1> DEFINE a == SubSeq(s, 1, i - 1)
           b == SubSeq(s, i, Len(s))
           c == a \o <<e>>
<1>1. Len(s) \in Nat /\ i \in Nat
  BY LenProperties
<1>2. /\ a \in Seq(S) /\ Len(a) = i - 1
      /\ \A k \in 1 .. i - 1 : a[k] = s[k]
  <2>1. PICK m \in 1 .. Len(s) + 1 : m = 1
    BY <1>1
  <2>2. PICK n \in m - 1 .. Len(s) : n = i - 1
    BY <1>1, <2>1
  <2>3. /\ SubSeq(s, m, n) \in Seq(S) /\ Len(SubSeq(s, m, n)) = n - m + 1
        /\ \A k \in 1 .. n - m + 1 : SubSeq(s, m, n)[k] = s[m + k - 1]
    BY Part
  <2>4. n - m + 1 = i - 1 /\ \A k \in 1 .. i - 1 : m + k - 1 = k
    BY <1>1, <2>1, <2>2
  <2>5. QED
    BY <2>1, <2>2, <2>3, <2>4
<1>3. /\ b \in Seq(S) /\ Len(b) = Len(s) - i + 1
      /\ \A k \in 1 .. Len(s) - i + 1 : b[k] = s[i + k - 1]
  <2>1. PICK n \in i - 1 .. Len(s) : n = Len(s)
    BY <1>1
  <2>2. /\ SubSeq(s, i, n) \in Seq(S) /\ Len(SubSeq(s, i, n)) = n - i + 1
        /\ \A k \in 1 .. n - i + 1 : SubSeq(s, i, n)[k] = s[i + k - 1]
    BY Part
  <2>3. QED
    BY <2>1, <2>2
<1>4. <<e>> \in Seq(S) /\ Len(<<e>>) = 1 /\ <<e>>[1] = e
  OBVIOUS
<1> HIDE DEF a, b
<1>5. /\ c \in Seq(S) /\ Len(c) = i
      /\ \A k \in 1 .. i : c[k] = IF k <= i - 1 THEN a[k] ELSE <<e>>[k - (i - 1)]
  <2>1. Len(a) + Len(<<e>>) = i
    BY <1>1, <1>2, <1>4
  <2>2. /\ a \o <<e>> \in Seq(S) /\ Len(a \o <<e>>) = Len(a) + Len(<<e>>)
        /\ \A k \in 1 .. Len(a) + Len(<<e>>) :
             (a \o <<e>>)[k] = IF k <= Len(a) THEN a[k] ELSE <<e>>[k - Len(a)]
    BY <1>2, <1>4, ConcatProperties
  <2>3. QED
    BY <1>2, <2>1, <2>2, Zenon
<1>6. \A k \in 1 .. i : c[k] = IF k < i THEN s[k] ELSE e
  <2>1. ASSUME NEW k \in 1 .. i, k < i PROVE c[k] = s[k]
    <3>1. k <= i - 1 /\ k \in 1 .. i - 1
      BY <1>1, <2>1
    <3>2. QED
      BY <1>2, <1>5, <3>1
  <2>2. c[i] = e
    <3>1. i \in 1 .. i /\ ~(i <= i - 1) /\ i - (i - 1) = 1
      BY <1>1
    <3>2. QED
      BY <1>4, <1>5, <3>1
  <2>3. \A k \in 1 .. i : k < i \/ k = i
    BY <1>1
  <2>4. QED
    BY <1>1, <2>1, <2>2, <2>3
<1> HIDE DEF c
<1>7. /\ c \o b \in Seq(S) /\ Len(c \o b) = Len(s) + 1
      /\ \A k \in 1 .. Len(s) + 1 : (c \o b)[k] = IF k <= i THEN c[k] ELSE b[k - i]
  <2>1. Len(c) + Len(b) = Len(s) + 1
    BY <1>1, <1>5, <1>3
  <2>2. /\ c \o b \in Seq(S) /\ Len(c \o b) = Len(c) + Len(b)
        /\ \A k \in 1 .. Len(c) + Len(b) :
             (c \o b)[k] = IF k <= Len(c) THEN c[k] ELSE b[k - Len(c)]
    BY <1>5, <1>3, ConcatProperties
  <2>3. QED
    BY <1>5, <2>1, <2>2, Zenon
<1>8. ASSUME NEW k \in 1 .. Len(s) + 1
      PROVE  (c \o b)[k] = IF k < i THEN s[k] ELSE IF k = i THEN e ELSE s[k - 1]
  <2>1. CASE k <= i
    <3>1. k \in 1 .. i
      BY <1>1, <2>1
    <3>2. (c \o b)[k] = IF k < i THEN s[k] ELSE e
      BY <1>6, <1>7, <2>1, <3>1
    <3>3. k < i \/ k = i
      BY <1>1, <2>1
    <3>4. QED
      BY <1>1, <3>2, <3>3
  <2>2. CASE ~(k <= i)
    <3>1. ~(k < i) /\ k # i /\ k - i \in 1 .. Len(s) - i + 1 /\ i + (k - i) - 1 = k - 1
      BY <1>1, <2>2
    <3>2. QED
      BY <1>3, <1>7, <2>2, <3>1
  <2>3. QED
    BY <2>1, <2>2
<1>9. InsertAt(s, i, e) = c \o b
  BY DEF InsertAt, a, b, c
<1>10. QED
  BY <1>7, <1>8, <1>9 DEF Inserted

-----------------------------------------------------------------------------
(* The rung of a ladder that sort.Search finds.                            *)

LEMMA LeastNumber ==
    ASSUME NEW S \in SUBSET Nat, S # {}
    PROVE  \E u \in S : \A v \in S : u <= v
<1>1. IsWellFoundedOn(OpToRel(<, Nat), Nat)
  BY NatLessThanWellFounded
<1>2. PICK u \in S : \A v \in S : ~(<<v, u>> \in OpToRel(<, Nat))
  BY <1>1, WFMin
<1>3. \A v \in S : ~(v < u)
  BY <1>2 DEF OpToRel
<1>4. QED
  BY <1>3

(* Prices at or past `price' on a ladder of the given side. *)
Past(side, p, price) == IF side = "Buy" THEN p <= price ELSE p >= price

IsRung(side, l, price, i) ==
    /\ i \in DOMAIN l => Past(side, l[i], price)
    /\ \A j \in 1 .. i - 1 : ~Past(side, l[j], price)

LEMMA RungProperties ==
    ASSUME NEW side \in OrderSide, Ladder(side) \in Seq(Prices), NEW price \in Prices
    PROVE  /\ Rung(side, price) \in 1 .. Len(Ladder(side)) + 1
           /\ IsRung(side, Ladder(side), price, Rung(side, price))
<1> DEFINE l == Ladder(side)
           S == { i \in 1 .. Len(l) + 1 : i \in DOMAIN l => Past(side, l[i], price) }
<1>1. Len(l) \in Nat /\ DOMAIN l = 1 .. Len(l)
  BY LenProperties
<1>2. S \in SUBSET Nat /\ Len(l) + 1 \in S
  BY <1>1
<1>3. PICK u \in S : \A v \in S : u <= v
  BY <1>2, LeastNumber
<1>4. u \in 1 .. Len(l) + 1 /\ IsRung(side, l, price, u)
  <2>1. \A j \in 1 .. u - 1 : j \in DOMAIN l /\ j \in 1 .. Len(l) + 1 /\ ~(u <= j)
    BY <1>1
  <2>2. QED
    BY <1>3, <2>1 DEF IsRung
<1>5. Rung(side, price) = CHOOSE i \in 1 .. Len(l) + 1 : IsRung(side, l, price, i)
  BY DEF Rung, IsRung, Past
<1> HIDE DEF S
<1>6. QED
  BY <1>4, <1>5

-----------------------------------------------------------------------------
(* Ladders.                                                                *)

Sorted(side, l) == \A i, j \in 1 .. Len(l) : i < j => Better(side, l[i], l[j])

LEMMA BetterOrder ==
    ASSUME NEW side \in OrderSide, NEW p \in Prices, NEW q \in Prices
    PROVE  /\ Better(side, p, q) => ~Past(side, p, q) /\ p # q
           /\ ~Past(side, p, q) => Better(side, p, q)
           /\ Past(side, p, q) /\ p # q => Better(side, q, p)
           /\ Past(side, p, p)
           /\ \A r \in Prices : Better(side, p, q) /\ Better(side, q, r) => Better(side, p, r)
BY PricesAssumption DEF Better, Past

(* removeLevel's search hits the price it is given. *)
LEMMA RungFinds ==
    ASSUME NEW side \in OrderSide, NEW l \in Seq(Prices), Sorted(side, l),
           NEW i \in 1 .. Len(l), NEW r \in 1 .. Len(l) + 1, IsRung(side, l, l[i], r)
    PROVE  r = i
<1>1. Len(l) \in Nat /\ DOMAIN l = 1 .. Len(l) /\ \A k \in 1 .. Len(l) : l[k] \in Prices
  BY LenProperties, ElementOfSeq
<1>2. CASE r < i
  <2>1. r \in 1 .. Len(l)
    BY <1>1, <1>2
  <2>2. Better(side, l[r], l[i]) /\ Past(side, l[r], l[i])
    BY <1>1, <1>2, <2>1 DEF Sorted, IsRung
  <2>3. QED
    BY <1>1, <2>1, <2>2, BetterOrder
<1>3. CASE i < r
  <2>1. i \in 1 .. r - 1
    BY <1>1, <1>3
  <2>2. ~Past(side, l[i], l[i])
    BY <2>1 DEF IsRung
  <2>3. QED
    BY <1>1, <2>2, BetterOrder
<1>4. QED
  BY <1>1, <1>2, <1>3

(* A ladder without the rung of a level that is gone. *)
LEMMA LadderDrops ==
    ASSUME NEW side \in OrderSide, NEW l, NEW lv, LadderOf(side, l, lv),
           NEW i \in 1 .. Len(l), NEW t \in Seq(Prices), Without(l, i, t),
           NEW lv1, DOMAIN lv1 = DOMAIN lv \ {l[i]}, \A p \in DOMAIN lv1 : lv1[p] = lv[p]
    PROVE  LadderOf(side, t, lv1)
<1> DEFINE at(k) == IF k < i THEN k ELSE k + 1
<1>1. l \in Seq(Prices) /\ Sorted(side, l)
  BY DEF LadderOf, Sorted
<1>2. /\ Len(l) \in Nat /\ i \in Nat /\ Len(t) = Len(l) - 1
      /\ \A k \in 1 .. Len(l) : l[k] \in Prices
  BY <1>1, LenProperties, ElementOfSeq DEF Without
<1>3. \A k \in 1 .. Len(t) : at(k) \in 1 .. Len(l) /\ at(k) # i
  BY <1>2
<1>4. \A k, m \in 1 .. Len(t) : k < m => at(k) < at(m)
  BY <1>2
<1>5. \A k \in 1 .. Len(t) : t[k] = l[at(k)]
  BY <1>2 DEF Without
<1>6. \A k \in 1 .. Len(l) : k # i => \E m \in 1 .. Len(t) : at(m) = k
  <2>1. ASSUME NEW k \in 1 .. Len(l), k # i PROVE \E m \in 1 .. Len(t) : at(m) = k
    <3>1. CASE k < i
      BY <1>2, <3>1
    <3>2. CASE k > i
      <4>1. k - 1 \in 1 .. Len(t) /\ at(k - 1) = k
        BY <1>2, <3>2
      <4>2. QED
        BY <4>1
    <3>3. QED
      BY <1>2, <2>1, <3>1, <3>2
  <2>2. QED
    BY <2>1
<1> HIDE DEF at
<1>7. \A k \in 1 .. Len(l) : k # i => l[k] # l[i]
  <2>1. \A k \in 1 .. Len(l) : k # i => k < i \/ i < k
    BY <1>2
  <2>2. \A k \in 1 .. Len(l) : k # i => Better(side, l[k], l[i]) \/ Better(side, l[i], l[k])
    BY <1>1, <2>1 DEF Sorted
  <2>3. QED
    BY <1>2, <2>2, BetterOrder
<1>8. \A k, m \in 1 .. Len(t) : k < m => Better(side, t[k], t[m])
  BY <1>1, <1>3, <1>4, <1>5 DEF Sorted
<1>9. \A p \in DOMAIN lv1 : lv1[p].side = side => \E k \in 1 .. Len(t) : t[k] = p
  <2>1. ASSUME NEW p \in DOMAIN lv1, lv1[p].side = side
        PROVE  \E k \in 1 .. Len(t) : t[k] = p
    <3>1. PICK k \in 1 .. Len(l) : l[k] = p
      BY <2>1 DEF LadderOf
    <3>2. PICK m \in 1 .. Len(t) : at(m) = k
      BY <1>6, <3>1
    <3>3. QED
      BY <1>5, <3>1, <3>2
  <2>2. QED
    BY <2>1
<1>10. \A k \in 1 .. Len(t) : t[k] \in DOMAIN lv1 /\ lv1[t[k]].side = side
  BY <1>3, <1>5, <1>7 DEF LadderOf
<1>11. QED
  BY <1>8, <1>9, <1>10 DEF LadderOf

(* A ladder of the other side is not concerned. *)
LEMMA LadderKeeps ==
    ASSUME NEW side \in OrderSide, NEW l, NEW lv, LadderOf(side, l, lv), NEW lv1,
           \A p \in DOMAIN lv : lv[p].side = side => p \in DOMAIN lv1 /\ lv1[p].side = side,
           \A p \in DOMAIN lv1 : lv1[p].side = side => p \in DOMAIN lv /\ lv[p].side = side
    PROVE  LadderOf(side, l, lv1)
BY DEF LadderOf

(* A ladder with a rung for a new level. *)
LEMMA LadderGrows ==
    ASSUME NEW side \in OrderSide, NEW l, NEW lv, LadderOf(side, l, lv),
           NEW price \in Prices, price \notin DOMAIN lv,
           NEW r \in 1 .. Len(l) + 1, IsRung(side, l, price, r),
           NEW t \in Seq(Prices), Inserted(l, r, price, t),
           NEW lv1, DOMAIN lv1 = DOMAIN lv \cup {price}, lv1[price].side = side,
           \A p \in DOMAIN lv : lv1[p] = lv[p]
    PROVE  LadderOf(side, t, lv1)
<1> DEFINE at(k) == IF k < r THEN k ELSE k - 1
<1>1. l \in Seq(Prices) /\ Sorted(side, l)
  BY DEF LadderOf, Sorted
<1>2. /\ Len(l) \in Nat /\ r \in Nat /\ Len(t) = Len(l) + 1 /\ DOMAIN l = 1 .. Len(l)
      /\ \A k \in 1 .. Len(l) : l[k] \in Prices
  BY <1>1, LenProperties, ElementOfSeq DEF Inserted
<1>3. \A k \in 1 .. Len(t) : k # r => at(k) \in 1 .. Len(l) /\ t[k] = l[at(k)]
  BY <1>2 DEF Inserted
<1>4. \A k, m \in 1 .. Len(t) : k < m /\ k # r /\ m # r => at(k) < at(m)
  BY <1>2
<1>5. r \in 1 .. Len(t) /\ t[r] = price
  BY <1>2 DEF Inserted
<1>6. \A k \in 1 .. Len(l) : \E m \in 1 .. Len(t) : m # r /\ at(m) = k
  <2>1. ASSUME NEW k \in 1 .. Len(l) PROVE \E m \in 1 .. Len(t) : m # r /\ at(m) = k
    <3>1. CASE k < r
      BY <1>2, <3>1
    <3>2. CASE k >= r
      <4>1. k + 1 \in 1 .. Len(t) /\ at(k + 1) = k /\ k + 1 # r
        BY <1>2, <3>2
      <4>2. QED
        BY <4>1
    <3>3. QED
      BY <1>2, <3>1, <3>2
  <2>2. QED
    BY <2>1
<1>7. \A k \in 1 .. Len(t) : (k < r => at(k) < r) /\ (k > r => at(k) >= r)
  BY <1>2
<1> HIDE DEF at
<1>8. \A k \in 1 .. Len(l) : l[k] # price
  BY DEF LadderOf
<1>9. \A k \in 1 .. Len(l) : k < r => Better(side, l[k], price)
  <2>1. \A k \in 1 .. Len(l) : k < r => k \in 1 .. r - 1
    BY <1>2
  <2>2. QED
    BY <1>2, <2>1, BetterOrder DEF IsRung
<1>10. \A k \in 1 .. Len(l) : k >= r => Better(side, price, l[k])
  <2>1. ASSUME NEW k \in 1 .. Len(l), k >= r PROVE Better(side, price, l[k])
    <3>1. r \in 1 .. Len(l) /\ (k = r \/ r < k)
      BY <1>2, <2>1
    <3>2. Better(side, price, l[r])
      BY <1>2, <1>8, <3>1, BetterOrder DEF IsRung
    <3>3. r < k => Better(side, l[r], l[k])
      BY <1>1, <3>1 DEF Sorted
    <3>4. QED
      BY <1>2, <3>1, <3>2, <3>3, BetterOrder
  <2>2. QED
    BY <2>1
<1>11. ASSUME NEW k \in 1 .. Len(t), NEW m \in 1 .. Len(t), k < m
       PROVE  Better(side, t[k], t[m])
  <2>1. CASE k = r
    <3>1. m > r /\ m # r
      BY <1>2, <1>11, <2>1
    <3>2. QED
      BY <1>3, <1>5, <1>7, <1>10, <2>1, <3>1
  <2>2. CASE m = r
    <3>1. k < r /\ k # r
      BY <1>2, <1>11, <2>2
    <3>2. QED
      BY <1>3, <1>5, <1>7, <1>9, <2>2, <3>1
  <2>3. CASE k # r /\ m # r
    BY <1>1, <1>3, <1>4, <1>11, <2>3 DEF Sorted
  <2>4. QED
    BY <2>1, <2>2, <2>3
<1>12. ASSUME NEW p \in DOMAIN lv1, lv1[p].side = side
       PROVE  \E k \in 1 .. Len(t) : t[k] = p
  <2>1. CASE p = price
    BY <1>5, <2>1
  <2>2. CASE p # price
    <3>1. PICK k \in 1 .. Len(l) : l[k] = p
      BY <1>12, <2>2 DEF LadderOf
    <3>2. PICK m \in 1 .. Len(t) : m # r /\ at(m) = k
      BY <1>6, <3>1
    <3>3. QED
      BY <1>3, <3>1, <3>2
  <2>3. QED
    BY <2>1, <2>2
<1>13. \A k \in 1 .. Len(t) : t[k] \in DOMAIN lv1 /\ lv1[t[k]].side = side
  BY <1>3, <1>5 DEF LadderOf
<1>14. QED
  BY <1>11, <1>12, <1>13 DEF LadderOf

-----------------------------------------------------------------------------
(* Queues: what popping, pushing back and appending make of a level.       *)

LEMMA QueueProperties ==
    ASSUME NEW q, NEW p, NEW side, QueueOK(q, p, side)
    PROVE  /\ q \in Seq(Order) /\ Len(q) \in Nat /\ 1 \in 1 .. Len(q)
           /\ \A i \in 1 .. Len(q) : q[i] \in Order /\ q[i].id \in Nat
           /\ \A i, j \in 1 .. Len(q) : q[i].id = q[j].id => i = j
<1>1. q \in Seq(Order) /\ q # <<>>
  BY DEF QueueOK
<1>2. Len(q) \in Nat /\ Len(q) # 0 /\ \A i \in 1 .. Len(q) : q[i] \in Order
  BY <1>1, LenProperties, EmptySeq, ElementOfSeq
<1>3. \A i \in 1 .. Len(q) : q[i].id \in Nat
  BY <1>2, MaxOrderIDAssumption DEF Order, OrderIDs
<1>4. ASSUME NEW i \in 1 .. Len(q), NEW j \in 1 .. Len(q), q[i].id = q[j].id
      PROVE  i = j
  <2>1. i < j => q[i].id < q[j].id
    BY DEF QueueOK
  <2>2. j < i => q[j].id < q[i].id
    BY DEF QueueOK
  <2>3. QED
    BY <1>3, <1>4, <2>1, <2>2
<1>5. QED
  BY <1>1, <1>2, <1>3, <1>4

(* A queue without one of its orders. *)
LEMMA QueueDrops ==
    ASSUME NEW q, NEW p, NEW side, QueueOK(q, p, side), NEW i \in 1 .. Len(q),
           NEW q1 \in Seq(Order), Without(q, i, q1)
    PROVE  /\ q1 # <<>> => QueueOK(q1, p, side)
           /\ QSet(q1) = QSet(q) \ {q[i]}
<1> DEFINE at(k) == IF k < i THEN k ELSE k + 1
<1>1. /\ Len(q) \in Nat /\ \A m \in 1 .. Len(q) : q[m] \in Order
      /\ \A m, n \in 1 .. Len(q) : q[m].id = q[n].id => m = n
  BY QueueProperties
<1>2. Len(q1) = Len(q) - 1
  BY DEF Without
<1>3. \A k \in 1 .. Len(q1) : at(k) \in 1 .. Len(q) /\ at(k) # i /\ q1[k] = q[at(k)]
  BY <1>1, <1>2 DEF Without
<1>4. \A k, m \in 1 .. Len(q1) : k < m => at(k) < at(m)
  BY <1>1, <1>2
<1>5. \A k \in 1 .. Len(q) : k # i => \E m \in 1 .. Len(q1) : at(m) = k
  <2>1. ASSUME NEW k \in 1 .. Len(q), k # i PROVE \E m \in 1 .. Len(q1) : at(m) = k
    <3>1. CASE k < i
      BY <1>1, <1>2, <3>1
    <3>2. CASE k > i
      <4>1. k - 1 \in 1 .. Len(q1) /\ at(k - 1) = k
        BY <1>1, <1>2, <3>2
      <4>2. QED
        BY <4>1
    <3>3. QED
      BY <1>1, <2>1, <3>1, <3>2
  <2>2. QED
    BY <2>1
<1> HIDE DEF at
<1>6. q1 # <<>> => QueueOK(q1, p, side)
  <2>1. \A k \in 1 .. Len(q1) :
          q1[k].price = p /\ q1[k].side = side /\ q1[k].type = "Limit" /\ q1[k].qty > 0
    BY <1>3 DEF QueueOK
  <2>2. \A k, m \in 1 .. Len(q1) : k < m => q1[k].id < q1[m].id
    BY <1>3, <1>4 DEF QueueOK
  <2>3. QED
    BY <2>1, <2>2 DEF QueueOK
<1>7. QSet(q1) \subseteq QSet(q) \ {q[i]}
  BY <1>1, <1>3 DEF QSet
<1>8. QSet(q) \ {q[i]} \subseteq QSet(q1)
  BY <1>3, <1>5 DEF QSet
<1>9. QED
  BY <1>6, <1>7, <1>8

(* pushFront after popFront: the maker is first in line again, with less. *)
LEMMA QueueReduces ==
    ASSUME NEW q, NEW p, NEW side, QueueOK(q, p, side), NEW m \in Order,
           m.id = q[1].id, m.price = p, m.side = side, m.type = "Limit", m.qty > 0
    PROVE  LET q1 == Requeue(m, Tail(q))
           IN  /\ q1 \in Seq(Order) /\ q1 # <<>> /\ QueueOK(q1, p, side)
               /\ QSet(q1) = (QSet(q) \ {q[1]}) \cup {m}
<1> DEFINE r == Tail(q)
           f == <<m>>
           q1 == f \o r
<1>1. /\ q \in Seq(Order) /\ q # <<>>
      /\ Len(q) \in Nat /\ 1 \in 1 .. Len(q)
      /\ \A i \in 1 .. Len(q) : q[i] \in Order /\ q[i].id \in Nat
      /\ \A i, j \in 1 .. Len(q) : q[i].id = q[j].id => i = j
  BY QueueProperties DEF QueueOK
<1>2. r \in Seq(Order) /\ Len(r) = Len(q) - 1 /\ \A k \in 1 .. Len(r) : r[k] = q[k + 1]
  BY <1>1, HeadTailProperties
<1>3. f \in Seq(Order) /\ Len(f) = 1 /\ f[1] = m
  OBVIOUS
<1> HIDE DEF f, r
<1>4. q1 \in Seq(Order) /\ Len(q1) = Len(q)
      /\ \A k \in 1 .. Len(q) : q1[k] = IF k <= 1 THEN f[k] ELSE r[k - 1]
  <2>1. Len(f) + Len(r) = Len(q)
    BY <1>1, <1>2, <1>3
  <2>2. /\ f \o r \in Seq(Order) /\ Len(f \o r) = Len(f) + Len(r)
        /\ \A k \in 1 .. Len(f) + Len(r) :
             (f \o r)[k] = IF k <= Len(f) THEN f[k] ELSE r[k - Len(f)]
    <3>1. f \in Seq(Order) /\ r \in Seq(Order)
      BY <1>2, <1>3
    <3>2. QED
      BY <3>1, ConcatProperties
  <2>3. QED
    BY <1>3, <2>1, <2>2, Zenon
<1> HIDE DEF q1
<1>5. \A k \in 1 .. Len(q) : q1[k] = IF k = 1 THEN m ELSE q[k]
  <2>1. ASSUME NEW k \in 1 .. Len(q), k # 1 PROVE q1[k] = q[k]
    <3>1. k - 1 \in 1 .. Len(r) /\ ~(k <= 1) /\ (k - 1) + 1 = k
      BY <1>1, <1>2, <2>1
    <3>2. QED
      BY <1>2, <1>4, <3>1
  <2>2. q1[1] = m
    BY <1>1, <1>3, <1>4
  <2>3. QED
    BY <1>1, <2>1, <2>2
<1>6. q1 # <<>>
  BY <1>1, <1>4, EmptySeq
<1>7. QueueOK(q1, p, side)
  <2>1. \A k \in 1 .. Len(q1) :
          q1[k].price = p /\ q1[k].side = side /\ q1[k].type = "Limit" /\ q1[k].qty > 0
    BY <1>4, <1>5 DEF QueueOK
  <2>2. \A k \in 1 .. Len(q1) : q1[k].id = q[k].id
    BY <1>4, <1>5
  <2>3. \A k, n \in 1 .. Len(q1) : k < n => q1[k].id < q1[n].id
    BY <1>4, <2>2 DEF QueueOK
  <2>4. q1 \in Seq(Order)
    BY <1>4
  <2>5. QED
    BY <1>6, <2>1, <2>3, <2>4, Zenon DEF QueueOK
<1>8. QSet(q1) = (QSet(q) \ {q[1]}) \cup {m}
  <2>1. \A k \in 1 .. Len(q) : k # 1 => q[k] # q[1]
    BY <1>1
  <2>2. \A x : x \in QSet(q1) <=> x = m \/ \E k \in 1 .. Len(q) : k # 1 /\ x = q[k]
    BY <1>1, <1>4, <1>5 DEF QSet
  <2>3. \A x : x \in QSet(q) \ {q[1]} <=> \E k \in 1 .. Len(q) : k # 1 /\ x = q[k]
    BY <2>1 DEF QSet
  <2>4. QED
    BY <2>2, <2>3
<1>9. Requeue(m, Tail(q)) = q1
  BY DEF Requeue, f, r, q1
<1>10. QED
  BY <1>4, <1>6, <1>7, <1>8, <1>9

(* push: a later order at the back. *)
LEMMA QueueGrows ==
    ASSUME NEW q, NEW p, NEW side, QueueOK(q, p, side), NEW o \in Order,
           o.price = p, o.side = side, o.type = "Limit", o.qty > 0,
           \A i \in 1 .. Len(q) : q[i].id < o.id
    PROVE  LET q1 == Append(q, o)
           IN  /\ q1 \in Seq(Order) /\ q1 # <<>> /\ QueueOK(q1, p, side)
               /\ QSet(q1) = QSet(q) \cup {o}
<1> DEFINE q1 == Append(q, o)
<1>1. /\ q \in Seq(Order) /\ Len(q) \in Nat
      /\ \A i \in 1 .. Len(q) : q[i] \in Order
  BY QueueProperties
<1>2. /\ q1 \in Seq(Order) /\ Len(q1) = Len(q) + 1
      /\ \A i \in 1 .. Len(q) : q1[i] = q[i]
      /\ q1[Len(q) + 1] = o
  BY <1>1, AppendProperties
<1> HIDE DEF q1
<1>3. q1 # <<>>
  BY <1>1, <1>2, EmptySeq
<1>4. \A k \in 1 .. Len(q1) : k \in 1 .. Len(q) \/ k = Len(q) + 1
  BY <1>1, <1>2
<1>5. QueueOK(q1, p, side)
  <2>1. \A k \in 1 .. Len(q1) :
          q1[k].price = p /\ q1[k].side = side /\ q1[k].type = "Limit" /\ q1[k].qty > 0
    BY <1>2, <1>4 DEF QueueOK
  <2>2. ASSUME NEW k \in 1 .. Len(q1), NEW n \in 1 .. Len(q1), k < n
        PROVE  q1[k].id < q1[n].id
    <3>1. k \in 1 .. Len(q)
      BY <1>1, <1>2, <2>2
    <3>2. CASE n \in 1 .. Len(q)
      BY <1>2, <2>2, <3>1, <3>2 DEF QueueOK
    <3>3. CASE n = Len(q) + 1
      BY <1>2, <3>1, <3>3
    <3>4. QED
      BY <1>4, <3>2, <3>3
  <2>3. QED
    BY <1>2, <1>3, <2>1, <2>2 DEF QueueOK
<1>6. QSet(q1) = QSet(q) \cup {o}
  <2>1. Len(q) + 1 \in 1 .. Len(q1) /\ \A k \in 1 .. Len(q) : k \in 1 .. Len(q1)
    BY <1>1, <1>2
  <2>2. QED
    BY <1>2, <1>4, <2>1 DEF QSet
<1>7. QED
  BY <1>2, <1>3, <1>5, <1>6 DEF q1

(* The queue of a new level. *)
LEMMA QueueStarts ==
    ASSUME NEW o \in Order, NEW p, NEW side,
           o.price = p, o.side = side, o.type = "Limit", o.qty > 0
    PROVE  QueueOK(<<o>>, p, side) /\ QSet(<<o>>) = {o}
<1> DEFINE q1 == <<o>>
<1>1. q1 \in Seq(Order) /\ Len(q1) = 1 /\ q1[1] = o
  OBVIOUS
<1>2. \A k \in 1 .. Len(q1) : k = 1
  BY <1>1
<1> HIDE DEF q1
<1>3. q1 # <<>>
  <2>1. Len(<<>>) = 0
    BY EmptySeq
  <2>2. 1 # 0
    OBVIOUS
  <2>3. QED
    BY <1>1, <2>1, <2>2, Zenon
<1>4. QSet(q1) = {o}
  BY <1>1 DEF QSet
<1>5. QueueOK(q1, p, side)
  <2>1. \A k \in 1 .. Len(q1) :
          q1[k].price = p /\ q1[k].side = side /\ q1[k].type = "Limit" /\ q1[k].qty > 0
    BY <1>1, <1>2
  <2>2. \A k, n \in 1 .. Len(q1) : k < n => q1[k].id < q1[n].id
    BY <1>1
  <2>3. QED
    BY <1>1, <1>3, <2>1, <2>2 DEF QueueOK
<1>6. QED
  BY <1>4, <1>5 DEF q1

-----------------------------------------------------------------------------
(* Levels: one queue changes, or a level is added.                         *)

Level == [side : OrderSide, orders : Seq(Order)]

(* lv1 is lv with the queue q1 at price p, and no level there when q1 is
   empty. *)
Changed(lv, p, q1, lv1) ==
    /\ lv1 \in [DOMAIN lv1 -> Level]
    /\ DOMAIN lv1 = IF q1 = <<>> THEN DOMAIN lv \ {p} ELSE DOMAIN lv
    /\ \A r \in DOMAIN lv1 : r # p => lv1[r] = lv[r]
    /\ q1 # <<>> => lv1[p].side = lv[p].side /\ lv1[p].orders = q1

(* lv1 is lv with a level of one order at price p. *)
Added(lv, p, o, lv1) ==
    /\ lv1 \in [DOMAIN lv1 -> Level]
    /\ DOMAIN lv1 = DOMAIN lv \cup {p}
    /\ \A r \in DOMAIN lv : lv1[r] = lv[r]
    /\ lv1[p].side = o.side /\ lv1[p].orders = <<o>>

LEMMA QueueOrders ==
    ASSUME NEW lv, LevelsOK(lv), NEW p \in DOMAIN lv
    PROVE  /\ QueueOK(lv[p].orders, p, lv[p].side)
           /\ QSet(lv[p].orders) \subseteq OrdersOf(lv)
           /\ \A o \in QSet(lv[p].orders) : o.price = p /\ o.side = lv[p].side
           /\ \A r \in DOMAIN lv : \A o \in QSet(lv[r].orders) : r = p <=> o.price = p
<1>1. \A r \in DOMAIN lv : QueueOK(lv[r].orders, r, lv[r].side)
  BY DEF LevelsOK
<1>2. ASSUME NEW r \in DOMAIN lv, NEW o \in QSet(lv[r].orders)
      PROVE  o \in Order /\ o.price = r /\ o.side = lv[r].side
  <2>1. PICK q : q = lv[r].orders
    OBVIOUS
  <2>2. QueueOK(q, r, lv[r].side)
    BY <1>1, <2>1
  <2>3. PICK i \in 1 .. Len(q) : o = q[i]
    BY <2>1 DEF QSet
  <2>4. o \in Order
    BY <2>2, <2>3, QueueProperties
  <2>5. QED
    BY <2>2, <2>3, <2>4 DEF QueueOK
<1>3. QSet(lv[p].orders) \subseteq OrdersOf(lv)
  BY <1>2 DEF OrdersOf
<1>4. QED
  BY <1>1, <1>2, <1>3

(* What the levels hold after a queue has changed. *)
LEMMA LevelsChange ==
    ASSUME NEW lv, LevelsOK(lv), NEW p \in DOMAIN lv, NEW q1 \in Seq(Order),
           q1 # <<>> => QueueOK(q1, p, lv[p].side),
           NEW lv1, Changed(lv, p, q1, lv1)
    PROVE  /\ LevelsOK(lv1)
           /\ OrdersOf(lv1) = (OrdersOf(lv) \ QSet(lv[p].orders)) \cup QSet(q1)
<1>1. DOMAIN lv1 \subseteq DOMAIN lv /\ DOMAIN lv \subseteq Prices
  BY DEF Changed, LevelsOK
<1>2. ASSUME NEW r \in DOMAIN lv1
      PROVE  QueueOK(lv1[r].orders, r, lv1[r].side)
  <2>1. CASE r # p
    <3>1. lv1[r] = lv[r] /\ r \in DOMAIN lv
      BY <1>1, <2>1 DEF Changed
    <3>2. QED
      BY <3>1 DEF LevelsOK
  <2>2. CASE r = p
    <3>1. q1 # <<>>
      BY <2>2 DEF Changed
    <3>2. QED
      BY <2>2, <3>1 DEF Changed
  <2>3. QED
    BY <2>1, <2>2
<1>3. LevelsOK(lv1)
  BY <1>1, <1>2 DEF LevelsOK, Changed, Level
<1>4. \A r \in DOMAIN lv : \A o \in QSet(lv[r].orders) : r = p <=> o \in QSet(lv[p].orders)
  BY QueueOrders
<1>5. QSet(q1) \subseteq OrdersOf(lv1)
  <2>1. CASE q1 = <<>>
    BY <2>1 DEF QSet
  <2>2. CASE q1 # <<>>
    <3>1. p \in DOMAIN lv1 /\ lv1[p].orders = q1
      BY <2>2 DEF Changed
    <3>2. QSet(lv1[p].orders) \subseteq OrdersOf(lv1)
      BY <1>3, <3>1, QueueOrders
    <3>3. QED
      BY <3>1, <3>2
  <2>3. QED
    BY <2>1, <2>2
<1>6. ASSUME NEW r \in DOMAIN lv1
      PROVE  \/ r # p /\ lv1[r] = lv[r] /\ r \in DOMAIN lv
             \/ r = p /\ lv1[r].orders = q1
  BY <1>1 DEF Changed
<1>7. ASSUME NEW r \in DOMAIN lv, r # p
      PROVE  r \in DOMAIN lv1 /\ lv1[r] = lv[r]
  BY <1>7 DEF Changed
<1>8. OrdersOf(lv1) \subseteq (OrdersOf(lv) \ QSet(lv[p].orders)) \cup QSet(q1)
  BY <1>4, <1>6 DEF OrdersOf
<1>9. OrdersOf(lv) \ QSet(lv[p].orders) \subseteq OrdersOf(lv1)
  BY <1>7 DEF OrdersOf
<1>10. QED
  BY <1>3, <1>5, <1>8, <1>9

(* What they hold with a new level. *)
LEMMA LevelsAdd ==
    ASSUME NEW lv, LevelsOK(lv), NEW p \in Prices, p \notin DOMAIN lv, NEW o \in Order,
           o.price = p, o.type = "Limit", o.qty > 0,
           NEW lv1, Added(lv, p, o, lv1)
    PROVE  LevelsOK(lv1) /\ OrdersOf(lv1) = OrdersOf(lv) \cup {o}
<1>1. QueueOK(<<o>>, p, o.side) /\ QSet(<<o>>) = {o}
  BY QueueStarts
<1>2. /\ DOMAIN lv1 = DOMAIN lv \cup {p} /\ lv1[p].side = o.side
      /\ lv1[p].orders = <<o>> /\ lv1 \in [DOMAIN lv1 -> Level]
      /\ \A r \in DOMAIN lv : lv1[r] = lv[r]
  BY DEF Added
<1>3. \A r \in DOMAIN lv1 : QueueOK(lv1[r].orders, r, lv1[r].side)
  <2>1. QueueOK(lv1[p].orders, p, lv1[p].side)
    BY <1>1, <1>2, Zenon
  <2>2. \A r \in DOMAIN lv : QueueOK(lv1[r].orders, r, lv1[r].side)
    BY <1>2 DEF LevelsOK
  <2>3. QED
    BY <1>2, <2>1, <2>2
<1>4. DOMAIN lv1 \subseteq Prices
  BY <1>2 DEF LevelsOK
<1>5. LevelsOK(lv1)
  BY <1>2, <1>3, <1>4 DEF LevelsOK, Level
<1>6. QSet(lv1[p].orders) = {o}
  BY <1>1, <1>2, Zenon
<1>7. \A x \in Order : x \in OrdersOf(lv1) <=> x \in OrdersOf(lv) \/ x = o
  BY <1>2, <1>6 DEF OrdersOf
<1>8. OrdersOf(lv) \subseteq Order /\ OrdersOf(lv1) \subseteq Order
  BY DEF OrdersOf
<1>9. QED
  BY <1>5, <1>7, <1>8

(* An order's identifier names it. *)
LEMMA UniqueIds ==
    ASSUME NEW lv, LevelsOK(lv), NEW ix, IndexOf(OrdersOf(lv), ix)
    PROVE  \A m, n \in OrdersOf(lv) : m.id = n.id => m = n
<1>1. SUFFICES ASSUME NEW m \in OrdersOf(lv), NEW n \in OrdersOf(lv), m.id = n.id
               PROVE  m = n
  OBVIOUS
<1>2. PICK p \in DOMAIN lv : m \in QSet(lv[p].orders)
  BY DEF OrdersOf
<1>3. PICK r \in DOMAIN lv : n \in QSet(lv[r].orders)
  BY DEF OrdersOf
<1>4. m.price = p /\ n.price = r
  BY <1>2, <1>3, QueueOrders
<1>5. p = r
  BY <1>1, <1>4 DEF IndexOf
<1>6. PICK q : q = lv[p].orders
  OBVIOUS
<1>7. PICK i, j \in 1 .. Len(q) : m = q[i] /\ n = q[j]
  BY <1>2, <1>3, <1>5, <1>6 DEF QSet
<1>8. QueueOK(q, p, lv[p].side)
  BY <1>6, QueueOrders
<1>9. i = j
  BY <1>1, <1>7, <1>8, QueueProperties
<1>10. QED
  BY <1>7, <1>9

(* The index leads to exactly the orders in the levels. *)
PlaceOf(q, id) == SelectInSeq(q, LAMBDA o : o.id = id)
OrderIn(lv, ix, id) == lv[ix[id]].orders[PlaceOf(lv[ix[id]].orders, id)]
RestingOf(lv, ix) == { OrderIn(lv, ix, id) : id \in DOMAIN ix }

LEMMA PlaceProperties ==
    ASSUME NEW q \in Seq(Order), NEW id, NEW i \in 1 .. Len(q), q[i].id = id
    PROVE  PlaceOf(q, id) \in 1 .. Len(q) /\ q[PlaceOf(q, id)].id = id
<1> DEFINE I == { k \in 1 .. Len(q) : q[k].id = id }
<1>1. I \in SUBSET Nat /\ I # {}
  BY LenProperties
<1>2. \E u \in I : \A v \in I : u <= v
  BY <1>1, LeastNumber
<1>3. Min(I) \in I
  BY <1>2 DEF Min
<1>4. PlaceOf(q, id) = Min(I)
  BY <1>1 DEF PlaceOf, SelectInSeq
<1>5. QED
  BY <1>3, <1>4

LEMMA OrderInProperties ==
    ASSUME NEW lv, LevelsOK(lv), NEW ix, IndexOf(OrdersOf(lv), ix), NEW id \in DOMAIN ix
    PROVE  /\ ix[id] \in DOMAIN lv
           /\ PlaceOf(lv[ix[id]].orders, id) \in 1 .. Len(lv[ix[id]].orders)
           /\ OrderIn(lv, ix, id) \in OrdersOf(lv)
           /\ OrderIn(lv, ix, id).id = id
<1>1. PICK o \in OrdersOf(lv) : o.id = id
  BY DEF IndexOf
<1>2. PICK p \in DOMAIN lv : o \in QSet(lv[p].orders)
  BY DEF OrdersOf
<1>3. PICK q : q = lv[p].orders
  OBVIOUS
<1>4. QueueOK(q, p, lv[p].side) /\ o.price = p /\ QSet(q) \subseteq OrdersOf(lv)
  BY <1>2, <1>3, QueueOrders
<1>5. ix[id] = p
  BY <1>1, <1>4 DEF IndexOf
<1>6. PICK i \in 1 .. Len(q) : o = q[i]
  BY <1>2, <1>3 DEF QSet
<1>7. q \in Seq(Order)
  BY <1>4 DEF QueueOK
<1>8. PlaceOf(q, id) \in 1 .. Len(q) /\ q[PlaceOf(q, id)].id = id
  BY <1>1, <1>6, <1>7, PlaceProperties
<1>9. q[PlaceOf(q, id)] \in OrdersOf(lv)
  BY <1>4, <1>8 DEF QSet
<1>10. OrderIn(lv, ix, id) = q[PlaceOf(q, id)] /\ lv[ix[id]].orders = q
  BY <1>3, <1>5 DEF OrderIn
<1>11. QED
  BY <1>2, <1>5, <1>8, <1>9, <1>10

LEMMA RestingIsLevels ==
    ASSUME NEW lv, LevelsOK(lv), NEW ix, IndexOf(OrdersOf(lv), ix)
    PROVE  RestingOf(lv, ix) = OrdersOf(lv)
<1>1. RestingOf(lv, ix) \subseteq OrdersOf(lv)
  BY OrderInProperties DEF RestingOf
<1>2. ASSUME NEW o \in OrdersOf(lv)
      PROVE  o \in RestingOf(lv, ix)
  <2>1. o.id \in DOMAIN ix
    BY DEF IndexOf
  <2>2. OrderIn(lv, ix, o.id) \in OrdersOf(lv) /\ OrderIn(lv, ix, o.id).id = o.id
    BY <2>1, OrderInProperties
  <2>3. OrderIn(lv, ix, o.id) = o
    BY <2>2, UniqueIds
  <2>4. QED
    BY <2>1, <2>3 DEF RestingOf
<1>3. QED
  BY <1>1, <1>2

-----------------------------------------------------------------------------
(* The steps of the book on its levels and ladders.                        *)

LEMMA RestingNow == RestingOrders = RestingOf(levels, index)
BY DEF RestingOrders, RestingOf, OrderAt, OrderIn, Element, PlaceOf

LEMMA RestingThen == RestingOrders' = RestingOf(levels', index')
BY DEF RestingOrders, RestingOf, OrderAt, OrderIn, Element, PlaceOf, SelectInSeq

LEMMA LadderNow ==
    ASSUME LadderOf("Buy", bids, levels), LadderOf("Sell", asks, levels),
           NEW side \in OrderSide
    PROVE  /\ LadderOf(side, Ladder(side), levels)
           /\ Ladder(side) \in Seq(Prices) /\ Sorted(side, Ladder(side))
<1>1. \/ side = "Buy" /\ Ladder(side) = bids
      \/ side = "Sell" /\ Ladder(side) = asks
  BY DEF Ladder, OrderSide
<1>2. LadderOf(side, Ladder(side), levels)
  BY <1>1
<1>3. QED
  BY <1>2 DEF LadderOf, Sorted

LEMMA SetLadderStep ==
    ASSUME LadderOf("Buy", bids, levels), LadderOf("Sell", asks, levels),
           NEW side \in OrderSide, NEW t, SetLadder(side, t), LadderOf(side, t, levels'),
           \A s \in OrderSide : \A k : LadderOf(s, k, levels) /\ s # side => LadderOf(s, k, levels')
    PROVE  LadderOf("Buy", bids', levels') /\ LadderOf("Sell", asks', levels')
<1>1. "Buy" # "Sell" /\ "Buy" \in OrderSide /\ "Sell" \in OrderSide
  BY DEF OrderSide
<1>2. \/ side = "Buy" /\ bids' = t /\ asks' = asks
      \/ side = "Sell" /\ asks' = t /\ bids' = bids
  BY <1>1 DEF SetLadder, OrderSide
<1>3. QED
  BY <1>1, <1>2

(* A level keeps its place, or goes with the last of its orders. *)
LEMMA SetQueueStep ==
    ASSUME LevelsOK(levels), LadderOf("Buy", bids, levels), LadderOf("Sell", asks, levels),
           NEW side \in OrderSide, NEW p \in DOMAIN levels, levels[p].side = side,
           NEW q1 \in Seq(Order), SetQueue(side, p, q1)
    PROVE  /\ Changed(levels, p, q1, levels')
           /\ LadderOf("Buy", bids', levels') /\ LadderOf("Sell", asks', levels')
<1>1. levels \in [DOMAIN levels -> Level] /\ p \in Prices
  BY DEF LevelsOK, Level
<1>2. CASE q1 = <<>>
  <2>1. removeLevel(side, p)
    BY <1>2 DEF SetQueue
  <2>2. levels' = [r \in DOMAIN levels \ {p} |-> levels[r]]
    BY <2>1 DEF removeLevel, Restrict
  <2>3. DOMAIN levels' = DOMAIN levels \ {p} /\ \A r \in DOMAIN levels' : levels'[r] = levels[r]
    BY <2>2
  <2>4. Changed(levels, p, q1, levels')
    BY <1>1, <1>2, <2>2 DEF Changed
  <2>5. PICK l : l = Ladder(side)
    OBVIOUS
  <2>6. l \in Seq(Prices) /\ Sorted(side, l) /\ LadderOf(side, l, levels)
    BY <2>5, LadderNow
  <2>7. PICK i \in 1 .. Len(l) : l[i] = p
    BY <2>6 DEF LadderOf
  <2>8. Rung(side, p) \in 1 .. Len(l) + 1 /\ IsRung(side, l, l[i], Rung(side, p))
    BY <1>1, <2>5, <2>6, <2>7, RungProperties
  <2>9. Rung(side, p) = i
    BY <2>6, <2>8, RungFinds
  <2>10. PICK t : t = RemoveAt(l, i)
    OBVIOUS
  <2>11. t \in Seq(Prices) /\ Without(l, i, t)
    BY <2>6, <2>10, RemoveAtProperties
  <2>12. LadderOf(side, t, levels')
    BY <2>3, <2>6, <2>7, <2>11, LadderDrops
  <2>13. SetLadder(side, t)
    BY <2>1, <2>5, <2>9, <2>10 DEF removeLevel
  <2>14. \A s \in OrderSide : \A k : LadderOf(s, k, levels) /\ s # side => LadderOf(s, k, levels')
    <3>1. ASSUME NEW s \in OrderSide, NEW k, LadderOf(s, k, levels), s # side
          PROVE  LadderOf(s, k, levels')
      <4>1. \A r \in DOMAIN levels : levels[r].side = s => r \in DOMAIN levels' /\ levels'[r].side = s
        BY <2>3, <3>1
      <4>2. \A r \in DOMAIN levels' : levels'[r].side = s => r \in DOMAIN levels /\ levels[r].side = s
        BY <2>3
      <4>3. QED
        BY <3>1, <4>1, <4>2, LadderKeeps
    <3>2. QED
      BY <3>1
  <2>15. LadderOf("Buy", bids', levels') /\ LadderOf("Sell", asks', levels')
    BY <2>12, <2>13, <2>14, SetLadderStep
  <2>16. QED
    BY <2>4, <2>15
<1>3. CASE q1 # <<>>
  <2>1. levels' = [levels EXCEPT ![p].orders = q1] /\ bids' = bids /\ asks' = asks
    BY <1>3 DEF SetQueue, ladders
  <2>2. /\ DOMAIN levels' = DOMAIN levels
        /\ \A r \in DOMAIN levels : r # p => levels'[r] = levels[r]
        /\ levels'[p].side = levels[p].side /\ levels'[p].orders = q1
        /\ levels' \in [DOMAIN levels -> Level]
    BY <1>1, <2>1 DEF Level
  <2>3. Changed(levels, p, q1, levels')
    BY <1>3, <2>2 DEF Changed
  <2>4. \A r \in DOMAIN levels : levels'[r].side = levels[r].side
    BY <2>2
  <2>5. LadderOf("Buy", bids, levels') /\ LadderOf("Sell", asks, levels')
    BY <2>2, <2>4, LadderKeeps DEF OrderSide
  <2>6. QED
    BY <2>1, <2>3, <2>5
<1>4. QED
  BY <1>2, <1>3

(* getOrCreateLevel and push: the order joins the level of its price, which is
   of its side, or has one of its own. *)
LEMMA PushOrderStep ==
    ASSUME LevelsOK(levels), LadderOf("Buy", bids, levels), LadderOf("Sell", asks, levels),
           NEW o \in Order, o.price \in Prices, PushOrder(o),
           o.price \in DOMAIN levels => levels[o.price].side = o.side
    PROVE  /\ o.price \in DOMAIN levels =>
                Changed(levels, o.price, Append(levels[o.price].orders, o), levels')
           /\ o.price \notin DOMAIN levels => Added(levels, o.price, o, levels')
           /\ LadderOf("Buy", bids', levels') /\ LadderOf("Sell", asks', levels')
<1> DEFINE p == o.price
<1>1. levels \in [DOMAIN levels -> Level] /\ p \in Prices /\ o.side \in OrderSide
  BY DEF LevelsOK, Level, Order
<1>2. CASE p \in DOMAIN levels
  <2>1. PICK q1 : q1 = Append(levels[p].orders, o)
    OBVIOUS
  <2>2. levels[p].orders \in Seq(Order)
    BY <1>1, <1>2 DEF Level
  <2>3. q1 \in Seq(Order) /\ q1 # <<>>
    BY <2>1, <2>2, AppendProperties
  <2>4. levels' = [levels EXCEPT ![p].orders = q1] /\ bids' = bids /\ asks' = asks
    BY <1>2, <2>1 DEF PushOrder, ladders
  <2>5. SetQueue(o.side, p, q1)
    BY <2>3, <2>4 DEF SetQueue, ladders
  <2>6. /\ Changed(levels, p, q1, levels')
        /\ LadderOf("Buy", bids', levels') /\ LadderOf("Sell", asks', levels')
    BY <1>1, <1>2, <2>3, <2>5, SetQueueStep
  <2>7. QED
    BY <1>2, <2>1, <2>6
<1>3. CASE p \notin DOMAIN levels
  <2>1. PICK side \in OrderSide : side = o.side
    BY <1>1
  <2>2. PICK l : l = Ladder(side)
    OBVIOUS
  <2>3. PICK r : r = Rung(side, p)
    OBVIOUS
  <2>4. l \in Seq(Prices) /\ LadderOf(side, l, levels)
    BY <2>2, LadderNow
  <2>5. r \in 1 .. Len(l) + 1 /\ IsRung(side, l, p, r)
    BY <1>1, <2>2, <2>3, <2>4, RungProperties
  <2>6. PICK t : t = InsertAt(l, r, p)
    OBVIOUS
  <2>7. t \in Seq(Prices) /\ Inserted(l, r, p, t)
    BY <1>1, <2>4, <2>5, <2>6, InsertAtProperties
  <2>8. PICK v : v = [side |-> o.side, orders |-> <<o>>]
    OBVIOUS
  <2>9. v \in Level /\ v.side = side /\ v.orders = <<o>>
    BY <2>1, <2>8 DEF Level
  <2>10. levels' = Assign(levels, p, v) /\ SetLadder(side, t)
    BY <1>3, <2>1, <2>2, <2>3, <2>6, <2>8 DEF PushOrder
  <2>11. /\ DOMAIN levels' = DOMAIN levels \cup {p}
         /\ levels' \in [DOMAIN levels' -> Level]
         /\ \A x \in DOMAIN levels : levels'[x] = levels[x]
         /\ levels'[p] = v
    BY <1>1, <1>3, <2>9, <2>10 DEF Assign
  <2>12. Added(levels, p, o, levels')
    BY <2>1, <2>9, <2>11 DEF Added
  <2>13. LadderOf(side, t, levels')
    BY <1>1, <1>3, <2>4, <2>5, <2>7, <2>9, <2>11, LadderGrows
  <2>14. \A s \in OrderSide : \A k : LadderOf(s, k, levels) /\ s # side => LadderOf(s, k, levels')
    <3>1. ASSUME NEW s \in OrderSide, NEW k, LadderOf(s, k, levels), s # side
          PROVE  LadderOf(s, k, levels')
      <4>1. \A x \in DOMAIN levels : levels[x].side = s => x \in DOMAIN levels' /\ levels'[x].side = s
        BY <2>11
      <4>2. \A x \in DOMAIN levels' : levels'[x].side = s => x \in DOMAIN levels /\ levels[x].side = s
        BY <2>9, <2>11, <3>1
      <4>3. QED
        BY <3>1, <4>1, <4>2, LadderKeeps
    <3>2. QED
      BY <3>1
  <2>15. LadderOf("Buy", bids', levels') /\ LadderOf("Sell", asks', levels')
    BY <2>10, <2>13, <2>14, SetLadderStep
  <2>16. QED
    BY <1>3, <2>12, <2>15
<1>4. QED
  BY <1>2, <1>3

-----------------------------------------------------------------------------
(* The index.                                                              *)

LEMMA IndexDrops ==
    ASSUME NEW os, NEW ix, IndexOf(os, ix), \A m, n \in os : m.id = n.id => m = n,
           NEW o \in os
    PROVE  IndexOf(os \ {o}, Restrict(ix, DOMAIN ix \ {o.id}))
<1> DEFINE ix1 == Restrict(ix, DOMAIN ix \ {o.id})
<1>1. DOMAIN ix1 = DOMAIN ix \ {o.id} /\ \A k \in DOMAIN ix1 : ix1[k] = ix[k]
  BY DEF Restrict
<1>2. ix1 \in [DOMAIN ix1 -> Prices] /\ DOMAIN ix1 \subseteq OrderIDs
  BY DEF Restrict, IndexOf
<1> HIDE DEF ix1
<1>3. \A m \in os \ {o} : m.id \in DOMAIN ix1 /\ ix1[m.id] = m.price
  BY <1>1 DEF IndexOf
<1>4. \A id \in DOMAIN ix1 : \E m \in os \ {o} : m.id = id
  BY <1>1 DEF IndexOf
<1>5. IndexOf(os \ {o}, ix1)
  BY <1>2, <1>3, <1>4 DEF IndexOf
<1>6. QED
  BY <1>5 DEF ix1

(* The maker that is pushed back has its entry again. *)
LEMMA IndexSwaps ==
    ASSUME NEW os, NEW ix, IndexOf(os, ix), NEW o \in os, NEW m,
           m.id = o.id, m.price = o.price
    PROVE  IndexOf((os \ {o}) \cup {m},
                   Assign(Restrict(ix, DOMAIN ix \ {o.id}), o.id, o.price))
<1> DEFINE ix1 == Assign(Restrict(ix, DOMAIN ix \ {o.id}), o.id, o.price)
<1>1. o.id \in DOMAIN ix /\ ix[o.id] = o.price
  BY DEF IndexOf
<1>2. DOMAIN ix1 = DOMAIN ix /\ \A k \in DOMAIN ix : ix1[k] = ix[k]
  BY <1>1 DEF Restrict, Assign
<1>3. ix \in [DOMAIN ix -> Prices] /\ DOMAIN ix \subseteq OrderIDs
  BY DEF IndexOf
<1>4. ix1 \in [DOMAIN ix1 -> Prices]
  BY <1>1, <1>2, <1>3 DEF Restrict, Assign
<1> HIDE DEF ix1
<1>5. \A n \in (os \ {o}) \cup {m} : n.id \in DOMAIN ix1 /\ ix1[n.id] = n.price
  BY <1>1, <1>2 DEF IndexOf
<1>6. \A id \in DOMAIN ix1 : \E n \in (os \ {o}) \cup {m} : n.id = id
  BY <1>2 DEF IndexOf
<1>7. IndexOf((os \ {o}) \cup {m}, ix1)
  BY <1>2, <1>3, <1>4, <1>5, <1>6 DEF IndexOf
<1>8. QED
  BY <1>7 DEF ix1

LEMMA IndexGrows ==
    ASSUME NEW os, NEW ix, IndexOf(os, ix), NEW o \in Order, o.price \in Prices,
           \A m \in os : m.id # o.id
    PROVE  IndexOf(os \cup {o}, Assign(ix, o.id, o.price))
<1> DEFINE ix1 == Assign(ix, o.id, o.price)
<1>1. DOMAIN ix1 = DOMAIN ix \cup {o.id} /\ ix1[o.id] = o.price
      /\ \A k \in DOMAIN ix : k # o.id => ix1[k] = ix[k]
  BY DEF Assign
<1>2. ix \in [DOMAIN ix -> Prices] /\ DOMAIN ix \subseteq OrderIDs /\ o.id \in OrderIDs
  BY DEF IndexOf, Order
<1>3. ix1 \in [DOMAIN ix1 -> Prices] /\ DOMAIN ix1 \subseteq OrderIDs
  BY <1>1, <1>2 DEF Assign
<1> HIDE DEF ix1
<1>4. \A n \in os \cup {o} : n.id \in DOMAIN ix1 /\ ix1[n.id] = n.price
  BY <1>1 DEF IndexOf
<1>5. \A id \in DOMAIN ix1 : \E n \in os \cup {o} : n.id = id
  BY <1>1 DEF IndexOf
<1>6. IndexOf(os \cup {o}, ix1)
  BY <1>3, <1>4, <1>5 DEF IndexOf
<1>7. QED
  BY <1>6 DEF ix1

-----------------------------------------------------------------------------
(* What the invariant says of the resting orders.                          *)

LEMMA RestingFacts ==
    ASSUME StructOK
    PROVE  /\ RestingOrders = OrdersOf(levels)
           /\ \A m, n \in RestingOrders : m.id = n.id => m = n
<1>1. LevelsOK(levels) /\ IndexOf(OrdersOf(levels), index)
  BY DEF StructOK
<1>2. RestingOf(levels, index) = OrdersOf(levels)
  BY <1>1, RestingIsLevels
<1>3. QED
  BY <1>1, <1>2, RestingNow, UniqueIds

LEMMA RestingFactsThen ==
    ASSUME LevelsOK(levels'), IndexOf(OrdersOf(levels'), index')
    PROVE  RestingOrders' = OrdersOf(levels')
<1>1. PICK lv, ix : lv = levels' /\ ix = index'
  OBVIOUS
<1>2. RestingOf(lv, ix) = OrdersOf(lv)
  BY <1>1, RestingIsLevels
<1>3. QED
  BY <1>1, <1>2, RestingThen

LEMMA TakerFacts ==
    ASSUME AB!Inv
    PROVE  /\ taker \in Order \cup {NoOrder} /\ nextTradeID \in Nat /\ maxOrderID \in Nat
           /\ res \in MatchResult
           /\ taker # NoOrder /\ taker.type = "Limit" => taker.price \in Prices
           /\ taker.id <= maxOrderID
<1>1. AB!Order = Order /\ AB!NoOrder = NoOrder
  BY DEF AB!Order, AB!OrderIDs, AB!OrderSide, AB!OrderType, AB!Placers, AB!NoOrder,
         Order, OrderIDs, OrderSide, OrderType, Placers, NoOrder
<1>2. AB!MatchResult = MatchResult
  BY DEF AB!MatchResult, AB!Trade, AB!OrderIDs, AB!OrderSide, AB!Placers,
         MatchResult, Trade, OrderIDs, OrderSide, Placers
<1>3. QED
  BY <1>1, <1>2 DEF AB!Inv, AB!TypeOK, AB!UniqueOrders, AB!TakerIsPriced

LEMMA OrdersFacts ==
    ASSUME AB!Inv
    PROVE  /\ \A m \in RestingOrders :
                /\ m \in Order /\ m.id <= maxOrderID /\ m.id # taker.id
                /\ m.qty > 0 /\ m.type = "Limit" /\ m.price \in Prices
           /\ \A b, s \in RestingOrders :
                b.side = "Buy" /\ s.side = "Sell" => b.price < s.price
<1>1. AB!Order = Order
  BY DEF AB!Order, AB!OrderIDs, AB!OrderSide, AB!OrderType, AB!Placers,
         Order, OrderIDs, OrderSide, OrderType, Placers
<1>2. QED
  BY <1>1 DEF AB!Inv, AB!TypeOK, AB!UniqueOrders, AB!RestingIsLive, AB!Uncrossed

(* The abstract invariant is inherited from module BookSpecProofs. *)
LEMMA AbstractStep == AB!Inv /\ [AB!Next]_AB!vars => AB!Inv'
BY AB!NextInv, MaxOrderIDAssumption, QuantitiesAssumption, PricesAssumption,
   NoAccountAssumption

(* An order leaves the book: popped, or removed by a cancel. *)
LEMMA DropStep ==
    ASSUME StructOK, NEW p \in DOMAIN levels, NEW i \in 1 .. Len(levels[p].orders),
           NEW q1 \in Seq(Order), Without(levels[p].orders, i, q1),
           SetQueue(levels[p].side, p, q1),
           index' = Indexed(DOMAIN index \ {levels[p].orders[i].id})
    PROVE  StructOK' /\ RestingOrders' = RestingOrders \ {levels[p].orders[i]}
<1>1. /\ LevelsOK(levels) /\ IndexOf(OrdersOf(levels), index)
      /\ LadderOf("Buy", bids, levels) /\ LadderOf("Sell", asks, levels)
  BY DEF StructOK
<1>2. PICK q : q = levels[p].orders
  OBVIOUS
<1>3. PICK o : o = q[i]
  OBVIOUS
<1>4. QueueOK(q, p, levels[p].side) /\ QSet(q) \subseteq OrdersOf(levels)
  BY <1>1, <1>2, QueueOrders
<1>5. levels[p].side \in OrderSide
  BY <1>1 DEF LevelsOK
<1>6. /\ Changed(levels, p, q1, levels')
      /\ LadderOf("Buy", bids', levels') /\ LadderOf("Sell", asks', levels')
  BY <1>1, <1>5, SetQueueStep
<1>7. (q1 # <<>> => QueueOK(q1, p, levels[p].side)) /\ QSet(q1) = QSet(q) \ {o}
  BY <1>2, <1>3, <1>4, QueueDrops
<1>8. /\ LevelsOK(levels')
      /\ OrdersOf(levels') = (OrdersOf(levels) \ QSet(levels[p].orders)) \cup QSet(q1)
  BY <1>1, <1>6, <1>7, LevelsChange
<1>9. o \in QSet(q)
  BY <1>2, <1>3 DEF QSet
<1>10. OrdersOf(levels') = OrdersOf(levels) \ {o}
  BY <1>2, <1>4, <1>7, <1>8, <1>9
<1>11. \A m, n \in OrdersOf(levels) : m.id = n.id => m = n
  BY <1>1, UniqueIds
<1>12. IndexOf(OrdersOf(levels) \ {o}, Restrict(index, DOMAIN index \ {o.id}))
  BY <1>1, <1>4, <1>9, <1>11, IndexDrops
<1>13. index' = Restrict(index, DOMAIN index \ {o.id})
  BY <1>2, <1>3 DEF Indexed
<1>14. IndexOf(OrdersOf(levels'), index')
  BY <1>10, <1>12, <1>13
<1>15. RestingOrders' = OrdersOf(levels')
  BY <1>8, <1>14, RestingFactsThen
<1>16. QED
  BY <1>2, <1>3, <1>6, <1>8, <1>10, <1>14, <1>15, RestingFacts DEF StructOK

(* The first order of a queue is back with less. *)
LEMMA ReduceStep ==
    ASSUME StructOK, NEW p \in DOMAIN levels, NEW q, q = levels[p].orders,
           NEW m \in Order, m.id = q[1].id, m.price = p, m.side = levels[p].side,
           m.type = "Limit", m.qty > 0,
           SetQueue(levels[p].side, p, Requeue(m, Tail(q))),
           index' = Assign(Indexed(DOMAIN index \ {q[1].id}), q[1].id, p)
    PROVE  StructOK' /\ RestingOrders' = (RestingOrders \ {q[1]}) \cup {m}
<1>1. /\ LevelsOK(levels) /\ IndexOf(OrdersOf(levels), index)
      /\ LadderOf("Buy", bids, levels) /\ LadderOf("Sell", asks, levels)
  BY DEF StructOK
<1>2. PICK o : o = q[1]
  OBVIOUS
<1>3. /\ QueueOK(q, p, levels[p].side) /\ QSet(q) \subseteq OrdersOf(levels)
      /\ \A x \in QSet(q) : x.price = p
  BY <1>1, QueueOrders
<1>4. levels[p].side \in OrderSide
  BY <1>1 DEF LevelsOK
<1>5. PICK q1 : q1 = Requeue(m, Tail(q))
  OBVIOUS
<1>6. /\ q1 \in Seq(Order) /\ q1 # <<>> /\ QueueOK(q1, p, levels[p].side)
      /\ QSet(q1) = (QSet(q) \ {o}) \cup {m}
  BY <1>2, <1>3, <1>5, QueueReduces
<1>7. /\ Changed(levels, p, q1, levels')
      /\ LadderOf("Buy", bids', levels') /\ LadderOf("Sell", asks', levels')
  BY <1>1, <1>4, <1>5, <1>6, SetQueueStep
<1>8. /\ LevelsOK(levels')
      /\ OrdersOf(levels') = (OrdersOf(levels) \ QSet(levels[p].orders)) \cup QSet(q1)
  BY <1>1, <1>6, <1>7, LevelsChange
<1>9. o \in QSet(q) /\ o.price = p
  <2>1. 1 \in 1 .. Len(q)
    BY <1>3, QueueProperties
  <2>2. QED
    BY <1>2, <1>3, <2>1 DEF QSet
<1>10. OrdersOf(levels') = (OrdersOf(levels) \ {o}) \cup {m}
  BY <1>3, <1>6, <1>8, <1>9
<1>11. IndexOf((OrdersOf(levels) \ {o}) \cup {m},
               Assign(Restrict(index, DOMAIN index \ {o.id}), o.id, o.price))
  <2>1. o \in OrdersOf(levels) /\ m.id = o.id /\ m.price = o.price
    BY <1>2, <1>3, <1>9
  <2>2. QED
    BY <1>1, <2>1, IndexSwaps
<1>12. index' = Assign(Restrict(index, DOMAIN index \ {o.id}), o.id, o.price)
  BY <1>2, <1>9 DEF Indexed
<1>13. IndexOf(OrdersOf(levels'), index')
  BY <1>10, <1>11, <1>12
<1>14. RestingOrders' = OrdersOf(levels')
  BY <1>8, <1>13, RestingFactsThen
<1>15. QED
  BY <1>2, <1>7, <1>8, <1>10, <1>13, <1>14, RestingFacts DEF StructOK

(* An order later than all of the book rests. *)
LEMMA PushStep ==
    ASSUME StructOK, NEW o \in Order, o.price \in Prices, o.type = "Limit", o.qty > 0,
           \A m \in RestingOrders : m.id < o.id,
           \A m \in RestingOrders : m.price = o.price => m.side = o.side,
           PushOrder(o), index' = Assign(index, o.id, o.price)
    PROVE  StructOK' /\ RestingOrders' = RestingOrders \cup {o}
<1>1. /\ LevelsOK(levels) /\ IndexOf(OrdersOf(levels), index)
      /\ LadderOf("Buy", bids, levels) /\ LadderOf("Sell", asks, levels)
      /\ RestingOrders = OrdersOf(levels)
  BY RestingFacts DEF StructOK
<1>2. PICK p \in Prices : p = o.price
  OBVIOUS
<1>3. ASSUME p \in DOMAIN levels
      PROVE  /\ levels[p].side = o.side
             /\ QueueOK(levels[p].orders, p, levels[p].side)
             /\ QSet(levels[p].orders) \subseteq OrdersOf(levels)
             /\ \A i \in 1 .. Len(levels[p].orders) : levels[p].orders[i].id < o.id
  <2>1. PICK q : q = levels[p].orders
    OBVIOUS
  <2>2. /\ QueueOK(q, p, levels[p].side) /\ QSet(q) \subseteq OrdersOf(levels)
        /\ \A x \in QSet(q) : x.price = p /\ x.side = levels[p].side
    BY <1>1, <1>3, <2>1, QueueOrders
  <2>3. 1 \in 1 .. Len(q)
    BY <2>2, QueueProperties
  <2>4. \A i \in 1 .. Len(q) : q[i] \in QSet(q)
    BY DEF QSet
  <2>5. levels[p].side = o.side
    BY <1>1, <1>2, <2>2, <2>3, <2>4
  <2>6. \A i \in 1 .. Len(q) : q[i].id < o.id
    BY <1>1, <2>2, <2>4
  <2>7. QED
    BY <2>1, <2>2, <2>5, <2>6
<1>4. /\ p \in DOMAIN levels => Changed(levels, p, Append(levels[p].orders, o), levels')
      /\ p \notin DOMAIN levels => Added(levels, p, o, levels')
      /\ LadderOf("Buy", bids', levels') /\ LadderOf("Sell", asks', levels')
  BY <1>1, <1>2, <1>3, PushOrderStep
<1>5. LevelsOK(levels') /\ OrdersOf(levels') = OrdersOf(levels) \cup {o}
  <2>1. CASE p \in DOMAIN levels
    <3>1. PICK q : q = levels[p].orders
      OBVIOUS
    <3>2. PICK q1 : q1 = Append(q, o)
      OBVIOUS
    <3>3. QueueOK(q, p, o.side) /\ \A i \in 1 .. Len(q) : q[i].id < o.id
      BY <1>3, <2>1, <3>1
    <3>4. /\ q1 \in Seq(Order) /\ q1 # <<>> /\ QueueOK(q1, p, o.side)
          /\ QSet(q1) = QSet(q) \cup {o}
      BY <1>2, <3>2, <3>3, QueueGrows
    <3>5. /\ LevelsOK(levels')
          /\ OrdersOf(levels') = (OrdersOf(levels) \ QSet(levels[p].orders)) \cup QSet(q1)
      <4>1. QueueOK(q1, p, levels[p].side) /\ Changed(levels, p, q1, levels')
        BY <1>3, <1>4, <2>1, <3>1, <3>2, <3>4
      <4>2. QED
        BY <1>1, <2>1, <3>4, <4>1, LevelsChange
    <3>6. QED
      BY <1>3, <2>1, <3>1, <3>4, <3>5
  <2>2. CASE p \notin DOMAIN levels
    BY <1>1, <1>2, <1>4, <2>2, LevelsAdd
  <2>3. QED
    BY <2>1, <2>2
<1>6. IndexOf(OrdersOf(levels) \cup {o}, Assign(index, o.id, o.price))
  <2>1. \A m \in OrdersOf(levels) : m.id # o.id
    <3>1. \A m \in OrdersOf(levels) : m.id < o.id /\ m.id \in Nat /\ o.id \in Nat
      BY <1>1, MaxOrderIDAssumption DEF OrdersOf, Order, OrderIDs
    <3>2. QED
      BY <3>1
  <2>2. QED
    BY <1>1, <2>1, IndexGrows
<1>7. IndexOf(OrdersOf(levels'), index')
  BY <1>5, <1>6
<1>8. RestingOrders' = OrdersOf(levels')
  BY <1>5, <1>7, RestingFactsThen
<1>9. QED
  BY <1>1, <1>4, <1>5, <1>7, <1>8 DEF StructOK

-----------------------------------------------------------------------------
(* Every step of the book is a step of the abstract book.                  *)

(* The two vocabularies of orders are one. *)
LEMMA Vocabulary ==
    /\ AB!NoOrder = NoOrder /\ AB!NoResult = NoResult /\ AB!Refused = Refused
    /\ AB!OrderIDs = OrderIDs /\ AB!Placers = Placers
    /\ \A id : AB!NewOrders(id) = NewOrders(id)
    /\ \A side : AB!Opposite(side) = Opposite(side)
    /\ \A t, m : AB!selfMatch(t, m) <=> selfMatch(t, m)
    /\ \A t, p : AB!Acceptable(t, p) <=> Acceptable(t, p)
    /\ \A m, n : AB!Lesser(m, n) = Lesser(m, n)
    /\ \A i, t, m, p, n : AB!Execution(i, t, m, p, n) = Execution(i, t, m, p, n)
BY DEF AB!NoOrder, AB!NoResult, AB!Refused, AB!OrderIDs, AB!Placers, AB!NewOrders,
       AB!Opposite, AB!selfMatch, AB!Acceptable, AB!Lesser, AB!Execution, AB!OrderSide,
       AB!OrderType, NoOrder, NoResult, Refused, OrderIDs, Placers, NewOrders,
       Opposite, selfMatch, Acceptable, Lesser, Execution, OrderSide, OrderType

(* The first order of the first rung is the one price-time priority names. *)
LEMMA HeadIsBest ==
    ASSUME StructOK, taker \in Order, NEW side \in OrderSide, Matching(side)
    PROVE  LET price == Head(Ladder(side))
               q     == levels[price].orders
           IN  /\ price \in DOMAIN levels /\ levels[price].side = side
               /\ 1 \in 1 .. Len(q) /\ Head(q) = q[1]
               /\ Tail(q) \in Seq(Order) /\ Without(q, 1, Tail(q))
               /\ q[1] \in RestingOrders /\ q[1].price = price /\ q[1].side = side
               /\ AB!BestMaker(q[1])
<1>1. PICK l : l = Ladder(side)
  OBVIOUS
<1>2. LevelsOK(levels) /\ LadderOf(side, l, levels) /\ l \in Seq(Prices) /\ Sorted(side, l)
  BY <1>1, LadderNow DEF StructOK
<1>3. /\ taker.side = Opposite(side) /\ l # <<>> /\ Acceptable(taker, Head(l))
  BY <1>1 DEF Matching
<1>4. PICK price : price = Head(l)
  OBVIOUS
<1>5. 1 \in 1 .. Len(l) /\ price = l[1]
  BY <1>2, <1>3, <1>4, TailProperties
<1>6. price \in DOMAIN levels /\ levels[price].side = side
  BY <1>2, <1>5 DEF LadderOf
<1>7. PICK q : q = levels[price].orders
  OBVIOUS
<1>8. /\ QueueOK(q, price, side) /\ QSet(q) \subseteq OrdersOf(levels)
  BY <1>2, <1>6, <1>7, QueueOrders
<1>9. q \in Seq(Order) /\ q # <<>>
  BY <1>8 DEF QueueOK
<1>10. /\ 1 \in 1 .. Len(q) /\ Head(q) = q[1]
       /\ Tail(q) \in Seq(Order) /\ Without(q, 1, Tail(q))
  BY <1>9, TailProperties
<1>11. q[1] \in RestingOrders /\ q[1].price = price /\ q[1].side = side
  BY <1>8, <1>10, RestingFacts DEF QSet, QueueOK
<1>12. Opposite(taker.side) = side
  BY <1>3 DEF Opposite, OrderSide
<1>13. ASSUME NEW n \in RestingOrders, n.side = side, n # q[1]
       PROVE  \/ Better(side, q[1].price, n.price)
              \/ q[1].price = n.price /\ q[1].id < n.id
  <2>1. PICK r \in DOMAIN levels : n \in QSet(levels[r].orders)
    BY RestingFacts DEF OrdersOf
  <2>2. n.price = r /\ levels[r].side = side
    BY <1>2, <1>13, <2>1, QueueOrders
  <2>3. PICK j \in 1 .. Len(l) : l[j] = r
    BY <1>2, <2>2 DEF LadderOf
  <2>4. CASE j = 1
    <3>1. r = price /\ n \in QSet(q)
      BY <1>5, <1>7, <2>1, <2>3, <2>4
    <3>2. PICK k \in 1 .. Len(q) : n = q[k]
      BY <3>1 DEF QSet
    <3>3. k # 1
      BY <1>13, <3>2
    <3>4. 1 < k
      BY <1>9, <3>3, LenProperties
    <3>5. q[1].id < q[k].id
      BY <1>8, <1>10, <3>4 DEF QueueOK
    <3>6. QED
      BY <1>11, <2>2, <3>1, <3>2, <3>5
  <2>5. CASE j # 1
    <3>1. 1 < j
      BY <1>2, <2>5, LenProperties
    <3>2. Better(side, l[1], l[j])
      BY <1>2, <1>5, <3>1 DEF Sorted
    <3>3. QED
      BY <1>5, <1>11, <2>2, <2>3, <3>2
  <2>6. QED
    BY <2>4, <2>5
<1>14. AB!BestMaker(q[1])
  <2>1. q[1] \in AB!Matchable
    BY <1>3, <1>4, <1>11, <1>12, Vocabulary DEF AB!Matchable
  <2>2. ASSUME NEW n \in AB!Matchable \ {q[1]}
        PROVE  AB!Ahead(q[1], n)
    <3>1. n \in RestingOrders /\ n.side = side /\ n # q[1]
      BY <1>12, Vocabulary DEF AB!Matchable
    <3>2. \/ Better(side, q[1].price, n.price)
          \/ q[1].price = n.price /\ q[1].id < n.id
      BY <1>13, <3>1
    <3>3. QED
      BY <1>11, <3>2 DEF AB!Ahead, Better, OrderSide
  <2>3. QED
    BY <2>1, <2>2 DEF AB!BestMaker
<1>15. QED
  BY <1>1, <1>4, <1>6, <1>7, <1>10, <1>11, <1>14

LEMMA SubmitStep ==
    ASSUME BInv, NEW id \in OrderIDs, id > maxOrderID, NEW o \in NewOrders(id), SubmitOrder(o)
    PROVE  StructOK' /\ AB!Next
<1>1. /\ taker = NoOrder /\ taker' = o /\ res' = NoResult
      /\ maxOrderID' = IF o.id > maxOrderID THEN o.id ELSE maxOrderID
      /\ bids' = bids /\ asks' = asks /\ levels' = levels /\ index' = index
      /\ nextTradeID' = nextTradeID
  BY DEF SubmitOrder
<1>2. StructOK'
  BY <1>1 DEF BInv, StructOK
<1>3. RestingOrders' = RestingOrders
  BY <1>1, RestingNow, RestingThen
<1>4. AB!Submit(o)
  BY <1>1, <1>3, Vocabulary DEF AB!Submit
<1>5. QED
  BY <1>2, <1>4, Vocabulary DEF AB!Next

LEMMA RefuseStep ==
    ASSUME BInv, RefuseUnknown
    PROVE  StructOK' /\ AB!Next
<1>1. /\ taker = NoOrder /\ res' = Refused
      /\ UNCHANGED <<bids, asks, levels, index, nextTradeID, maxOrderID, taker>>
  BY DEF RefuseUnknown
<1>2. StructOK'
  BY <1>1 DEF BInv, StructOK
<1>3. RestingOrders' = RestingOrders
  BY <1>1, RestingNow, RestingThen
<1>4. AB!Refuse
  BY <1>1, <1>3, Vocabulary DEF AB!Refuse
<1>5. QED
  BY <1>2, <1>4 DEF AB!Next

LEMMA MatchSelfStep ==
    ASSUME BInv, NEW side \in OrderSide, MatchSelf(side)
    PROVE  StructOK' /\ AB!Next
<1>1. PICK price : price = Head(Ladder(side))
  OBVIOUS
<1>2. PICK q : q = levels[price].orders
  OBVIOUS
<1>3. PICK maker : maker = Head(q)
  OBVIOUS
<1>4. /\ Matching(side) /\ selfMatch(taker, maker)
      /\ SetQueue(side, price, Tail(q))
      /\ index' = Indexed(DOMAIN index \ {maker.id})
      /\ res' = [res EXCEPT !.selfPrevented = Append(@, maker.id)]
      /\ UNCHANGED <<nextTradeID, maxOrderID, taker>>
  BY <1>1, <1>2, <1>3 DEF MatchSelf
<1>5. StructOK /\ taker \in Order /\ taker # NoOrder /\ taker.qty > 0
  BY <1>4, TakerFacts DEF BInv, Matching
<1>6. /\ price \in DOMAIN levels /\ levels[price].side = side
      /\ 1 \in 1 .. Len(q) /\ maker = q[1]
      /\ Tail(q) \in Seq(Order) /\ Without(q, 1, Tail(q))
      /\ maker \in RestingOrders /\ AB!BestMaker(maker)
  BY <1>1, <1>2, <1>3, <1>4, <1>5, HeadIsBest
<1>7. StructOK' /\ RestingOrders' = RestingOrders \ {maker}
  BY <1>2, <1>4, <1>5, <1>6, DropStep
<1>8. AB!PreventSelf(maker)
  BY <1>4, <1>5, <1>6, <1>7, Vocabulary DEF AB!PreventSelf
<1>9. QED
  BY <1>6, <1>7, <1>8 DEF AB!Next

LEMMA MatchTradeStep ==
    ASSUME BInv, NEW side \in OrderSide, MatchTrade(side)
    PROVE  StructOK' /\ AB!Next
<1>1. PICK price : price = Head(Ladder(side))
  OBVIOUS
<1>2. PICK q : q = levels[price].orders
  OBVIOUS
<1>3. PICK maker : maker = Head(q)
  OBVIOUS
<1>4. PICK fill : fill = Lesser(taker.qty, maker.qty)
  OBVIOUS
<1>5. PICK left : left = [maker EXCEPT !.qty = @ - fill]
  OBVIOUS
<1>6. /\ Matching(side) /\ ~selfMatch(taker, maker)
      /\ nextTradeID' = nextTradeID + 1
      /\ res' = [res EXCEPT !.trades =
                   Append(@, Execution(nextTradeID + 1, taker, maker, price, fill))]
      /\ taker' = [taker EXCEPT !.qty = @ - fill]
      /\ maxOrderID' = maxOrderID
  BY <1>1, <1>2, <1>3, <1>4 DEF MatchTrade
<1>7. maker.qty = fill => /\ SetQueue(side, price, Tail(q))
                          /\ index' = Indexed(DOMAIN index \ {maker.id})
  BY <1>1, <1>2, <1>3, <1>4 DEF MatchTrade
<1>8. maker.qty # fill =>
        /\ SetQueue(side, price, Requeue(left, Tail(q)))
        /\ index' = Assign(Indexed(DOMAIN index \ {maker.id}), maker.id, price)
  BY <1>1, <1>2, <1>3, <1>4, <1>5 DEF MatchTrade
<1>9. StructOK /\ taker \in Order /\ taker # NoOrder /\ taker.qty > 0
  BY <1>6, TakerFacts DEF BInv, Matching
<1>10. /\ price \in DOMAIN levels /\ levels[price].side = side
       /\ 1 \in 1 .. Len(q) /\ maker = q[1]
       /\ Tail(q) \in Seq(Order) /\ Without(q, 1, Tail(q))
       /\ maker \in RestingOrders /\ AB!BestMaker(maker)
       /\ maker.price = price /\ maker.side = side
  BY <1>1, <1>2, <1>3, <1>6, <1>9, HeadIsBest
<1>11. maker \in Order /\ maker.qty > 0 /\ maker.type = "Limit"
  BY <1>10, OrdersFacts DEF BInv
<1>12. fill \in Nat /\ fill <= maker.qty /\ maker.qty \in Nat
  BY <1>4, <1>9, <1>11 DEF Lesser, Order
<1>13. CASE maker.qty = fill
  <2>1. StructOK' /\ RestingOrders' = RestingOrders \ {maker}
    <3>1. /\ SetQueue(levels[price].side, price, Tail(q))
          /\ index' = Indexed(DOMAIN index \ {q[1].id})
      BY <1>7, <1>10, <1>13
    <3>2. StructOK' /\ RestingOrders' = RestingOrders \ {levels[price].orders[1]}
      BY <1>2, <1>9, <1>10, <3>1, DropStep
    <3>3. QED
      BY <1>2, <1>10, <3>2
  <2>2. ~(maker.qty > fill)
    BY <1>12, <1>13
  <2>3. AB!Fill(maker)
    BY <1>4, <1>6, <1>9, <1>10, <2>1, <2>2, Vocabulary DEF AB!Fill
  <2>4. QED
    BY <1>10, <2>1, <2>3 DEF AB!Next
<1>14. CASE maker.qty # fill
  <2>1. maker.qty > fill /\ maker.qty - fill \in Nat /\ maker.qty - fill > 0
    BY <1>12, <1>14
  <2>2. /\ left \in Order /\ left.id = maker.id /\ left.price = maker.price
        /\ left.side = maker.side /\ left.type = maker.type
        /\ left.qty = maker.qty - fill
    BY <1>5, <1>11, <2>1 DEF Order
  <2>3. left.type = "Limit" /\ left.qty > 0 /\ left.price = price
        /\ left.side = levels[price].side
    BY <1>10, <1>11, <2>1, <2>2
  <2>4. StructOK' /\ RestingOrders' = (RestingOrders \ {maker}) \cup {left}
    BY <1>2, <1>8, <1>9, <1>10, <1>14, <2>2, <2>3, ReduceStep
  <2>5. AB!Fill(maker)
    BY <1>4, <1>5, <1>6, <1>9, <1>10, <2>1, <2>4, Vocabulary DEF AB!Fill
  <2>6. QED
    BY <1>10, <2>4, <2>5 DEF AB!Next
<1>15. QED
  BY <1>13, <1>14

(* The loop ends when the taker is used up or nothing is left that it could
   trade with: the first rung is the best price of the other side. *)
LEMMA NothingMatches ==
    ASSUME StructOK, taker \in Order, taker # NoOrder, taker.qty > 0,
           \A side \in OrderSide : ~Matching(side)
    PROVE  \A m \in RestingOrders :
             m.side = Opposite(taker.side) => ~Acceptable(taker, m.price)
<1>1. SUFFICES ASSUME NEW m \in RestingOrders, m.side = Opposite(taker.side),
                      Acceptable(taker, m.price)
               PROVE  FALSE
  OBVIOUS
<1>2. PICK side \in OrderSide : side = Opposite(taker.side)
  BY DEF Opposite, OrderSide
<1>3. taker.side = Opposite(side) /\ taker.side \in OrderSide
  BY <1>2 DEF Opposite, OrderSide, Order
<1>4. PICK l : l = Ladder(side)
  OBVIOUS
<1>5. LevelsOK(levels) /\ LadderOf(side, l, levels) /\ l \in Seq(Prices) /\ Sorted(side, l)
  BY <1>4, LadderNow DEF StructOK
<1>6. PICK r \in DOMAIN levels : m \in QSet(levels[r].orders)
  BY RestingFacts DEF OrdersOf
<1>7. m.price = r /\ levels[r].side = side
  BY <1>1, <1>2, <1>5, <1>6, QueueOrders
<1>8. PICK j \in 1 .. Len(l) : l[j] = r
  BY <1>5, <1>7 DEF LadderOf
<1>9. l # <<>>
  BY <1>5, <1>8, EmptySeq, LenProperties
<1>10. 1 \in 1 .. Len(l) /\ Head(l) = l[1]
  BY <1>5, <1>9, TailProperties
<1>11. l[1] \in Prices /\ l[j] \in Prices
  BY <1>5, <1>8, <1>10, ElementOfSeq
<1>12. j = 1 \/ Better(side, l[1], l[j])
  <2>1. j = 1 \/ 1 < j
    BY <1>5, <1>8, LenProperties
  <2>2. QED
    BY <1>5, <1>8, <1>10, <2>1 DEF Sorted
<1>13. Acceptable(taker, l[1])
  <2>1. CASE j = 1
    BY <1>1, <1>7, <1>8, <2>1
  <2>2. CASE Better(side, l[1], l[j])
    <3>1. l[1] \in Nat /\ l[j] \in Nat /\ taker.price \in Nat
      <4>1. taker.price \in Prices \cup {0}
        BY DEF Order
      <4>2. \A x \in Prices : x \in Nat
        BY PricesAssumption
      <4>3. QED
        BY <1>11, <4>1, <4>2
    <3>2. Acceptable(taker, l[j])
      BY <1>1, <1>7, <1>8
    <3>3. QED
      BY <1>2, <1>3, <2>2, <3>1, <3>2 DEF Acceptable, Better, Opposite, OrderSide
  <2>3. QED
    BY <1>12, <2>1, <2>2
<1>14. Matching(side)
  BY <1>3, <1>4, <1>9, <1>10, <1>13 DEF Matching
<1>15. QED
  BY <1>14

LEMMA RestStep ==
    ASSUME BInv, Rest
    PROVE  StructOK' /\ AB!Next
<1>1. /\ taker # NoOrder /\ (\A side \in OrderSide : ~Matching(side)) /\ taker' = NoOrder
      /\ nextTradeID' = nextTradeID /\ maxOrderID' = maxOrderID
  BY DEF Rest
<1>2. StructOK /\ taker \in Order /\ (taker.type = "Limit" => taker.price \in Prices)
      /\ taker.id <= maxOrderID /\ taker.qty \in Nat
  BY <1>1, TakerFacts DEF BInv, Order
<1>3. taker.qty > 0 => \A m \in RestingOrders :
        m.side = Opposite(taker.side) => ~Acceptable(taker, m.price)
  BY <1>1, <1>2, NothingMatches
<1>4. taker.qty = 0 \/ AB!Matchable = {}
  <2>1. taker.qty = 0 \/ taker.qty > 0
    BY <1>2
  <2>2. QED
    BY <1>3, <2>1, Vocabulary DEF AB!Matchable
<1>5. CASE taker.type = "Limit" /\ taker.qty > 0
  <2>1. /\ PushOrder(taker) /\ index' = Assign(index, taker.id, taker.price)
        /\ res' = [res EXCEPT !.resting = taker.qty]
    BY <1>5 DEF Rest
  <2>2. taker.price \in Nat /\ taker.side \in OrderSide
    <3>1. taker.price \in Prices /\ taker.side \in OrderSide
      BY <1>2, <1>5 DEF Order
    <3>2. QED
      BY <3>1, PricesAssumption
  <2>3. ASSUME NEW m \in RestingOrders
        PROVE  m \in Order /\ m.price \in Nat /\ m.side \in OrderSide /\ m.id # taker.id
    BY OrdersFacts, PricesAssumption DEF BInv, Order
  <2>4. \A m \in RestingOrders : m.price = taker.price => m.side = taker.side
    BY <1>3, <1>5, <2>2, <2>3 DEF Acceptable, Opposite, OrderSide
  <2>5. \A m \in RestingOrders : m.id < taker.id
    <3>1. taker.id = maxOrderID /\ taker.id \in Nat
      BY <1>1, TakerFacts DEF BInv, Latest
    <3>2. \A m \in RestingOrders : m.id \in Nat /\ m.id <= maxOrderID /\ m.id # taker.id
      BY OrdersFacts, MaxOrderIDAssumption DEF BInv, Order, OrderIDs
    <3>3. QED
      BY <3>1, <3>2
  <2>6. StructOK' /\ RestingOrders' = RestingOrders \cup {taker}
    BY <1>2, <1>5, <2>1, <2>4, <2>5, PushStep
  <2>7. AB!Finish
    BY <1>1, <1>4, <1>5, <2>1, <2>6, Vocabulary DEF AB!Finish
  <2>8. QED
    BY <2>6, <2>7 DEF AB!Next
<1>6. CASE ~(taker.type = "Limit" /\ taker.qty > 0)
  <2>1. UNCHANGED <<bids, asks, levels, index, res>>
    BY <1>6 DEF Rest
  <2>2. StructOK' /\ RestingOrders' = RestingOrders
    BY <1>2, <2>1, RestingNow, RestingThen DEF StructOK
  <2>3. AB!Finish
    BY <1>1, <1>4, <1>6, <2>1, <2>2, Vocabulary DEF AB!Finish
  <2>4. QED
    BY <2>2, <2>3 DEF AB!Next
<1>7. QED
  BY <1>5, <1>6

LEMMA CancelStep ==
    ASSUME BInv, NEW id \in OrderIDs, NEW by \in Placers, CancelOwned(id, by)
    PROVE  StructOK' /\ AB!Next
<1>1. /\ taker = NoOrder /\ id \in DOMAIN index /\ by \in {NoAccount, OrderAt(id).placer}
      /\ SetQueue(levels[index[id]].side, index[id],
                  RemoveAt(levels[index[id]].orders, Element(id)))
      /\ index' = Indexed(DOMAIN index \ {id})
      /\ UNCHANGED <<nextTradeID, maxOrderID, taker, res>>
  BY DEF CancelOwned
<1>2. StructOK /\ LevelsOK(levels) /\ IndexOf(OrdersOf(levels), index)
  BY DEF BInv, StructOK
<1>3. PICK p : p = index[id]
  OBVIOUS
<1>4. PICK q : q = levels[p].orders
  OBVIOUS
<1>5. PICK i : i = Element(id)
  OBVIOUS
<1>6. i = PlaceOf(q, id) /\ OrderAt(id) = OrderIn(levels, index, id) /\ OrderAt(id) = q[i]
  BY <1>3, <1>4, <1>5 DEF Element, PlaceOf, OrderAt, OrderIn
<1>7. /\ p \in DOMAIN levels /\ i \in 1 .. Len(q)
      /\ q[i] \in OrdersOf(levels) /\ q[i].id = id
  <2>1. /\ index[id] \in DOMAIN levels
        /\ PlaceOf(levels[index[id]].orders, id) \in 1 .. Len(levels[index[id]].orders)
        /\ OrderIn(levels, index, id) \in OrdersOf(levels)
        /\ OrderIn(levels, index, id).id = id
    BY <1>1, <1>2, OrderInProperties
  <2>2. QED
    BY <1>3, <1>4, <1>6, <2>1
<1>8. q \in Seq(Order)
  BY <1>2, <1>4, <1>7 DEF LevelsOK
<1>9. RemoveAt(q, i) \in Seq(Order) /\ Without(q, i, RemoveAt(q, i))
  BY <1>7, <1>8, RemoveAtProperties
<1>10. /\ SetQueue(levels[p].side, p, RemoveAt(q, i))
       /\ index' = Indexed(DOMAIN index \ {q[i].id})
  BY <1>1, <1>3, <1>4, <1>5, <1>7
<1>11. StructOK' /\ RestingOrders' = RestingOrders \ {q[i]}
  BY <1>2, <1>4, <1>7, <1>9, <1>10, DropStep
<1>12. q[i] \in RestingOrders /\ by \in {NoAccount, q[i].placer}
  BY <1>1, <1>2, <1>6, <1>7, RestingFacts
<1>13. AB!Cancel(q[i], by)
  BY <1>1, <1>11, <1>12, Vocabulary DEF AB!Cancel
<1>14. QED
  BY <1>11, <1>12, <1>13, Vocabulary DEF AB!Next

-----------------------------------------------------------------------------

(* The order being matched stays the latest one. *)
LEMMA LatestStep ==
    ASSUME BInv, [Next]_vars
    PROVE  Latest'
<1>1. taker \in Order \cup {NoOrder} /\ maxOrderID \in Nat
  BY TakerFacts DEF BInv
<1>2. ASSUME NEW id \in OrderIDs, id > maxOrderID, NEW o \in NewOrders(id), SubmitOrder(o)
      PROVE  Latest'
  <2>1. o.id = id
    BY DEF NewOrders
  <2>2. QED
    BY <1>2, <2>1 DEF SubmitOrder, Latest
<1>3. ASSUME NEW side \in OrderSide, MatchTrade(side)
      PROVE  Latest'
  <2>1. taker \in Order /\ taker # NoOrder
    BY <1>1, <1>3 DEF MatchTrade, Matching
  <2>2. taker'.id = taker.id /\ maxOrderID' = maxOrderID
    BY <1>3, <2>1 DEF MatchTrade, Order
  <2>3. QED
    BY <2>1, <2>2 DEF BInv, Latest
<1>4. ASSUME NEW side \in OrderSide, MatchSelf(side)
      PROVE  Latest'
  BY <1>4 DEF MatchSelf, BInv, Latest
<1>5. CASE Rest
  BY <1>5 DEF Rest, Latest
<1>6. CASE RefuseUnknown
  BY <1>6 DEF RefuseUnknown, BInv, Latest
<1>7. ASSUME NEW id, NEW by, CancelOwned(id, by)
      PROVE  Latest'
  BY <1>7 DEF CancelOwned, BInv, Latest
<1>8. CASE UNCHANGED vars
  BY <1>8 DEF vars, BInv, Latest
<1>9. "Buy" \in OrderSide /\ "Sell" \in OrderSide
  BY DEF OrderSide
<1>10. QED
  BY <1>2, <1>3, <1>4, <1>5, <1>6, <1>7, <1>8, <1>9
     DEF Next, matchAgainstAsks, matchAgainstBids

(* Every step keeps the structures together and is a step of the abstract
   book. *)
LEMMA StepSimulates ==
    ASSUME BInv, [Next]_vars
    PROVE  StructOK' /\ [AB!Next]_AB!vars
<1>1. ASSUME NEW id \in OrderIDs, id > maxOrderID, NEW o \in NewOrders(id), SubmitOrder(o)
      PROVE  StructOK' /\ AB!Next
  BY <1>1, SubmitStep
<1>2. ASSUME NEW side \in OrderSide, MatchSelf(side) \/ MatchTrade(side)
      PROVE  StructOK' /\ AB!Next
  BY <1>2, MatchSelfStep, MatchTradeStep
<1>3. ASSUME NEW id \in OrderIDs, NEW by \in Placers, CancelOwned(id, by)
      PROVE  StructOK' /\ AB!Next
  BY <1>3, CancelStep
<1>4. CASE UNCHANGED vars
  <2>1. UNCHANGED <<bids, asks, levels, index, taker, nextTradeID, maxOrderID, res>>
    BY <1>4 DEF vars
  <2>2. StructOK'
    BY <2>1 DEF BInv, StructOK
  <2>3. RestingOrders' = RestingOrders
    BY <2>1, RestingNow, RestingThen
  <2>4. UNCHANGED AB!vars
    BY <2>1, <2>3 DEF AB!vars
  <2>5. QED
    BY <2>2, <2>4
<1>5. "Buy" \in OrderSide /\ "Sell" \in OrderSide
  BY DEF OrderSide
<1>6. CASE Next
  BY <1>1, <1>2, <1>3, <1>5, <1>6, RefuseStep, RestStep
     DEF Next, matchAgainstAsks, matchAgainstBids
<1>7. QED
  BY <1>4, <1>6

LEMMA BookInit == Init => BInv /\ AB!Init
<1> SUFFICES ASSUME Init PROVE BInv /\ AB!Init
  OBVIOUS
<1>1. /\ bids = <<>> /\ asks = <<>> /\ levels = <<>> /\ index = <<>>
      /\ taker = NoOrder /\ nextTradeID = 0 /\ maxOrderID = 0 /\ res = NoResult
  BY DEF Init
<1>2. DOMAIN levels = {} /\ DOMAIN index = {} /\ Len(bids) = 0 /\ Len(asks) = 0
      /\ bids \in Seq(Prices) /\ asks \in Seq(Prices)
  BY <1>1, EmptySeq
<1>3. LevelsOK(levels)
  <2>1. levels \in [DOMAIN levels -> [side : OrderSide, orders : Seq(Order)]]
    BY <1>1, <1>2
  <2>2. QED
    BY <1>2, <2>1 DEF LevelsOK
<1>4. OrdersOf(levels) = {}
  BY <1>2 DEF OrdersOf
<1>5. IndexOf(OrdersOf(levels), index)
  <2>1. index \in [DOMAIN index -> Prices]
    BY <1>1, <1>2
  <2>2. QED
    BY <1>2, <1>4, <2>1 DEF IndexOf
<1>6. LadderOf("Buy", bids, levels) /\ LadderOf("Sell", asks, levels)
  BY <1>2 DEF LadderOf
<1>7. StructOK
  BY <1>3, <1>5, <1>6 DEF StructOK
<1>8. RestingOrders = {}
  BY <1>4, <1>7, RestingFacts
<1>9. AB!Init
  BY <1>1, <1>8, Vocabulary DEF AB!Init
<1>10. AB!Inv
  BY <1>9, AB!InitInv, MaxOrderIDAssumption, QuantitiesAssumption, PricesAssumption,
     NoAccountAssumption
<1>11. Latest
  BY <1>1 DEF Latest
<1>12. QED
  BY <1>7, <1>9, <1>10, <1>11 DEF BInv

LEMMA BookNext == BInv /\ [Next]_vars => BInv'
<1> SUFFICES ASSUME BInv, [Next]_vars PROVE BInv'
  OBVIOUS
<1>1. StructOK' /\ [AB!Next]_AB!vars
  BY StepSimulates
<1>2. AB!Inv'
  BY <1>1, AbstractStep DEF BInv
<1>3. QED
  BY <1>1, <1>2, LatestStep DEF BInv

LEMMA BookInvariance == Spec => []BInv
BY BookInit, BookNext, PTL DEF Spec

(* The two instances of the abstract book are one. *)
LEMMA OneAbstractBook ==
    /\ Abstract!Init <=> AB!Init
    /\ Abstract!Next <=> AB!Next
<1>1. Abstract!Init <=> AB!Init
  BY DEF AB!Init, Abstract!Init, AB!NoOrder, Abstract!NoOrder, AB!NoResult, Abstract!NoResult
<1>2. Abstract!Next <=> AB!Next
  BY DEF AB!Next, Abstract!Next, AB!Submit, Abstract!Submit, AB!Refuse, Abstract!Refuse,
         AB!PreventSelf, Abstract!PreventSelf, AB!Fill, Abstract!Fill,
         AB!Finish, Abstract!Finish, AB!Cancel, Abstract!Cancel,
         AB!BestMaker, Abstract!BestMaker, AB!Matchable, Abstract!Matchable,
         AB!Ahead, Abstract!Ahead, AB!NoOrder, Abstract!NoOrder,
         AB!Opposite, Abstract!Opposite, AB!Acceptable, Abstract!Acceptable,
         AB!Lesser, Abstract!Lesser, AB!Execution, Abstract!Execution,
         AB!NewOrders, Abstract!NewOrders, AB!OrderIDs, Abstract!OrderIDs,
         AB!Placers, Abstract!Placers, AB!OrderSide, Abstract!OrderSide,
         AB!OrderType, Abstract!OrderType, AB!selfMatch, Abstract!selfMatch,
         AB!NoResult, Abstract!NoResult, AB!Refused, Abstract!Refused
<1>3. QED
  BY <1>1, <1>2

(* The ladders, levels and index of internal/oms/book.go, through every
   iteration of the matching loop and every cancel, do what price-time
   priority on a set of orders does: the maker popped is the best of the book,
   and the loop ends when nothing is left that the taker could trade with. *)
THEOREM KeepsPriority == Spec => ImplementsBookSpec
<1>1. Init => Abstract!Init
  BY BookInit, OneAbstractBook
<1>2. BInv /\ [Next]_vars => [Abstract!Next]_Abstract!vars
  BY StepSimulates, OneAbstractBook DEF Abstract!vars, AB!vars
<1>3. QED
  BY <1>1, <1>2, BookInvariance, PTL DEF Spec, ImplementsBookSpec, Abstract!Spec

-----------------------------------------------------------------------------

LEMMA LaddersAgree ==
    ASSUME BInv
    PROVE  LaddersExact /\ Uncrossed
<1>1. /\ LevelsOK(levels) /\ LadderOf("Buy", bids, levels) /\ LadderOf("Sell", asks, levels)
      /\ StructOK
  BY DEF BInv, StructOK
<1>2. /\ bids \in Seq(Prices) /\ DOMAIN bids = 1 .. Len(bids)
      /\ asks \in Seq(Prices) /\ DOMAIN asks = 1 .. Len(asks)
  BY <1>1, LenProperties DEF LadderOf
<1>3. /\ \A i, j \in DOMAIN bids : i < j => bids[i] > bids[j]
      /\ \A i, j \in DOMAIN asks : i < j => asks[i] < asks[j]
  BY <1>1, <1>2 DEF LadderOf, Better
<1>4. ASSUME NEW side \in OrderSide
      PROVE  ToSet(Ladder(side)) = { p \in DOMAIN levels : levels[p].side = side }
  <2>1. PICK l : l = Ladder(side)
    OBVIOUS
  <2>2. LadderOf(side, l, levels) /\ l \in Seq(Prices)
    BY <1>1, <2>1, LadderNow
  <2>3. ToSet(l) = { l[i] : i \in 1 .. Len(l) }
    BY <2>2, LenProperties DEF ToSet
  <2>4. ToSet(l) = { p \in DOMAIN levels : levels[p].side = side }
    BY <2>2, <2>3 DEF LadderOf
  <2>5. QED
    BY <2>1, <2>4
<1>5. \A p \in DOMAIN levels : Queue(p) # <<>>
  BY <1>1 DEF LevelsOK, QueueOK, Queue
<1>6. Uncrossed
  <2>1. SUFFICES ASSUME bids # <<>>, asks # <<>> PROVE Head(bids) < Head(asks)
    BY DEF Uncrossed
  <2>2. /\ 1 \in 1 .. Len(bids) /\ Head(bids) = bids[1]
        /\ 1 \in 1 .. Len(asks) /\ Head(asks) = asks[1]
    BY <1>2, <2>1, TailProperties
  <2>3. PICK p, r : p = bids[1] /\ r = asks[1]
    OBVIOUS
  <2>4. p \in DOMAIN levels /\ levels[p].side = "Buy" /\ r \in DOMAIN levels /\ levels[r].side = "Sell"
    BY <1>1, <2>2, <2>3 DEF LadderOf
  <2>5. ASSUME NEW x \in DOMAIN levels
        PROVE  \E o \in RestingOrders : o.price = x /\ o.side = levels[x].side
    <3>1. PICK q : q = levels[x].orders
      OBVIOUS
    <3>2. /\ QueueOK(q, x, levels[x].side) /\ QSet(q) \subseteq OrdersOf(levels)
          /\ \A o \in QSet(q) : o.price = x /\ o.side = levels[x].side
      BY <1>1, <3>1, QueueOrders
    <3>3. 1 \in 1 .. Len(q)
      BY <3>2, QueueProperties
    <3>4. q[1] \in QSet(q)
      BY <3>3 DEF QSet
    <3>5. QED
      BY <1>1, <3>2, <3>4, RestingFacts
  <2>6. PICK b \in RestingOrders : b.price = p /\ b.side = "Buy"
    BY <2>4, <2>5
  <2>7. PICK s \in RestingOrders : s.price = r /\ s.side = "Sell"
    BY <2>4, <2>5
  <2>8. b.price < s.price
    BY <2>6, <2>7, OrdersFacts DEF BInv
  <2>9. QED
    BY <2>2, <2>3, <2>6, <2>7, <2>8
<1>7. QED
  BY <1>3, <1>4, <1>5, <1>6 DEF LaddersExact

LEMMA IndexAgrees ==
    ASSUME BInv
    PROVE  IndexExact /\ TimePriority
<1>1. StructOK /\ LevelsOK(levels) /\ IndexOf(OrdersOf(levels), index)
  BY DEF BInv, StructOK
<1>2. ASSUME NEW p \in DOMAIN levels
      PROVE  /\ QueueOK(Queue(p), p, levels[p].side)
             /\ DOMAIN Queue(p) = 1 .. Len(Queue(p))
             /\ QSet(Queue(p)) \subseteq OrdersOf(levels)
             /\ ToSet(Queue(p)) = QSet(Queue(p))
  <2>1. QueueOK(Queue(p), p, levels[p].side) /\ QSet(Queue(p)) \subseteq OrdersOf(levels)
    BY <1>1, QueueOrders DEF Queue
  <2>2. DOMAIN Queue(p) = 1 .. Len(Queue(p))
    BY <2>1, LenProperties DEF QueueOK
  <2>3. QED
    BY <2>1, <2>2 DEF ToSet, QSet
<1>3. TimePriority
  BY <1>2 DEF TimePriority, QueueOK
<1>4. ASSUME NEW p \in DOMAIN levels, NEW i \in DOMAIN Queue(p)
      PROVE  /\ Queue(p)[i].price = p /\ Queue(p)[i].side = levels[p].side
             /\ Queue(p)[i].id \in DOMAIN index /\ index[Queue(p)[i].id] = p
  <2>1. PICK q : q = Queue(p)
    OBVIOUS
  <2>2. QueueOK(q, p, levels[p].side) /\ i \in 1 .. Len(q) /\ QSet(q) \subseteq OrdersOf(levels)
    BY <1>2, <1>4, <2>1
  <2>3. q[i].price = p /\ q[i].side = levels[p].side /\ q[i] \in OrdersOf(levels)
    BY <2>2 DEF QueueOK, QSet
  <2>4. q[i].id \in DOMAIN index /\ index[q[i].id] = p
    BY <1>1, <2>3 DEF IndexOf
  <2>5. QED
    BY <2>1, <2>3, <2>4
<1>5. ASSUME NEW id \in DOMAIN index
      PROVE  index[id] \in DOMAIN levels /\ \E o \in ToSet(Queue(index[id])) : o.id = id
  <2>1. PICK o \in OrdersOf(levels) : o.id = id
    BY <1>1 DEF IndexOf
  <2>2. PICK p \in DOMAIN levels : o \in QSet(levels[p].orders)
    BY DEF OrdersOf
  <2>3. o.price = p
    BY <1>1, <2>2, QueueOrders
  <2>4. index[id] = p
    BY <1>1, <2>1, <2>3 DEF IndexOf
  <2>5. o \in ToSet(Queue(p))
    BY <1>2, <2>2 DEF Queue
  <2>6. QED
    BY <2>1, <2>4, <2>5
<1>6. QED
  BY <1>3, <1>4, <1>5 DEF IndexExact

LEMMA BookTypes ==
    ASSUME BInv
    PROVE  TypeOK
<1>1. /\ LevelsOK(levels) /\ IndexOf(OrdersOf(levels), index)
      /\ LadderOf("Buy", bids, levels) /\ LadderOf("Sell", asks, levels)
  BY DEF BInv, StructOK
<1>2. /\ taker \in Order \cup {NoOrder} /\ nextTradeID \in Nat /\ maxOrderID \in Nat
      /\ res \in MatchResult
  BY TakerFacts DEF BInv
<1>3. bids \in Seq(Prices) /\ asks \in Seq(Prices)
  BY <1>1 DEF LadderOf
<1>4. /\ DOMAIN levels \subseteq Prices
      /\ \A p \in DOMAIN levels :
           levels[p].side \in OrderSide /\ levels[p].orders \in Seq(Order)
  BY <1>1 DEF LevelsOK
<1>5. DOMAIN index \subseteq OrderIDs /\ \A id \in DOMAIN index : index[id] \in Prices
  BY <1>1 DEF IndexOf
<1>6. QED
  BY <1>2, <1>3, <1>4, <1>5 DEF TypeOK

(* Ladders, levels and index describe the same orders in every state of the
   book, half matched ones included: the ladders are sorted, uncrossed and list
   the non-empty levels of their side, the index has exactly the resting
   orders, each at the level of its price and side, and a level's queue is in
   order of arrival. *)
THEOREM StructuresTogether == Spec => []StructuresAgree
<1>1. BInv => StructuresAgree
  BY LaddersAgree, IndexAgrees, BookTypes DEF StructuresAgree
<1>2. QED
  BY <1>1, BookInvariance, PTL
=============================================================================
