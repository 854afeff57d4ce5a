------------------------------- MODULE Venue --------------------------------
(***************************************************************************)
(* The symbols' sequencers (internal/oms/sequencer.go: commit) around the  *)
(* one account store they share, the settlement that follows a submission  *)
(* (internal/api/server.go: PlaceOrder) into the journal (internal/ledger), *)
(* and a restart: balances from the journal (cmd/server), books and holds  *)
(* from the logs, symbol by symbol as each is first used (registry.go).    *)
(*                                                                         *)
(* A commit interleaves with the other symbols between any two operations  *)
(* on the store.  Module Sequencer has the inside of the log; here a batch *)
(* is logged in one step, which succeeds or fails.  Module Book has the    *)
(* inside of the book; here an order is matched in one step.               *)
(***************************************************************************)
EXTENDS Accounts

CONSTANTS
    Opened,         \* accounts opened and funded, outside this program
    OpeningCash,    \* cash of each of them in the journal to begin with
    OpeningShares,  \* shares of each symbol, likewise
    MaxBatch,       \* the most requests one group commit covers
    MaxRequests,    \* bound: orders and cancels sent
    MaxCrashes      \* bound: restarts

ASSUME OpenedAssumption == Opened \subseteq Accounts
ASSUME OpeningAssumption == OpeningCash \in Nat /\ OpeningShares \in Nat
ASSUME BoundsAssumption == MaxBatch \in Nat \ {0} /\ MaxRequests \in Nat /\ MaxCrashes \in Nat

VARIABLES
    acct,      \* the account store
    loaded,    \* symbols with a running sequencer
    books,     \* symbol -> [orders, lastTrade]
    nextID,    \* symbol -> last order identifier assigned
    walErr,    \* symbol -> the log has failed
    pc,        \* symbol -> "idle", "collect", "reserve", "apply"
    batch,     \* symbol -> the requests of the commit under way
    next,      \* symbol -> next request of the batch
    gone,      \* symbol -> requests of the batch whose caller has left `do'
    logs,      \* symbol -> records on disk
    handlers,  \* PlaceOrder handlers that have trades to settle
    journal,   \* entries committed to the ledger
    \* history
    executed,  \* trades executed, with their symbol
    failed,    \* those whose settlement returned an error or was cut off
    marketBuyers, requests, crashes

bookVars == <<books, nextID, walErr>>
commitVars == <<pc, batch, next, gone>>
history == <<executed, failed, marketBuyers, requests, crashes>>
vars == <<acct, loaded, bookVars, commitVars, logs, handlers, journal, history>>

-----------------------------------------------------------------------------
(* The journal (internal/ledger/ledger.go).                                *)

Entry(s, t, account, asset, direction, amount) ==
    [symbol |-> s, trade |-> t.id, account |-> account, asset |-> asset,
     direction |-> direction, amount |-> amount]

(* Mutant: the cash legs are the wrong way round. *)
LegsSwapped(s, t) ==
    { Entry(s, t, Buyer(t), "position", "debit", t.qty),
      Entry(s, t, Buyer(t), "cash", "debit", t.price * t.qty),
      Entry(s, t, Seller(t), "cash", "credit", t.price * t.qty),
      Entry(s, t, Seller(t), "position", "credit", t.qty) }

(* The four legs of one trade. *)
Legs(s, t) ==
    { Entry(s, t, Buyer(t), "position", "debit", t.qty),
      Entry(s, t, Buyer(t), "cash", "credit", t.price * t.qty),
      Entry(s, t, Seller(t), "cash", "debit", t.price * t.qty),
      Entry(s, t, Seller(t), "position", "credit", t.qty) }

SameKey(e, f) ==
    /\ e.symbol = f.symbol /\ e.trade = f.trade
    /\ e.account = f.account /\ e.asset = f.asset /\ e.direction = f.direction

(* Settle, committed: ON CONFLICT DO NOTHING leaves an entry whose key the
   journal has. *)
Settled(entries, s, trades) ==
    entries \cup
    { e \in UNION { Legs(s, t) : t \in trades } : \A f \in entries : ~SameKey(e, f) }

Sum(entries) == MapThenSumSet(LAMBDA e : e.amount, entries)

Net(entries) ==
    Sum({ e \in entries : e.direction = "debit" }) - Sum({ e \in entries : e.direction = "credit" })

JournalCash(x) ==
    (IF x \in Opened THEN OpeningCash ELSE 0)
    + Net({ e \in journal : e.account = x /\ e.asset = "cash" })

JournalShares(x, s) ==
    (IF x \in Opened THEN OpeningShares ELSE 0)
    + Net({ e \in journal : e.account = x /\ e.asset = "position" /\ e.symbol = s })

(* Balances and LoadBalances: a store with the journal's balances, no holds. *)
LoadedStore ==
    Store(Opened \cup { e.account : e \in journal },
          [x \in Accounts |-> JournalCash(x)],
          [x \in Accounts |-> [s \in Symbols |-> JournalShares(x, s)]])

-----------------------------------------------------------------------------
(* Requests, records and replay.                                           *)

SubmitRequest(o) == [kind |-> "submit", order |-> o, preErr |-> FALSE]
CancelRequest(id, by) == [kind |-> "cancel", id |-> id, by |-> by, preErr |-> FALSE]

EmptyBook == [orders |-> {}, lastTrade |-> 0]

(* CancelOwned: the orders the cancel removes, one or none. *)
Cancelled(book, req) ==
    { o \in book.orders : o.id = req.id /\ o.placer = req.by }

(* Record.Apply: the same book operations as the live path. *)
ApplyRecord(book, req) ==
    IF req.kind = "cancel"
    THEN [book EXCEPT !.orders = @ \ Cancelled(book, req)]
    ELSE LET r == SubmitAll(book.orders, req.order, book.lastTrade)
         IN  [orders |-> r.orders, lastTrade |-> r.lastTrade]

(* Mutant: the trade counter is not part of what replay restores. *)
ReplayRenumbers(records) ==
    [FoldLeft(ApplyRecord, EmptyBook, records) EXCEPT !.lastTrade = 0]

(* Recover *)
Replay(records) == FoldLeft(ApplyRecord, EmptyBook, records)

(* Book.MaxOrderID after replay. *)
MaxLoggedID(records) ==
    Max({0} \cup { records[k].order.id : k \in { j \in DOMAIN records : records[j].kind = "submit" } })

Init ==
    /\ journal = {}
    /\ acct = Store(Opened, [x \in Accounts |-> IF x \in Opened THEN OpeningCash ELSE 0],
                    [x \in Accounts |-> [s \in Symbols |->
                       IF x \in Opened THEN OpeningShares ELSE 0]])
    /\ loaded = {}
    /\ books = [s \in Symbols |-> EmptyBook]
    /\ nextID = [s \in Symbols |-> 0]
    /\ walErr = [s \in Symbols |-> FALSE]
    /\ pc = [s \in Symbols |-> "idle"]
    /\ batch = [s \in Symbols |-> <<>>]
    /\ next = [s \in Symbols |-> 1]
    /\ gone = [s \in Symbols |-> {}]
    /\ logs = [s \in Symbols |-> <<>>]
    /\ handlers = {}
    /\ executed = {} /\ failed = {} /\ marketBuyers = {}
    /\ requests = 0 /\ crashes = 0

-----------------------------------------------------------------------------
(* Registry.                                                               *)

(* Mutant: a recovered order's hold is not restored. *)
WithoutHolds(a, s, orders) == a

(* attach: the holds of the orders of a recovered book. *)
WithHolds(a, s, orders) ==
    FoldSet(LAMBDA o, x : RestoreHold(x, s, o), a, orders)

(* Get of a symbol that has no sequencer yet: recover its book from its log,
   restore its holds, start it. *)
Load(s) ==
    /\ s \notin loaded
    /\ loaded' = loaded \cup {s}
    /\ LET book == Replay(logs[s])
       IN  /\ books' = [books EXCEPT ![s] = book]
           /\ acct' = WithHolds(acct, s, book.orders)
    /\ nextID' = [nextID EXCEPT ![s] = MaxLoggedID(logs[s])]
    /\ walErr' = [walErr EXCEPT ![s] = FALSE]
    /\ UNCHANGED <<commitVars, logs, handlers, journal, history>>

-----------------------------------------------------------------------------
(* A commit.                                                               *)

(* run and drain take another request into the batch.  Order identifiers are
   assigned in the order of the batch. *)
Collect(s, req) ==
    /\ s \in loaded
    /\ pc[s] \in {"idle", "collect"} /\ Len(batch[s]) < MaxBatch
    /\ requests < MaxRequests /\ requests' = requests + 1
    /\ pc' = [pc EXCEPT ![s] = "collect"]
    /\ batch' = [batch EXCEPT ![s] = Append(@, req)]
    /\ UNCHANGED <<acct, loaded, books, walErr, next, gone, logs, handlers, journal, executed,
                   failed, crashes>>

CollectSubmit(s) ==
    /\ nextID[s] < MaxOrderID
    /\ nextID' = [nextID EXCEPT ![s] = @ + 1]
    /\ \E o \in NewOrders(nextID[s] + 1) :
         /\ o.placer # NoAccount
         /\ Collect(s, SubmitRequest(o))
         /\ marketBuyers' = IF o.side = "Buy" /\ o.type = "Market"
                            THEN marketBuyers \cup {o.placer} ELSE marketBuyers

CollectCancel(s) ==
    /\ \E id \in 1 .. nextID[s], by \in Accounts : Collect(s, CancelRequest(id, by))
    /\ UNCHANGED <<nextID, marketBuyers>>

(* The client hangs up: the caller of a submit that is in the batch leaves by
   its context and will not see the reply.  One whose select picks the context
   when the reply is there as well is no different from one that left before. *)
HangUp(s) ==
    /\ \E k \in DOMAIN batch[s] :
         /\ batch[s][k].kind = "submit" /\ k \notin gone[s]
         /\ pc[s] = "apply" => k >= next[s]
         /\ gone' = [gone EXCEPT ![s] = @ \cup {k}]
    /\ UNCHANGED <<acct, loaded, bookVars, pc, batch, next, logs, handlers, journal, history>>

(* The pre-trade check of the next request: a submit is reserved or refused. *)
ReserveNext(s) ==
    /\ pc[s] \in {"collect", "reserve"} /\ next[s] <= Len(batch[s])
    /\ LET req == batch[s][next[s]]
       IN  IF req.kind = "cancel" THEN UNCHANGED <<acct, batch>>
           ELSE IF CanReserve(acct, s, req.order)
           THEN acct' = Reserve(acct, s, req.order) /\ UNCHANGED batch
           ELSE batch' = [batch EXCEPT ![s][next[s]].preErr = TRUE] /\ UNCHANGED acct
    /\ next' = [next EXCEPT ![s] = @ + 1]
    /\ pc' = [pc EXCEPT ![s] = "reserve"]
    /\ UNCHANGED <<loaded, bookVars, gone, logs, handlers, journal, history>>

(* What logBatch writes. *)
Accepted(s) == SelectSeq(batch[s], LAMBDA req : ~req.preErr)

(* logBatch succeeds, or fails with some of the records on disk none the less;
   or it is not tried, having failed before. *)
LogBatch(s) ==
    /\ pc[s] = "reserve" /\ next[s] > Len(batch[s])
    /\ \/ ~walErr[s] /\ logs' = [logs EXCEPT ![s] = @ \o Accepted(s)] /\ UNCHANGED walErr
       \/ /\ ~walErr[s] /\ walErr' = [walErr EXCEPT ![s] = TRUE]
          /\ \E n \in 0 .. Len(Accepted(s)) :
               logs' = [logs EXCEPT ![s] = @ \o SubSeq(Accepted(s), 1, n)]
       \/ walErr[s] /\ UNCHANGED <<walErr, logs>>
    /\ pc' = [pc EXCEPT ![s] = "apply"]
    /\ next' = [next EXCEPT ![s] = 1]
    /\ UNCHANGED <<acct, loaded, books, nextID, batch, gone, handlers, journal, history>>

(* On to the next request, or back to the select of run. *)
Advance(s) ==
    IF next[s] < Len(batch[s])
    THEN next' = [next EXCEPT ![s] = @ + 1] /\ UNCHANGED <<pc, batch, gone>>
    ELSE /\ next' = [next EXCEPT ![s] = 1]
         /\ gone' = [gone EXCEPT ![s] = {}]
         /\ pc' = [pc EXCEPT ![s] = "idle"]
         /\ batch' = [batch EXCEPT ![s] = <<>>]

Current(s) == batch[s][next[s]]
Applying(s) == pc[s] = "apply"

(* A refusal of the pre-trade check holds nothing. *)
AnswerRefused(s) ==
    /\ Applying(s) /\ Current(s).preErr
    /\ Advance(s)
    /\ UNCHANGED <<acct, loaded, bookVars, logs, handlers, journal, history>>

(* The log refused it: a submit's hold is released. *)
AnswerUnlogged(s) ==
    /\ Applying(s) /\ ~Current(s).preErr /\ walErr[s]
    /\ acct' = IF Current(s).kind = "submit" THEN Release(acct, s, Current(s).order.id)
                                             ELSE acct
    /\ Advance(s)
    /\ UNCHANGED <<loaded, bookVars, logs, handlers, journal, history>>

ApplyCancel(s) ==
    /\ Applying(s) /\ ~walErr[s] /\ Current(s).kind = "cancel"
    /\ books' = [books EXCEPT ![s] = ApplyRecord(@, Current(s))]
    /\ acct' = IF Cancelled(books[s], Current(s)) = {} THEN acct
                                                        ELSE Release(acct, s, Current(s).id)
    /\ Advance(s)
    /\ UNCHANGED <<loaded, nextID, walErr, logs, handlers, journal, history>>

(* SubmitOrder and Complete.  The reply takes the trades to the PlaceOrder
   handler that will settle them, if it is still there. *)
ApplySubmit(s) ==
    /\ Applying(s) /\ ~walErr[s] /\ Current(s).kind = "submit" /\ ~Current(s).preErr
    /\ LET o      == Current(s).order
           r      == SubmitAll(books[s].orders, o, books[s].lastTrade)
           trades == ToSet(r.trades)
       IN  /\ books' = [books EXCEPT ![s] = [orders |-> r.orders, lastTrade |-> r.lastTrade]]
           /\ acct' = Complete(acct, s, o.id, r.trades, r.resting, r.selfPrevented)
           /\ executed' = executed \cup { <<s, t>> : t \in trades }
           /\ handlers' = IF trades = {} \/ next[s] \in gone[s] THEN handlers
                          ELSE handlers \cup {[symbol |-> s, trades |-> trades]}
    /\ Advance(s)
    /\ UNCHANGED <<loaded, nextID, walErr, logs, journal, failed, marketBuyers, requests, crashes>>

-----------------------------------------------------------------------------
(* Settlement, and the end of the process.                                 *)

(* Settle in one transaction.  A trade whose value overflows fails it. *)
Settle(h) ==
    /\ \A t \in h.trades : ~Overflows(t.price, t.qty)
    /\ journal' = Settled(journal, h.symbol, h.trades)
    /\ handlers' = handlers \ {h}
    /\ UNCHANGED <<acct, loaded, bookVars, commitVars, logs, history>>

(* The transaction fails or times out.  A lost answer to the commit leaves the
   entries in the journal. *)
SettleFails(h) ==
    /\ handlers' = handlers \ {h}
    /\ \/ /\ UNCHANGED journal
          /\ failed' = failed \cup { <<h.symbol, t>> : t \in h.trades }
       \/ /\ \A t \in h.trades : ~Overflows(t.price, t.qty)
          /\ journal' = Settled(journal, h.symbol, h.trades)
          /\ UNCHANGED failed
    /\ UNCHANGED <<acct, loaded, bookVars, commitVars, logs, executed, marketBuyers, requests,
                   crashes>>

(* The process ends at any point and starts again: balances are rebuilt from
   the journal, and no symbol is loaded until it is asked for. *)
Restart ==
    /\ crashes < MaxCrashes
    /\ crashes' = crashes + 1
    /\ acct' = LoadedStore
    /\ loaded' = {}
    /\ books' = [s \in Symbols |-> EmptyBook]
    /\ nextID' = [s \in Symbols |-> 0]
    /\ walErr' = [s \in Symbols |-> FALSE]
    /\ pc' = [s \in Symbols |-> "idle"]
    /\ batch' = [s \in Symbols |-> <<>>]
    /\ next' = [s \in Symbols |-> 1]
    /\ gone' = [s \in Symbols |-> {}]
    /\ handlers' = {}
    /\ failed' = failed \cup UNION { { <<h.symbol, t>> : t \in h.trades } : h \in handlers }
    /\ UNCHANGED <<logs, journal, executed, marketBuyers, requests>>

(* Everything asked for is done and the bounds are used up. *)
Finished ==
    /\ \A s \in Symbols : s \in loaded /\ pc[s] = "idle"
    /\ handlers = {}
    /\ UNCHANGED vars

Commit(s) ==
    \/ CollectSubmit(s) \/ CollectCancel(s) \/ HangUp(s) \/ ReserveNext(s) \/ LogBatch(s)
    \/ AnswerRefused(s) \/ AnswerUnlogged(s) \/ ApplyCancel(s) \/ ApplySubmit(s)

Next ==
    \/ \E s \in Symbols : Load(s) \/ Commit(s)
    \/ \E h \in handlers : Settle(h) \/ SettleFails(h)
    \/ Restart
    \/ Finished

Spec == Init /\ [][Next]_vars

-----------------------------------------------------------------------------

(* Every variable has its type. *)
TypeOK ==
    /\ acct.known \subseteq Accounts
    /\ acct.cash \in [Accounts -> Int] /\ acct.reservedCash \in [Accounts -> Int]
    /\ acct.positions \in [Accounts -> [Symbols -> Int]]
    /\ acct.reservedShares \in [Accounts -> [Symbols -> Int]]
    /\ DOMAIN acct.holds \subseteq Symbols \X OrderIDs
    /\ loaded \subseteq Symbols
    /\ \A s \in Symbols :
         /\ books[s].orders \subseteq Order /\ books[s].lastTrade \in Nat
         /\ nextID[s] \in 0 .. MaxOrderID /\ walErr[s] \in BOOLEAN
         /\ pc[s] \in {"idle", "collect", "reserve", "apply"}
         /\ Len(batch[s]) <= MaxBatch /\ next[s] \in 1 .. Len(batch[s]) + 1
         /\ gone[s] \subseteq DOMAIN batch[s]
    /\ \A h \in handlers : h.symbol \in Symbols /\ h.trades \subseteq Trade
    /\ executed \subseteq Symbols \X Trade /\ failed \subseteq executed
    /\ marketBuyers \subseteq Accounts
    /\ requests \in 0 .. MaxRequests /\ crashes \in 0 .. MaxCrashes

(* The orders of a symbol that have a reservation: those that rest, and those
   of the batch that were reserved and not yet matched or refused. *)
Reserved(s) ==
    { batch[s][k].order : k \in
        { j \in DOMAIN batch[s] :
            /\ batch[s][j].kind = "submit" /\ ~batch[s][j].preErr
            /\ IF Applying(s) THEN j >= next[s] ELSE j < next[s] } }

Live(s) == books[s].orders \cup Reserved(s)

(* Every live order of a running symbol has its hold, for exactly what is left
   of it, and nothing else has one: on no path through refusal, log failure,
   partial fill, self-match prevention, cancel or recovery does a hold leak or
   go missing. *)
HoldsMatchOrders ==
    \A s \in loaded :
        /\ { o.id : o \in Live(s) } = { id \in OrderIDs : HasHold(acct, s, id) }
        /\ \A o \in Live(s) : acct.holds[<<s, o.id>>] = HoldOf(o)

(* What an account has reserved is the sum of its holds, over all symbols,
   whichever way their sequencers interleave. *)
ReservedIsSumOfHolds ==
    LET held(Test(_), Value(_)) ==
            MapThenSumSet(LAMBDA key : Value(acct.holds[key]),
                          { key \in DOMAIN acct.holds : Test(key) })
    IN  \A x \in Accounts :
          /\ acct.reservedCash[x] =
               held(LAMBDA key : acct.holds[key].account = x /\ acct.holds[key].side = "Buy",
                    LAMBDA h : h.price * h.qty)
          /\ \A s \in Symbols : acct.reservedShares[x][s] =
               held(LAMBDA key : key[1] = s /\ acct.holds[key].account = x
                                 /\ acct.holds[key].side = "Sell",
                    LAMBDA h : h.qty)

(* The store's own account of what is reserved, in its type, is exact. *)
StoreExact == TypeOK /\ ReservedIsSumOfHolds

(* docs/technical.md: "available = owned - reserved, never negative at accept
   time".  No account has committed more cash, over all symbols, or more shares
   than it owns; MARKET buys reserve nothing, so who has sent one may owe cash.
   A restart breaks it. *)
Covered ==
    \A x \in Accounts :
        /\ x \notin marketBuyers => AvailableCash(acct, x) >= 0
        /\ \A s \in Symbols : AvailablePosition(acct, x, s) >= 0

(* While the process runs, every order that is accepted can be paid for. *)
Solvent == crashes = 0 => Covered

(* Cash is neither made nor destroyed, and neither are the shares of a symbol:
   not by matching, and not by a restart that rebuilds them from a journal
   some trades have not reached. *)
Conserved ==
    /\ MapThenSumSet(LAMBDA x : acct.cash[x], Accounts) = OpeningCash * Cardinality(Opened)
    /\ \A s \in Symbols :
         MapThenSumSet(LAMBDA x : acct.positions[x][s], Accounts) =
             OpeningShares * Cardinality(Opened)

(* A trade number of a symbol names one trade for ever: trades are not logged
   but matched again by replay, and the journal tells them apart by number. *)
TradeIDsStable ==
    \A x, y \in executed : x[1] = y[1] /\ x[2].id = y[2].id => x = y

InJournal(s, t) == Legs(s, t) \subseteq journal

(* Settlement is all or nothing, and nothing else is in the journal: each
   executed trade has its four entries there or none, whatever failed. *)
SettledWhole ==
    /\ \A x \in executed : InJournal(x[1], x[2]) \/ Legs(x[1], x[2]) \cap journal = {}
    /\ journal \subseteq UNION { Legs(x[1], x[2]) : x \in executed }

(* Trades are settled whole, and once every executed trade is settled, the store
   and the journal agree on what everybody owns. *)
StoreMatchesJournal ==
    /\ SettledWhole
    /\ (\A x \in executed : InJournal(x[1], x[2])) =>
         \A x \in Accounts :
             /\ acct.cash[x] = JournalCash(x)
             /\ \A s \in Symbols : acct.positions[x][s] = JournalShares(x, s)

-----------------------------------------------------------------------------
(* What the repository says of the venue, and is not so.                   *)

Quiet == handlers = {} /\ \A s \in Symbols : pc[s] = "idle"

(* PlaceOrder: "a client that hangs up must not be able to abandon its
   settlement". *)
HangUpStillSettles ==
    Quiet /\ failed = {} /\ crashes = 0 => \A x \in executed : InJournal(x[1], x[2])

=============================================================================
