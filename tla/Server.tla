------------------------------- MODULE Server -------------------------------
(***************************************************************************)
(* The server process around the sequencers: the registry that creates one *)
(* per symbol on first use (internal/oms/registry.go), the trade feed that *)
(* a sequencer publishes to from its own goroutine (internal/api/feed.go), *)
(* the PlaceOrder and StreamTrades handlers that use them                  *)
(* (internal/api/server.go), and the shutdown in cmd/server.               *)
(*                                                                         *)
(* A sequencer takes one request at a time here; group commits, the log    *)
(* and the accounts are modules Sequencer, Log and Venue.  A batch of      *)
(* trades is its number among those of its symbol.                         *)
(***************************************************************************)
EXTENDS Integers, Sequences, FiniteSets

CONSTANTS
    Symbols,
    MaxSymbols,    \* MaxSymbols: the most sequencers the registry creates
    FeedBuffer,    \* feedBuffer: batches a subscriber may fall behind by
    Callers,       \* RPCs that place an order
    Subscribers    \* RPCs that stream trades

ASSUME ServerAssumption ==
    /\ MaxSymbols \in Nat /\ FeedBuffer \in Nat \ {0}
    /\ IsFiniteSet(Callers) /\ Callers \cap Subscribers = {}
    /\ Callers \cap {"none", "idle", "stopped"} = {}    \* see goroutine

VARIABLES
    phase,      \* main: "serving", "draining" (waiting for GracefulStop), "stopped",
                \* "closing" (in reg.Close), "exited"
    forced,     \* the shutdown timeout has passed
    seqs,       \* Registry.seqs: the symbols in it
    goroutine,  \* symbol -> "none", "idle", "stopped" or the caller it serves
    writers,    \* symbol -> Writers open on its log
    rpc,        \* RPC -> where its handler is
    sym,        \* RPC -> the symbol it is about
    feeds,      \* Server.feeds: the symbols that have a feed; none is ever removed
    published,  \* symbol -> batches of trades published
    feed,       \* subscriber -> its channel; NoChannel when not subscribed
    got,        \* subscriber -> batches sent to the client
    from,       \* history: subscriber -> batches published before it subscribed
    dropped,    \* subscriber -> batches dropped (oms_trade_feed_dropped_total)
    executed    \* callers whose order the sequencer has found to trade

registryVars == <<seqs, goroutine, writers>>
feedVars == <<feeds, published, feed, got, from, dropped>>
vars == <<phase, forced, registryVars, rpc, sym, feedVars, executed>>

RPCs == Callers \cup Subscribers
NoChannel == <<0>>

(***************************************************************************)
(* Where a handler is.  "lookup" and "create": in Registry.Get, before and *)
(* after it missed under the read lock; "send" and "taken": in             *)
(* Sequencer.do; "settle": PlaceOrder has its trades; "stream": in         *)
(* StreamTrades' loop; "replied", "refused", "left": returned.             *)
(***************************************************************************)
Returned == {"idle", "replied", "refused", "left"}
Places == Returned \cup {"lookup", "create", "send", "taken", "settle", "stream"}

Init ==
    /\ phase = "serving" /\ forced = FALSE
    /\ seqs = {}
    /\ goroutine = [s \in Symbols |-> "none"] /\ writers = [s \in Symbols |-> 0]
    /\ rpc = [r \in RPCs |-> "idle"]
    /\ sym \in [RPCs -> Symbols]
    /\ feeds = {} /\ published = [s \in Symbols |-> 0]
    /\ feed = [r \in Subscribers |-> NoChannel] /\ got = [r \in Subscribers |-> <<>>]
    /\ from = [r \in Subscribers |-> 0] /\ dropped = [r \in Subscribers |-> 0]
    /\ executed = {}

Goes(r, place) == rpc' = [rpc EXCEPT ![r] = place]

-----------------------------------------------------------------------------
(* Arrivals.  GracefulStop accepts no more of them.                        *)

PlaceOrder(c) ==
    /\ phase = "serving" /\ rpc[c] = "idle"
    /\ Goes(c, "lookup")
    /\ UNCHANGED <<phase, forced, registryVars, sym, feedVars, executed>>

(* Server.feed finds the feed of a symbol, or makes one for good. *)
Feed(s) == feeds' = feeds \cup {s}

(* StreamTrades subscribes before it asks for the sequencer: the symbol has a
   feed from now on, whether or not the registry has room for it. *)
StreamTrades(r) ==
    /\ phase = "serving" /\ rpc[r] = "idle"
    /\ Goes(r, "lookup")
    /\ Feed(sym[r])
    /\ feed' = [feed EXCEPT ![r] = <<>>]
    /\ from' = [from EXCEPT ![r] = published[sym[r]]]
    /\ UNCHANGED <<phase, forced, registryVars, sym, published, got, dropped, executed>>

-----------------------------------------------------------------------------
(* Registry.Get.  reg.Close holds the lock while it waits for sequencers.  *)

Proceeds(r) == Goes(r, IF r \in Callers THEN "send" ELSE "stream")

(* A handler returns; StreamTrades unsubscribes. *)
Returns(r, place) ==
    /\ Goes(r, place)
    /\ feed' = IF r \in Subscribers THEN [feed EXCEPT ![r] = NoChannel] ELSE feed
    /\ UNCHANGED <<feeds, published, got, from, dropped>>

Lookup(r) ==
    /\ phase # "closing" /\ rpc[r] = "lookup"
    /\ IF sym[r] \in seqs THEN Proceeds(r) ELSE Goes(r, "create")
    /\ UNCHANGED <<phase, forced, registryVars, sym, feedVars, executed>>

(* newSequencer and attach, or an error of the log's. *)
NewSequencer(r) ==
    \/ /\ seqs' = seqs \cup {sym[r]}
       /\ goroutine' = [goroutine EXCEPT ![sym[r]] = "idle"]
       /\ writers' = [writers EXCEPT ![sym[r]] = @ + 1]
       /\ Proceeds(r)
       /\ UNCHANGED feedVars
    \/ Returns(r, "refused") /\ UNCHANGED registryVars

(* Mutant: the map is not looked at again under the write lock. *)
CreateUnchecked(r) ==
    /\ phase # "closing" /\ rpc[r] = "create"
    /\ \/ sym[r] \notin seqs /\ Cardinality(seqs) >= MaxSymbols
          /\ Returns(r, "refused") /\ UNCHANGED registryVars
       \/ (sym[r] \in seqs \/ Cardinality(seqs) < MaxSymbols) /\ NewSequencer(r)
    /\ UNCHANGED <<phase, forced, sym, executed>>

(* Mutant: the limit is not looked at under the write lock. *)
CreateUnlimited(r) ==
    /\ phase # "closing" /\ rpc[r] = "create"
    /\ \/ sym[r] \in seqs /\ Proceeds(r) /\ UNCHANGED <<registryVars, feedVars>>
       \/ sym[r] \notin seqs /\ NewSequencer(r)
    /\ UNCHANGED <<phase, forced, sym, executed>>

(* Under the write lock: the check again, the limit, the creation. *)
Create(r) ==
    /\ phase # "closing" /\ rpc[r] = "create"
    /\ \/ sym[r] \in seqs /\ Proceeds(r) /\ UNCHANGED <<registryVars, feedVars>>
       \/ /\ sym[r] \notin seqs /\ Cardinality(seqs) >= MaxSymbols
          /\ Returns(r, "refused") /\ UNCHANGED registryVars
       \/ sym[r] \notin seqs /\ Cardinality(seqs) < MaxSymbols /\ NewSequencer(r)
    /\ UNCHANGED <<phase, forced, sym, executed>>

-----------------------------------------------------------------------------
(* The sequencer goroutine, and PlaceOrder's wait for it.                  *)

Stopping == phase # "serving"

(* The sequencer receives the order, and will find that it trades or not. *)
Take(c) ==
    /\ rpc[c] = "send" /\ goroutine[sym[c]] = "idle"
    /\ executed' \in {executed, executed \cup {c}}
    /\ goroutine' = [goroutine EXCEPT ![sym[c]] = c]
    /\ Goes(c, "taken")
    /\ UNCHANGED <<phase, forced, seqs, writers, sym, feedVars>>

(* do: the sequencer has stopped, or the RPC's context has ended. *)
GiveUp(c) ==
    /\ \/ rpc[c] = "send" /\ goroutine[sym[c]] = "stopped" /\ Returns(c, "refused")
       \/ rpc[c] \in {"send", "taken"} /\ Returns(c, "left")
    /\ UNCHANGED <<phase, forced, registryVars, sym, executed>>

Listeners(s) == { r \in Subscribers : sym[r] = s /\ feed[r] # NoChannel }
Full(r) == Len(feed[r]) >= FeedBuffer

(* Mutant: one subscriber that is behind ends the round. *)
PublishUntilFull(s) ==
    LET n == published[s] + 1
    IN  /\ Feed(s)
        /\ published' = [published EXCEPT ![s] = n]
        /\ feed' = [r \in Subscribers |->
                      IF r \in Listeners(s) /\ ~\E q \in Listeners(s) : Full(q)
                      THEN Append(feed[r], n) ELSE feed[r]]
        /\ dropped' = [r \in Subscribers |->
                         dropped[r] + IF r \in Listeners(s) /\ Full(r) THEN 1 ELSE 0]

(* Mutant: a subscriber that is behind is waited for. *)
PublishBlocking(s) ==
    LET n == published[s] + 1
    IN  /\ \A r \in Listeners(s) : ~Full(r)
        /\ Feed(s)
        /\ published' = [published EXCEPT ![s] = n]
        /\ feed' = [r \in Subscribers |->
                      IF r \in Listeners(s) THEN Append(feed[r], n) ELSE feed[r]]
        /\ UNCHANGED dropped

(* onTrades and tradeFeed.publish. *)
Publish(s) ==
    LET n == published[s] + 1
    IN  /\ Feed(s)
        /\ published' = [published EXCEPT ![s] = n]
        /\ feed' = [r \in Subscribers |->
                      IF r \in Listeners(s) /\ ~Full(r) THEN Append(feed[r], n) ELSE feed[r]]
        /\ dropped' = [r \in Subscribers |->
                         dropped[r] + IF r \in Listeners(s) /\ Full(r) THEN 1 ELSE 0]

(* commit has logged and matched the order; the feed comes before the reply,
   which nobody may be waiting for any more. *)
Commit(s) ==
    /\ goroutine[s] \in Callers
    /\ goroutine' = [goroutine EXCEPT ![s] = "idle"]
    /\ LET c == goroutine[s]
       IN  /\ IF c \in executed THEN Publish(s) /\ UNCHANGED <<got, from>> ELSE UNCHANGED feedVars
           /\ rpc' = IF rpc[c] # "taken" THEN rpc
                     ELSE [rpc EXCEPT ![c] = IF c \in executed THEN "settle" ELSE "replied"]
    /\ UNCHANGED <<phase, forced, seqs, writers, sym, executed>>

(* Settle has returned, or its own timeout has passed. *)
Settle(c) ==
    /\ rpc[c] = "settle"
    /\ Goes(c, "replied")
    /\ UNCHANGED <<phase, forced, registryVars, sym, feedVars, executed>>

(* The context or Close ends the goroutine, which closes its log. *)
StopSequencer(s) ==
    /\ Stopping /\ goroutine[s] = "idle"
    /\ goroutine' = [goroutine EXCEPT ![s] = "stopped"]
    /\ writers' = [writers EXCEPT ![s] = 0]
    /\ UNCHANGED <<phase, forced, seqs, rpc, sym, feedVars, executed>>

-----------------------------------------------------------------------------
(* StreamTrades.                                                           *)

Deliver(r) ==
    /\ rpc[r] = "stream" /\ feed[r] # <<>>
    /\ got' = [got EXCEPT ![r] = Append(@, Head(feed[r]))]
    /\ feed' = [feed EXCEPT ![r] = Tail(@)]
    /\ UNCHANGED <<phase, forced, registryVars, rpc, sym, feeds, published, from, dropped, executed>>

(* The client goes away. *)
HangUp(r) ==
    /\ rpc[r] = "stream"
    /\ Returns(r, "left")
    /\ UNCHANGED <<phase, forced, registryVars, sym, executed>>

-----------------------------------------------------------------------------
(* main.                                                                   *)

(* A signal cancels the context the sequencers share; GracefulStop begins. *)
Signal ==
    /\ phase = "serving"
    /\ phase' = "draining"
    /\ UNCHANGED <<forced, registryVars, rpc, sym, feedVars, executed>>

(* Mutant: the RPCs are not waited for. *)
DrainedAtOnce ==
    /\ phase = "draining"
    /\ phase' = "stopped"
    /\ UNCHANGED <<forced, registryVars, rpc, sym, feedVars, executed>>

(* GracefulStop has returned: every RPC has. *)
Drained ==
    /\ phase = "draining"
    /\ \A r \in RPCs : rpc[r] \in Returned
    /\ phase' = "stopped"
    /\ UNCHANGED <<forced, registryVars, rpc, sym, feedVars, executed>>

(* Mutant: GracefulStop is waited for however long it takes. *)
TimeoutNever ==
    /\ FALSE
    /\ UNCHANGED vars

(* The shutdown timeout: Stop ends the RPCs' contexts and does not wait. *)
Timeout ==
    /\ phase = "draining"
    /\ forced' = TRUE
    /\ phase' = "stopped"
    /\ UNCHANGED <<registryVars, rpc, sym, feedVars, executed>>

(* The metrics endpoint is down; reg.Close takes the lock. *)
CloseRegistry ==
    /\ phase = "stopped"
    /\ phase' = "closing"
    /\ UNCHANGED <<forced, registryVars, rpc, sym, feedVars, executed>>

(* reg.Close has seen every sequencer stop, and main returns. *)
RegistryClosed ==
    /\ phase = "closing"
    /\ \A s \in seqs : goroutine[s] = "stopped"
    /\ seqs' = {}
    /\ phase' = "exited"
    /\ UNCHANGED <<forced, goroutine, writers, rpc, sym, feedVars, executed>>

-----------------------------------------------------------------------------

Running == phase # "exited"

Handler(r) ==
    \/ Lookup(r) \/ Create(r)
    \/ r \in Callers /\ (Take(r) \/ Settle(r))
    \/ r \in Callers /\ goroutine[sym[r]] = "stopped" /\ GiveUp(r)

(* An exited process does nothing more. *)
Next ==
    /\ Running
    /\ \/ \E r \in RPCs : Handler(r)
       \/ \E c \in Callers : PlaceOrder(c) \/ GiveUp(c)
       \/ \E r \in Subscribers : StreamTrades(r) \/ Deliver(r) \/ HangUp(r)
       \/ \E s \in Symbols : Commit(s) \/ StopSequencer(s)
       \/ Signal \/ Drained \/ Timeout \/ CloseRegistry \/ RegistryClosed

(* Handlers, sequencers and main go on when they can.  Clients need not: no
   stream is read, no order placed and no signal sent for sure. *)
Fairness ==
    /\ \A r \in RPCs : WF_vars(Running /\ Handler(r))
    /\ \A s \in Symbols : WF_vars(Running /\ Commit(s)) /\ WF_vars(Running /\ StopSequencer(s))
    /\ WF_vars(Timeout) /\ WF_vars(CloseRegistry) /\ WF_vars(RegistryClosed)

Spec == Init /\ [][Next]_vars /\ Fairness

-----------------------------------------------------------------------------

(* Every variable has its type. *)
TypeOK ==
    /\ phase \in {"serving", "draining", "stopped", "closing", "exited"} /\ forced \in BOOLEAN
    /\ seqs \subseteq Symbols
    /\ goroutine \in [Symbols -> {"none", "idle", "stopped"} \cup Callers]
    /\ writers \in [Symbols -> Nat]
    /\ rpc \in [RPCs -> Places] /\ sym \in [RPCs -> Symbols]
    /\ feeds \subseteq Symbols /\ published \in [Symbols -> 0 .. Cardinality(Callers)]
    /\ feed \in [Subscribers -> Seq(Nat)] /\ \A r \in Subscribers : Len(feed[r]) <= FeedBuffer
    /\ got \in [Subscribers -> Seq(Nat)]
    /\ from \in [Subscribers -> Nat] /\ dropped \in [Subscribers -> Nat]
    /\ executed \subseteq Callers

(* However calls race for a new symbol, its log has at most one Writer: two would
   write over each other's records. *)
OneWriter == \A s \in Symbols : writers[s] <= 1

(* The registry's limit holds when several new symbols arrive at once. *)
SymbolsBounded == Cardinality(seqs) <= MaxSymbols

(* However calls race, the registry keeps its limit of symbols, and no subscriber
   has more batches waiting than its buffer holds.  Nothing else a client can make
   grow is meant: Server.feeds has no limit. *)
Bounded == TypeOK /\ SymbolsBounded

(* What a subscriber was sent and has waiting is, in order, what was published
   since it subscribed, but for the batches counted as dropped: none is lost to a
   slower subscriber, nor to the symbol's creation at the same time. *)
FeedFaithful ==
    \A r \in Subscribers : feed[r] # NoChannel =>
        LET seen == got[r] \o feed[r]
        IN  /\ Len(seen) + dropped[r] = published[sym[r]] - from[r]
            /\ \A k \in 1 .. Len(seen) : seen[k] \in from[r] + 1 .. published[sym[r]]
            /\ \A k \in 1 .. Len(seen) - 1 : seen[k] < seen[k + 1]

(* A shutdown that is not forced leaves no order that traded without an answer,
   settlement included, unless its client went away before the sequencer
   answered. *)
ExecutedIsAnswered ==
    phase = "exited" /\ ~forced => \A c \in executed : rpc[c] \in {"replied", "left"}

(* A sequencer that has taken an order answers it, although no subscriber may
   ever read its stream again. *)
NeverStalled ==
    \A s \in Symbols : (goroutine[s] \in Callers) ~> (goroutine[s] \notin Callers)

(* A signal ends the process, although clients may stay connected. *)
ShutdownEnds == (phase = "draining") ~> (phase = "exited")

=============================================================================
