---------------------------- MODULE ServerProofs ----------------------------
(***************************************************************************)
(* One Writer per log, the registry's and the feed's limits, the           *)
(* faithfulness of the feed, and an answer for every order that traded     *)
(* before a shutdown that was not forced: for any number of symbols, of    *)
(* calls and of subscribers, and any limit.                                *)
(***************************************************************************)
EXTENDS Server, FiniteSetTheorems, SequenceTheorems, TLAPS

(***************************************************************************)
(* The inductive invariant.                                                *)
(***************************************************************************)

(* A log is open exactly while the goroutine of its sequencer runs, and the
   registry has the symbols whose sequencer was ever started. *)
Registry ==
    /\ IsFiniteSet(seqs) /\ SymbolsBounded
    /\ \A s \in Symbols : writers[s] = IF goroutine[s] \in {"none", "stopped"} THEN 0 ELSE 1
    /\ Running => \A s \in Symbols : s \in seqs <=> goroutine[s] # "none"

(* StreamTrades holds a channel from its arrival to its return. *)
Subscribed ==
    \A r \in Subscribers :
        /\ feed[r] # NoChannel <=> rpc[r] \in {"lookup", "create", "stream"}
        /\ rpc[r] = "idle" => got[r] = <<>> /\ dropped[r] = 0

(* The caller a sequencer serves is waiting for it or gone, and it was its
   symbol's sequencer that found an order to trade. *)
Served ==
    /\ \A s \in Symbols : goroutine[s] \in Callers =>
         sym[goroutine[s]] = s /\ rpc[goroutine[s]] \in {"taken", "left"}
    /\ \A c \in executed : rpc[c] \in {"taken", "settle", "replied", "left"}

(* A batch is published for every order that traded, once its commit is over. *)
Traded(s) == { c \in executed : sym[c] = s /\ goroutine[s] # c }
Counted == \A s \in Symbols : published[s] = Cardinality(Traded(s))

(* Once GracefulStop has returned by itself no handler is left. *)
NoneLeft ==
    phase \in {"stopped", "closing", "exited"} /\ ~forced => \A r \in RPCs : rpc[r] \in Returned

IInv ==
    /\ TypeOK /\ Registry /\ Subscribed /\ Served /\ Counted
    /\ FeedFaithful /\ NoneLeft

-----------------------------------------------------------------------------
(* Sequences of batches.                                                   *)

(* Handing the client the oldest batch that waits leaves what was seen. *)
LEMMA DeliverSeen ==
    ASSUME NEW g \in Seq(Nat), NEW f \in Seq(Nat), f # <<>>
    PROVE  Append(g, Head(f)) \o Tail(f) = g \o f
<1>1. /\ Head(f) \in Nat /\ Tail(f) \in Seq(Nat) /\ Len(Tail(f)) = Len(f) - 1
      /\ Len(f) \in Nat \ {0} /\ Len(g) \in Nat /\ Head(f) = f[1]
      /\ \A i \in 1 .. Len(f) - 1 : Tail(f)[i] = f[i + 1]
  BY HeadTailProperties, EmptySeq, LenProperties
<1> DEFINE a == Append(g, Head(f))
<1>2. /\ a \in Seq(Nat) /\ Len(a) = Len(g) + 1 /\ a[Len(g) + 1] = f[1]
      /\ \A i \in 1 .. Len(g) : a[i] = g[i]
  BY <1>1, AppendProperties
<1> HIDE DEF a
<1>3. /\ a \o Tail(f) \in Seq(Nat) /\ Len(a \o Tail(f)) = Len(g) + Len(f)
      /\ \A i \in 1 .. Len(g) + Len(f) : (a \o Tail(f))[i] =
           IF i <= Len(g) + 1 THEN a[i] ELSE Tail(f)[i - (Len(g) + 1)]
  <2>1. /\ a \o Tail(f) \in Seq(Nat) /\ Len(a \o Tail(f)) = Len(a) + Len(Tail(f))
        /\ \A i \in 1 .. Len(a) + Len(Tail(f)) : (a \o Tail(f))[i] =
             IF i <= Len(a) THEN a[i] ELSE Tail(f)[i - Len(a)]
    BY <1>1, <1>2, ConcatProperties
  <2>2. Len(a) + Len(Tail(f)) = Len(g) + Len(f)
    BY <1>1, <1>2
  <2>3. QED
    BY <1>2, <2>1, <2>2
<1>4. /\ g \o f \in Seq(Nat) /\ Len(g \o f) = Len(g) + Len(f)
      /\ \A i \in 1 .. Len(g) + Len(f) : (g \o f)[i] = IF i <= Len(g) THEN g[i] ELSE f[i - Len(g)]
  BY ConcatProperties
<1>5. ASSUME NEW i \in 1 .. Len(g) + Len(f) PROVE (a \o Tail(f))[i] = (g \o f)[i]
  <2>1. CASE i <= Len(g)
    BY <1>1, <1>2, <1>3, <1>4, <2>1
  <2>2. CASE i = Len(g) + 1
    BY <1>1, <1>2, <1>3, <1>4, <2>2
  <2>3. CASE i > Len(g) + 1
    <3>1. i - (Len(g) + 1) \in 1 .. Len(f) - 1 /\ (i - (Len(g) + 1)) + 1 = i - Len(g)
      BY <1>1, <2>3
    <3>2. Tail(f)[i - (Len(g) + 1)] = f[i - Len(g)]
      BY <1>1, <3>1
    <3>3. (a \o Tail(f))[i] = Tail(f)[i - (Len(g) + 1)] /\ (g \o f)[i] = f[i - Len(g)]
      BY <1>1, <1>3, <1>4, <2>3
    <3>4. QED
      BY <3>2, <3>3
  <2>4. i <= Len(g) \/ i = Len(g) + 1 \/ i > Len(g) + 1
    BY <1>1
  <2>5. QED
    BY <2>1, <2>2, <2>3, <2>4
<1>6. a \o Tail(f) = g \o f
  BY <1>3, <1>4, <1>5, SeqEqual
<1>7. QED
  BY <1>6 DEF a

(* A batch that joins those that wait joins what was seen. *)
LEMMA PublishSeen ==
    ASSUME NEW g \in Seq(Nat), NEW f \in Seq(Nat), NEW n \in Nat
    PROVE  /\ g \o Append(f, n) \in Seq(Nat)
           /\ Len(g \o Append(f, n)) = Len(g \o f) + 1
           /\ (g \o Append(f, n))[Len(g \o f) + 1] = n
           /\ \A k \in 1 .. Len(g \o f) : (g \o Append(f, n))[k] = (g \o f)[k]
<1>1. Len(g) \in Nat /\ Len(f) \in Nat
  BY LenProperties
<1> DEFINE a == Append(f, n)
<1>2. /\ a \in Seq(Nat) /\ Len(a) = Len(f) + 1 /\ a[Len(f) + 1] = n
      /\ \A i \in 1 .. Len(f) : a[i] = f[i]
  BY AppendProperties
<1> HIDE DEF a
<1>3. /\ g \o a \in Seq(Nat) /\ Len(g \o a) = Len(g) + Len(a)
      /\ \A i \in 1 .. Len(g) + Len(a) : (g \o a)[i] = IF i <= Len(g) THEN g[i] ELSE a[i - Len(g)]
  BY <1>2, ConcatProperties
<1>4. /\ Len(g \o f) = Len(g) + Len(f)
      /\ \A i \in 1 .. Len(g) + Len(f) : (g \o f)[i] = IF i <= Len(g) THEN g[i] ELSE f[i - Len(g)]
  BY ConcatProperties
<1>5. (g \o a)[Len(g) + Len(f) + 1] = n
  <2>1. (Len(g) + Len(f) + 1) - Len(g) = Len(f) + 1
    BY <1>1
  <2>2. QED
    BY <1>1, <1>2, <1>3, <2>1
<1>6. ASSUME NEW k \in 1 .. Len(g) + Len(f) PROVE (g \o a)[k] = (g \o f)[k]
  <2>1. k \in 1 .. Len(g) + Len(a)
    BY <1>1, <1>2
  <2>2. CASE k <= Len(g)
    BY <1>3, <1>4, <2>1, <2>2
  <2>3. CASE ~(k <= Len(g))
    <3>1. k - Len(g) \in 1 .. Len(f)
      BY <1>1, <2>3
    <3>2. QED
      BY <1>2, <1>3, <1>4, <2>1, <2>3, <3>1
  <2>4. QED
    BY <2>2, <2>3
<1>7. QED
  BY <1>1, <1>2, <1>3, <1>4, <1>5, <1>6 DEF a

-----------------------------------------------------------------------------
(* What most steps leave alone.                                            *)

(* The channel of nobody, and the limits. *)
LEMMA Limits ==
    /\ FeedBuffer \in Nat /\ 1 <= FeedBuffer /\ MaxSymbols \in Nat
    /\ NoChannel \in Seq(Nat) /\ Len(NoChannel) = 1 /\ NoChannel[1] = 0 /\ NoChannel # <<>>
<1>1. FeedBuffer \in Nat /\ 1 <= FeedBuffer /\ MaxSymbols \in Nat
  BY ServerAssumption
<1>2. NoChannel \in Seq(Nat) /\ Len(NoChannel) = 1 /\ NoChannel[1] = 0 /\ NoChannel # <<>>
  BY DEF NoChannel
<1>3. QED
  BY <1>1, <1>2

(* FeedFaithful of one subscriber. *)
Faithful(seen, drops, lo, hi) ==
    /\ Len(seen) + drops = hi - lo
    /\ \A k \in 1 .. Len(seen) : seen[k] \in lo + 1 .. hi
    /\ \A k \in 1 .. Len(seen) - 1 : seen[k] < seen[k + 1]

LEMMA FeedFaithfulEach ==
    FeedFaithful <=>
        \A r \in Subscribers : feed[r] # NoChannel =>
            Faithful(got[r] \o feed[r], dropped[r], from[r], published[sym[r]])
BY DEF FeedFaithful, Faithful

LEMMA FeedStays ==
    ASSUME FeedFaithful, UNCHANGED <<feedVars, sym>>
    PROVE  FeedFaithful'
BY DEF FeedFaithful, feedVars

(* A step that serves no caller and publishes nothing. *)
LEMMA CountStays ==
    ASSUME Counted, UNCHANGED <<published, sym, executed>>,
           \A s \in Symbols : \A c \in executed : goroutine'[s] = c <=> goroutine[s] = c
    PROVE  Counted'
<1>1. ASSUME NEW s \in Symbols PROVE Traded(s)' = Traded(s)
  BY DEF Traded
<1>2. QED
  BY <1>1 DEF Counted

(* Callers are finitely many. *)
LEMMA CallersCounted ==
    ASSUME NEW T \in SUBSET Callers
    PROVE  IsFiniteSet(T) /\ Cardinality(T) \in 0 .. Cardinality(Callers)
<1>1. IsFiniteSet(Callers)
  BY ServerAssumption
<1>2. IsFiniteSet(T) /\ Cardinality(T) <= Cardinality(Callers)
  BY <1>1, FS_Subset
<1>3. Cardinality(T) \in Nat /\ Cardinality(Callers) \in Nat
  BY <1>1, <1>2, FS_CardinalityType
<1>4. QED
  BY <1>2, <1>3

-----------------------------------------------------------------------------
(* Handlers.                                                               *)

LEMMA InitIInv == Init => IInv
<1> SUFFICES ASSUME Init PROVE IInv
  OBVIOUS
<1>1. /\ executed = {} /\ \A s \in Symbols : published[s] = 0
  BY DEF Init
<1>2. IsFiniteSet({}) /\ Cardinality({}) = 0 /\ Cardinality(Callers) \in Nat
  BY FS_EmptySet, FS_CardinalityType, ServerAssumption
<1>3. NoChannel \in Seq(Nat) /\ Len(NoChannel) <= FeedBuffer
  BY Limits
<1>4. TypeOK
  <2>1. feed \in [Subscribers -> Seq(Nat)] /\ \A r \in Subscribers : Len(feed[r]) <= FeedBuffer
    BY <1>3 DEF Init
  <2>2. published \in [Symbols -> 0 .. Cardinality(Callers)] /\ writers \in [Symbols -> Nat]
    BY <1>2 DEF Init
  <2>3. /\ got \in [Subscribers -> Seq(Nat)] /\ from \in [Subscribers -> Nat]
        /\ dropped \in [Subscribers -> Nat] /\ rpc \in [RPCs -> Places]
    BY DEF Init, Places, Returned
  <2>4. QED
    BY <2>1, <2>2, <2>3 DEF Init, TypeOK
<1>5. Registry
  BY <1>2, ServerAssumption DEF Init, Registry, SymbolsBounded
<1>6. Subscribed /\ Served /\ FeedFaithful /\ NoneLeft
  BY ServerAssumption DEF Init, Subscribed, Served, FeedFaithful, NoneLeft, RPCs
<1>7. Counted
  <2>1. ASSUME NEW s \in Symbols PROVE Traded(s) = {}
    BY <1>1 DEF Traded
  <2>2. QED
    BY <1>1, <1>2, <2>1 DEF Counted
<1>8. QED
  BY <1>4, <1>5, <1>6, <1>7 DEF IInv

(* A handler goes on to its next place and nothing else changes. *)
LEMMA MoveIInv ==
    ASSUME IInv, NEW r \in RPCs, NEW place \in Places, Goes(r, place),
           UNCHANGED <<phase, forced, registryVars, sym, feedVars, executed>>,
           r \in Subscribers => /\ rpc[r] \in {"lookup", "create"}
                                /\ place \in {"create", "stream"},
           r \in Callers => rpc[r] \in {"idle", "lookup", "create", "settle"},
           rpc[r] = "settle" => place = "replied",
           phase = "serving" \/ rpc[r] \notin Returned
    PROVE  IInv'
<1>1. rpc \in [RPCs -> Places] /\ rpc' = [rpc EXCEPT ![r] = place]
  BY DEF IInv, TypeOK, Goes
<1>2. TypeOK' /\ Registry'
  BY <1>1 DEF IInv, TypeOK, Registry, SymbolsBounded, Running, registryVars, feedVars
<1>3. Subscribed'
  BY <1>1 DEF IInv, Subscribed, RPCs, feedVars, Returned
<1>4. Served'
  <2>1. ASSUME NEW s \in Symbols, goroutine[s] \in Callers
        PROVE  goroutine[s] # r
    BY <2>1 DEF IInv, Served
  <2>2. ASSUME NEW c \in executed
        PROVE  rpc'[c] \in {"taken", "settle", "replied", "left"}
    BY <1>1, <2>2 DEF IInv, TypeOK, Served
  <2>3. QED
    BY <1>1, <2>1, <2>2 DEF IInv, Served, RPCs, registryVars
<1>5. Counted' /\ FeedFaithful'
  BY CountStays, FeedStays DEF IInv, registryVars, feedVars
<1>6. NoneLeft'
  BY <1>1 DEF IInv, NoneLeft
<1>7. QED
  BY <1>2, <1>3, <1>4, <1>5, <1>6 DEF IInv

LEMMA PlaceOrderIInv ==
    ASSUME IInv, NEW c \in Callers, PlaceOrder(c)
    PROVE  IInv'
BY MoveIInv, ServerAssumption DEF PlaceOrder, RPCs, Places, Returned

LEMMA SettleIInv ==
    ASSUME IInv, NEW c \in Callers, Settle(c)
    PROVE  IInv'
BY MoveIInv, ServerAssumption DEF Settle, RPCs, Places, Returned

LEMMA LookupIInv ==
    ASSUME IInv, NEW r \in RPCs, Lookup(r)
    PROVE  IInv'
<1>1. CASE r \in Callers
  <2>1. r \notin Subscribers
    BY <1>1, ServerAssumption
  <2>2. Goes(r, "send") \/ Goes(r, "create")
    BY <1>1 DEF Lookup, Proceeds
  <2>3. QED
    BY <2>1, <2>2, MoveIInv DEF Lookup, Places, Returned
<1>2. CASE r \notin Callers
  <2>1. Goes(r, "stream") \/ Goes(r, "create")
    BY <1>2 DEF Lookup, Proceeds
  <2>2. QED
    BY <1>2, <2>1, MoveIInv DEF Lookup, Places, Returned
<1>3. QED
  BY <1>1, <1>2

(* StreamTrades: from here on every batch reaches the channel. *)
LEMMA StreamTradesIInv ==
    ASSUME IInv, NEW r \in Subscribers, StreamTrades(r)
    PROVE  IInv'
<1>1. /\ phase = "serving" /\ rpc[r] = "idle" /\ r \in RPCs /\ r \notin Callers
      /\ rpc' = [rpc EXCEPT ![r] = "lookup"] /\ feed' = [feed EXCEPT ![r] = <<>>]
      /\ from' = [from EXCEPT ![r] = published[sym[r]]]
      /\ feeds' = feeds \cup {sym[r]}
      /\ UNCHANGED <<phase, forced, registryVars, sym, published, got, dropped, executed>>
  BY ServerAssumption DEF StreamTrades, Feed, Goes, RPCs
<1>2. /\ sym[r] \in Symbols /\ published[sym[r]] \in Nat /\ Cardinality(Callers) \in Nat
      /\ got[r] = <<>> /\ dropped[r] = 0
  BY <1>1, ServerAssumption, FS_CardinalityType DEF IInv, TypeOK, Subscribed
<1>3. <<>> \in Seq(Nat) /\ Len(<<>>) = 0
  BY EmptySeq
<1>4. TypeOK'
  <2>1. feed' \in [Subscribers -> Seq(Nat)] /\ \A q \in Subscribers : Len(feed'[q]) <= FeedBuffer
    BY <1>1, <1>3, ServerAssumption DEF IInv, TypeOK
  <2>2. from' \in [Subscribers -> Nat] /\ rpc' \in [RPCs -> Places]
    BY <1>1, <1>2 DEF IInv, TypeOK, Places
  <2>3. QED
    BY <1>1, <2>1, <2>2 DEF IInv, TypeOK, registryVars
<1>5. Registry' /\ NoneLeft'
  BY <1>1 DEF IInv, Registry, SymbolsBounded, Running, registryVars, NoneLeft
<1>6. Subscribed'
  <2>1. NoChannel # <<>>
    BY Limits
  <2>2. QED
    BY <1>1, <2>1 DEF IInv, TypeOK, Subscribed
<1>7. Served'
  BY <1>1 DEF IInv, TypeOK, Served, RPCs, registryVars
<1>8. Counted'
  BY <1>1, CountStays DEF IInv, registryVars
<1>9. FeedFaithful'
  <2>1. ASSUME NEW q \in Subscribers, feed'[q] # NoChannel
        PROVE  Faithful(got'[q] \o feed'[q], dropped'[q], from'[q], published'[sym'[q]])
    <3>1. CASE q = r
      <4>1. /\ got'[q] \o feed'[q] = <<>> /\ dropped'[q] = 0
            /\ from'[q] = published[sym[r]] /\ published'[sym'[q]] = published[sym[r]]
        BY <1>1, <1>2, <1>3, <3>1, ConcatEmptySeq DEF IInv, TypeOK
      <4>2. QED
        BY <1>2, <1>3, <4>1 DEF Faithful
    <3>2. CASE q # r
      <4>1. feed'[q] = feed[q] /\ from'[q] = from[q]
        BY <1>1, <3>2 DEF IInv, TypeOK
      <4>2. Faithful(got[q] \o feed[q], dropped[q], from[q], published[sym[q]])
        BY <2>1, <4>1, FeedFaithfulEach DEF IInv
      <4>3. QED
        BY <1>1, <4>1, <4>2
    <3>3. QED
      BY <3>1, <3>2
  <2>2. QED
    BY <2>1 DEF FeedFaithful, Faithful
<1>10. QED
  BY <1>4, <1>5, <1>6, <1>7, <1>8, <1>9 DEF IInv

(* A handler returns before its call has been answered. *)
LEMMA ReturnIInv ==
    ASSUME IInv, NEW r \in RPCs, NEW place \in {"refused", "left"}, Returns(r, place),
           UNCHANGED <<phase, forced, registryVars, sym, executed>>,
           r \in Callers => rpc[r] \in {"create", "send"} \/ (rpc[r] = "taken" /\ place = "left"),
           rpc[r] \notin Returned
    PROVE  IInv'
<1>1. /\ rpc' = [rpc EXCEPT ![r] = place] /\ UNCHANGED <<feeds, published, got, from, dropped>>
      /\ feed' = IF r \in Subscribers THEN [feed EXCEPT ![r] = NoChannel] ELSE feed
  BY DEF Returns, Goes
<1>2. NoChannel \in Seq(Nat) /\ Len(NoChannel) <= FeedBuffer
  BY Limits
<1>3. TypeOK'
  <2>1. feed' \in [Subscribers -> Seq(Nat)] /\ \A q \in Subscribers : Len(feed'[q]) <= FeedBuffer
    <3> feed \in [Subscribers -> Seq(Nat)] /\ \A q \in Subscribers : Len(feed[q]) <= FeedBuffer
      BY DEF IInv, TypeOK
    <3>1. feed' \in [Subscribers -> Seq(Nat)]
      BY <1>1, <1>2
    <3>2. \A q \in Subscribers : feed'[q] = feed[q] \/ feed'[q] = NoChannel
      BY <1>1
    <3>3. QED
      BY <1>2, <3>1, <3>2
  <2>2. rpc' \in [RPCs -> Places]
    BY <1>1 DEF IInv, TypeOK, Places, Returned
  <2>3. QED
    BY <1>1, <2>1, <2>2 DEF IInv, TypeOK, registryVars
<1>4. Registry' /\ NoneLeft'
  BY <1>1 DEF IInv, TypeOK, Registry, SymbolsBounded, Running, registryVars, NoneLeft, Returned
<1>5. Subscribed'
  BY <1>1 DEF IInv, TypeOK, Subscribed, RPCs
<1>6. Served'
  <2>1. ASSUME NEW s \in Symbols, goroutine[s] \in Callers
        PROVE  sym[goroutine[s]] = s /\ rpc'[goroutine[s]] \in {"taken", "left"}
    BY <1>1, <2>1 DEF IInv, TypeOK, Served, RPCs
  <2>2. ASSUME NEW c \in executed
        PROVE  rpc'[c] \in {"taken", "settle", "replied", "left"}
    BY <1>1, <2>2 DEF IInv, TypeOK, Served, RPCs
  <2>3. QED
    BY <2>1, <2>2 DEF Served, registryVars
<1>7. Counted'
  BY <1>1, CountStays DEF IInv, registryVars
<1>8. FeedFaithful'
  <2>1. ASSUME NEW q \in Subscribers, feed'[q] # NoChannel PROVE feed'[q] = feed[q]
    BY <1>1, <2>1 DEF IInv, TypeOK
  <2>2. QED
    BY <1>1, <2>1 DEF IInv, FeedFaithful
<1>9. QED
  BY <1>3, <1>4, <1>5, <1>6, <1>7, <1>8 DEF IInv

LEMMA HangUpIInv ==
    ASSUME IInv, NEW r \in Subscribers, HangUp(r)
    PROVE  IInv'
BY ReturnIInv, ServerAssumption DEF HangUp, RPCs, Returned

LEMMA GiveUpIInv ==
    ASSUME IInv, NEW c \in Callers, GiveUp(c)
    PROVE  IInv'
BY ReturnIInv DEF GiveUp, RPCs, Returned

(* Registry.Get under the write lock.  The symbol is not there and there is
   room for it: its sequencer was never started and its log is not open. *)
LEMMA NewSequencerIInv ==
    ASSUME IInv, NEW r \in RPCs, Running, rpc[r] = "create",
           sym[r] \notin seqs, Cardinality(seqs) < MaxSymbols,
           UNCHANGED <<phase, forced, sym, executed, feedVars>>,
           seqs' = seqs \cup {sym[r]},
           goroutine' = [goroutine EXCEPT ![sym[r]] = "idle"],
           writers' = [writers EXCEPT ![sym[r]] = @ + 1],
           Proceeds(r)
    PROVE  IInv'
<1> DEFINE s == sym[r]
<1>1. s \in Symbols /\ goroutine[s] = "none" /\ writers[s] = 0
  BY DEF IInv, TypeOK, Registry
<1> HIDE DEF s
<1>2. /\ seqs' = seqs \cup {s} /\ goroutine' = [goroutine EXCEPT ![s] = "idle"]
      /\ writers' = [writers EXCEPT ![s] = 1] /\ s \notin seqs
  BY <1>1 DEF s
<1>3. PICK place \in {"send", "stream"} :
        rpc' = [rpc EXCEPT ![r] = place] /\ (r \in Subscribers => place = "stream")
  BY ServerAssumption DEF Proceeds, Goes
<1>4. TypeOK'
  BY <1>1, <1>2, <1>3 DEF IInv, TypeOK, Places, feedVars
<1>5. Registry'
  <2>1. IsFiniteSet(seqs') /\ Cardinality(seqs') = Cardinality(seqs) + 1
    <3>1. IsFiniteSet(seqs)
      BY DEF IInv, Registry
    <3>2. /\ IsFiniteSet(seqs \cup {s})
          /\ Cardinality(seqs \cup {s}) = IF s \in seqs THEN Cardinality(seqs)
                                          ELSE Cardinality(seqs) + 1
      BY <3>1, FS_AddElement
    <3>3. QED
      BY <1>2, <3>2
  <2>2. Cardinality(seqs) \in Nat /\ MaxSymbols \in Nat
    BY FS_CardinalityType, Limits DEF IInv, Registry
  <2>3. SymbolsBounded'
    BY <2>1, <2>2 DEF SymbolsBounded
  <2>4. QED
    BY <1>1, <1>2, <2>1, <2>3 DEF IInv, TypeOK, Registry, Running
<1>6. Subscribed' /\ NoneLeft'
  BY <1>3 DEF IInv, TypeOK, Subscribed, NoneLeft, RPCs, Returned, feedVars
<1>7. Served'
  <2>1. ASSUME NEW t \in Symbols, goroutine'[t] \in Callers
        PROVE  goroutine'[t] = goroutine[t] /\ goroutine[t] # r
    BY <1>1, <1>2, <2>1, ServerAssumption DEF IInv, TypeOK, Served
  <2>2. \A c \in executed : c # r
    BY DEF IInv, Served
  <2>3. QED
    BY <1>3, <2>1, <2>2 DEF IInv, TypeOK, Served, RPCs
<1>8. Counted'
  <2>1. \A t \in Symbols : \A c \in executed : goroutine'[t] = c <=> goroutine[t] = c
    BY <1>1, <1>2, ServerAssumption DEF IInv, TypeOK
  <2>2. QED
    BY <2>1, CountStays DEF IInv, feedVars
<1>9. FeedFaithful'
  BY FeedStays DEF IInv
<1>10. QED
  BY <1>4, <1>5, <1>6, <1>7, <1>8, <1>9 DEF IInv

LEMMA CreateIInv ==
    ASSUME IInv, NEW r \in RPCs, Running, Create(r)
    PROVE  IInv'
<1>1. /\ rpc[r] = "create" /\ UNCHANGED <<phase, forced, sym, executed>>
  BY DEF Create
<1>2. CASE sym[r] \in seqs /\ Proceeds(r) /\ UNCHANGED <<registryVars, feedVars>>
  <2>1. PICK place \in {"send", "stream"} :
          Goes(r, place) /\ (r \in Subscribers => place = "stream")
    BY <1>2, ServerAssumption DEF Proceeds
  <2>2. place \in Places
    BY DEF Places
  <2>3. QED
    BY <1>1, <1>2, <2>1, <2>2, MoveIInv DEF Returned
<1>3. CASE Returns(r, "refused") /\ UNCHANGED registryVars
  BY <1>1, <1>3, ReturnIInv DEF Returned
<1>4. CASE sym[r] \notin seqs /\ Cardinality(seqs) < MaxSymbols /\ NewSequencer(r)
  BY <1>1, <1>3, <1>4, NewSequencerIInv DEF NewSequencer
<1>5. QED
  BY <1>2, <1>3, <1>4 DEF Create

-----------------------------------------------------------------------------
(* The sequencer goroutine.                                                *)

LEMMA TakeIInv ==
    ASSUME IInv, NEW c \in Callers, Take(c)
    PROVE  IInv'
<1> DEFINE s == sym[c]
<1>1. /\ rpc[c] = "send" /\ goroutine[s] = "idle" /\ s \in Symbols /\ c \in RPCs
      /\ executed' \in {executed, executed \cup {c}}
      /\ goroutine' = [goroutine EXCEPT ![s] = c] /\ rpc' = [rpc EXCEPT ![c] = "taken"]
      /\ UNCHANGED <<phase, forced, seqs, writers, sym, feedVars>>
      /\ c \notin {"none", "idle", "stopped"} /\ c \notin Subscribers /\ s = sym[c]
  BY ServerAssumption DEF Take, Goes, RPCs, IInv, TypeOK
<1> HIDE DEF s
<1>2. c \notin executed
  BY <1>1 DEF IInv, Served
<1>3. TypeOK'
  BY <1>1 DEF IInv, TypeOK, Places, feedVars
<1>4. Registry'
  BY <1>1 DEF IInv, TypeOK, Registry, SymbolsBounded, Running
<1>5. Subscribed' /\ NoneLeft'
  BY <1>1 DEF IInv, TypeOK, Subscribed, NoneLeft, RPCs, Returned, feedVars
<1>6. Served'
  <2>1. ASSUME NEW t \in Symbols, goroutine'[t] \in Callers
        PROVE  sym[goroutine'[t]] = t /\ rpc'[goroutine'[t]] \in {"taken", "left"}
    BY <1>1, <2>1 DEF IInv, TypeOK, Served, RPCs
  <2>2. ASSUME NEW d \in executed' PROVE rpc'[d] \in {"taken", "settle", "replied", "left"}
    BY <1>1, <2>2 DEF IInv, TypeOK, Served, RPCs
  <2>3. QED
    BY <1>1, <2>1, <2>2 DEF Served
<1>7. Counted'
  <2>1. ASSUME NEW t \in Symbols PROVE Traded(t)' = Traded(t)
    <3>1. \A d \in executed : goroutine'[t] # d <=> goroutine[t] # d
      BY <1>1, <1>2, ServerAssumption DEF IInv, TypeOK
    <3>2. sym'[c] = t => goroutine'[t] = c
      BY <1>1 DEF IInv, TypeOK
    <3>3. QED
      BY <1>1, <3>1, <3>2 DEF Traded
  <2>2. QED
    BY <1>1, <2>1 DEF IInv, Counted, feedVars
<1>8. FeedFaithful'
  BY <1>1, FeedStays DEF IInv
<1>9. QED
  BY <1>3, <1>4, <1>5, <1>6, <1>7, <1>8 DEF IInv

LEMMA StopSequencerIInv ==
    ASSUME IInv, NEW s \in Symbols, StopSequencer(s)
    PROVE  IInv'
<1>1. /\ goroutine[s] = "idle" /\ goroutine' = [goroutine EXCEPT ![s] = "stopped"]
      /\ writers' = [writers EXCEPT ![s] = 0]
      /\ UNCHANGED <<phase, forced, seqs, rpc, sym, feedVars, executed>>
  BY DEF StopSequencer
<1>2. TypeOK' /\ Registry'
  BY <1>1 DEF IInv, TypeOK, feedVars, Registry, SymbolsBounded, Running
<1>3. Subscribed' /\ NoneLeft'
  BY <1>1 DEF IInv, Subscribed, NoneLeft, feedVars
<1>4. Served'
  BY <1>1, ServerAssumption DEF IInv, TypeOK, Served
<1>5. Counted'
  <2>1. \A t \in Symbols : \A c \in executed : goroutine'[t] = c <=> goroutine[t] = c
    BY <1>1, ServerAssumption DEF IInv, TypeOK
  <2>2. QED
    BY <1>1, <2>1, CountStays DEF IInv, feedVars
<1>6. FeedFaithful'
  BY <1>1, FeedStays DEF IInv
<1>7. QED
  BY <1>2, <1>3, <1>4, <1>5, <1>6 DEF IInv

(* tradeFeed.publish, of one subscriber: the batch joins the channel or is
   counted as dropped. *)
LEMMA PublishFaithful ==
    ASSUME NEW g \in Seq(Nat), NEW f \in Seq(Nat), NEW drops \in Nat, NEW lo \in Nat,
           NEW hi \in Nat, Faithful(g \o f, drops, lo, hi)
    PROVE  /\ Faithful(g \o Append(f, hi + 1), drops, lo, hi + 1)
           /\ Faithful(g \o f, drops + 1, lo, hi + 1)
<1> DEFINE old == g \o f
           new == g \o Append(f, hi + 1)
<1>1. old \in Seq(Nat) /\ Len(old) \in Nat
  BY ConcatProperties, LenProperties
<1>2. /\ new \in Seq(Nat) /\ Len(new) = Len(old) + 1 /\ new[Len(old) + 1] = hi + 1
      /\ \A k \in 1 .. Len(old) : new[k] = old[k]
  BY PublishSeen
<1> HIDE DEF old, new
<1>3. /\ Len(old) + drops = hi - lo
      /\ \A k \in 1 .. Len(old) : old[k] \in lo + 1 .. hi
  BY DEF Faithful, old
<1>4. \A k \in 1 .. Len(old) - 1 : old[k] < old[k + 1]
  BY Zenon DEF Faithful, old
<1>5. Len(old) + drops + 1 = (hi + 1) - lo /\ lo <= hi
  BY <1>1, <1>3
<1>6. Faithful(old, drops + 1, lo, hi + 1)
  <2>1. Len(old) + (drops + 1) = (hi + 1) - lo
    BY <1>1, <1>5
  <2>2. \A k \in 1 .. Len(old) : old[k] \in lo + 1 .. hi + 1
    BY <1>3
  <2>3. QED
    BY <1>4, <2>1, <2>2, Zenon DEF Faithful
<1>7. Faithful(new, drops, lo, hi + 1)
  <2>1. Len(new) + drops = (hi + 1) - lo
    BY <1>1, <1>2, <1>5
  <2>2. ASSUME NEW k \in 1 .. Len(new) PROVE new[k] \in lo + 1 .. hi + 1
    <3>1. CASE k \in 1 .. Len(old)
      <4>1. new[k] = old[k] /\ old[k] \in lo + 1 .. hi
        BY <1>2, <1>3, <3>1
      <4>2. QED
        BY <4>1
    <3>2. CASE k = Len(old) + 1
      BY <1>2, <1>5, <3>2
    <3>3. QED
      BY <1>1, <1>2, <3>1, <3>2
  <2>3. ASSUME NEW k \in 1 .. Len(new) - 1 PROVE new[k] < new[k + 1]
    <3>1. k \in 1 .. Len(old)
      BY <1>1, <1>2
    <3>2. CASE k = Len(old)
      <4>1. new[k] \in lo + 1 .. hi /\ new[k + 1] = hi + 1
        BY <1>2, <1>3, <3>1, <3>2
      <4>2. QED
        BY <4>1
    <3>3. CASE k # Len(old)
      <4>1. k \in 1 .. Len(old) - 1 /\ k + 1 \in 1 .. Len(old)
        BY <1>1, <3>1, <3>3
      <4>2. old[k] < old[k + 1]
        BY <1>4, <4>1
      <4>3. new[k] = old[k] /\ new[k + 1] = old[k + 1]
        BY <1>2, <3>1, <4>1
      <4>4. QED
        BY <4>2, <4>3
    <3>4. QED
      BY <3>2, <3>3
  <2>4. QED
    BY <2>1, <2>2, <2>3, Zenon DEF Faithful
<1>8. QED
  BY <1>6, <1>7 DEF old, new

(* tradeFeed.publish. *)
LEMMA PublishFeed ==
    ASSUME IInv, NEW s \in Symbols, Publish(s), UNCHANGED <<got, from, sym>>
    PROVE  /\ FeedFaithful'
           /\ feed' \in [Subscribers -> Seq(Nat)] /\ dropped' \in [Subscribers -> Nat]
           /\ \A r \in Subscribers : Len(feed'[r]) <= FeedBuffer
           /\ \A r \in Subscribers : feed'[r] # NoChannel <=> feed[r] # NoChannel
           /\ \A r \in Subscribers : feed[r] = NoChannel => dropped'[r] = dropped[r]
<1> DEFINE n == published[s] + 1
<1>1. Cardinality(Callers) \in Nat
  BY FS_CardinalityType, ServerAssumption
<1>2. /\ published[s] \in Nat /\ n \in Nat /\ n # 0
      /\ published \in [Symbols -> 0 .. Cardinality(Callers)] /\ sym \in [RPCs -> Symbols]
      /\ feed \in [Subscribers -> Seq(Nat)] /\ got \in [Subscribers -> Seq(Nat)]
      /\ from \in [Subscribers -> Nat] /\ dropped \in [Subscribers -> Nat]
      /\ FeedBuffer \in Nat
  BY <1>1, Limits DEF IInv, TypeOK
<1>3. /\ published' = [published EXCEPT ![s] = n]
      /\ feed' = [r \in Subscribers |->
                    IF r \in Listeners(s) /\ ~Full(r) THEN Append(feed[r], n) ELSE feed[r]]
      /\ dropped' = [r \in Subscribers |->
                       dropped[r] + IF r \in Listeners(s) /\ Full(r) THEN 1 ELSE 0]
  BY DEF Publish
<1> HIDE DEF n
<1>4. ASSUME NEW r \in Subscribers
      PROVE  /\ feed'[r] \in Seq(Nat) /\ dropped'[r] \in Nat /\ Len(feed'[r]) <= FeedBuffer
             /\ feed'[r] # NoChannel <=> feed[r] # NoChannel
             /\ feed[r] = NoChannel => dropped'[r] = dropped[r]
             /\ feed[r] # NoChannel =>
                  Faithful(got[r] \o feed'[r], dropped'[r], from[r], published'[sym[r]])
  <2>1. /\ feed[r] \in Seq(Nat) /\ Len(feed[r]) \in Nat /\ Len(feed[r]) <= FeedBuffer
        /\ got[r] \in Seq(Nat) /\ dropped[r] \in Nat /\ from[r] \in Nat /\ sym[r] \in Symbols
    BY <1>2, LenProperties DEF IInv, TypeOK, RPCs
  <2>2. published[sym[r]] \in Nat
    BY <1>1, <1>2, <2>1
  <2>3. feed[r] # NoChannel =>
          Faithful(got[r] \o feed[r], dropped[r], from[r], published[sym[r]])
    BY FeedFaithfulEach DEF IInv
  <2>4. CASE r \notin Listeners(s)
    <3>1. feed'[r] = feed[r] /\ dropped'[r] = dropped[r]
      BY <1>3, <2>1, <2>4
    <3>2. feed[r] # NoChannel => published'[sym[r]] = published[sym[r]]
      BY <1>2, <1>3, <2>1, <2>4 DEF Listeners
    <3>3. QED
      BY <2>1, <2>3, <3>1, <3>2
  <2>5. CASE r \in Listeners(s)
    <3>1. feed[r] # NoChannel /\ sym[r] = s /\ published'[sym[r]] = published[s] + 1
      BY <1>2, <1>3, <2>5 DEF Listeners, n
    <3>2. Faithful(got[r] \o feed[r], dropped[r], from[r], published[s])
      BY <2>3, <3>1
    <3>3. /\ Faithful(got[r] \o Append(feed[r], n), dropped[r], from[r], published[s] + 1)
          /\ Faithful(got[r] \o feed[r], dropped[r] + 1, from[r], published[s] + 1)
      BY <1>2, <2>1, <3>2, PublishFaithful DEF n
    <3>4. CASE Full(r)
      <4>1. feed'[r] = feed[r] /\ dropped'[r] = dropped[r] + 1
        BY <1>3, <2>5, <3>4
      <4>2. QED
        BY <2>1, <3>1, <3>3, <4>1
    <3>5. CASE ~Full(r)
      <4>1. feed'[r] = Append(feed[r], n) /\ dropped'[r] = dropped[r]
        BY <1>3, <2>1, <2>5, <3>5
      <4>2. /\ Append(feed[r], n) \in Seq(Nat) /\ Len(Append(feed[r], n)) = Len(feed[r]) + 1
            /\ Append(feed[r], n)[Len(feed[r]) + 1] = n
        BY <1>2, <2>1, AppendProperties
      <4>3. Len(feed[r]) + 1 <= FeedBuffer
        BY <1>2, <2>1, <3>5 DEF Full
      <4>4. Append(feed[r], n) # NoChannel
        <5>1. CASE Len(feed[r]) = 0
          <6>1. Append(feed[r], n)[1] = n
            BY <4>2, <5>1
          <6>2. NoChannel[1] = 0
            BY Limits
          <6>3. QED
            BY <1>2, <6>1, <6>2
        <5>2. CASE Len(feed[r]) # 0
          <6>1. Len(NoChannel) = 1
            BY Limits
          <6>2. Len(Append(feed[r], n)) # 1
            BY <2>1, <4>2, <5>2
          <6>3. QED
            BY <6>1, <6>2
        <5>3. QED
          BY <5>1, <5>2
      <4>5. QED
        BY <2>1, <3>1, <3>3, <4>1, <4>2, <4>3, <4>4
    <3>6. QED
      BY <3>4, <3>5
  <2>6. QED
    BY <2>4, <2>5
<1>5. feed' \in [Subscribers -> Seq(Nat)] /\ dropped' \in [Subscribers -> Nat]
  BY <1>3, <1>4
<1>6. FeedFaithful'
  <2>1. \A r \in Subscribers : feed'[r] # NoChannel =>
          Faithful(got'[r] \o feed'[r], dropped'[r], from'[r], published'[sym'[r]])
    BY <1>4
  <2>2. QED
    BY <2>1 DEF FeedFaithful, Faithful
<1>7. QED
  BY <1>4, <1>5, <1>6

(* StreamTrades sends a batch. *)
LEMMA DeliverIInv ==
    ASSUME IInv, NEW r \in Subscribers, Deliver(r)
    PROVE  IInv'
<1>1. /\ rpc[r] = "stream" /\ feed[r] # <<>>
      /\ got' = [got EXCEPT ![r] = Append(got[r], Head(feed[r]))]
      /\ feed' = [feed EXCEPT ![r] = Tail(feed[r])]
      /\ UNCHANGED <<phase, forced, registryVars, rpc, sym, feeds, published, from, dropped, executed>>
  BY DEF Deliver
<1>2. /\ feed[r] \in Seq(Nat) /\ got[r] \in Seq(Nat) /\ Len(feed[r]) \in Nat \ {0}
      /\ feed \in [Subscribers -> Seq(Nat)] /\ got \in [Subscribers -> Seq(Nat)]
      /\ Len(feed[r]) <= FeedBuffer /\ FeedBuffer \in Nat /\ from[r] \in Nat
      /\ published[sym[r]] \in Int
  BY <1>1, EmptySeq, Limits DEF IInv, TypeOK, RPCs
<1>3. /\ Head(feed[r]) \in Nat /\ Tail(feed[r]) \in Seq(Nat)
      /\ Len(Tail(feed[r])) = Len(feed[r]) - 1
      /\ \A i \in 1 .. Len(Tail(feed[r])) : Tail(feed[r])[i] = feed[r][i + 1]
      /\ Append(got[r], Head(feed[r])) \in Seq(Nat)
  BY <1>1, <1>2, HeadTailProperties, AppendProperties
<1>4. feed[r] # NoChannel
  BY <1>1 DEF IInv, Subscribed
<1>5. Faithful(got[r] \o feed[r], dropped[r], from[r], published[sym[r]])
  BY <1>4, FeedFaithfulEach DEF IInv
<1>6. Tail(feed[r]) # NoChannel
  <2>1. SUFFICES ASSUME Tail(feed[r]) = NoChannel PROVE FALSE
    OBVIOUS
  <2>2. Len(feed[r]) = 2 /\ feed[r][2] = 0
    <3>1. Len(Tail(feed[r])) = 1 /\ Tail(feed[r])[1] = 0
      <4>1. Len(NoChannel) = 1 /\ NoChannel[1] = 0
        BY Limits
      <4>2. QED
        BY <2>1, <4>1, Zenon
    <3>2. 1 \in 1 .. Len(Tail(feed[r])) /\ Len(feed[r]) = 2
      <4>1. Len(Tail(feed[r])) = Len(feed[r]) - 1 /\ Len(feed[r]) \in Nat
        BY <1>2, <1>3
      <4>2. QED
        BY <3>1, <4>1
    <3>3. Tail(feed[r])[1] = feed[r][1 + 1]
      BY <1>3, <3>2
    <3>4. QED
      BY <3>1, <3>2, <3>3
  <2>3. Len(got[r]) \in Nat /\ Len(got[r] \o feed[r]) = Len(got[r]) + 2
    <3>1. Len(got[r] \o feed[r]) = Len(got[r]) + Len(feed[r]) /\ Len(got[r]) \in Nat
      BY <1>2, ConcatProperties, LenProperties
    <3>2. QED
      BY <2>2, <3>1
  <2>4. (got[r] \o feed[r])[Len(got[r]) + 2] = feed[r][2]
    <3>1. Len(got[r]) + 2 \in 1 .. Len(got[r]) + Len(feed[r]) /\ ~(Len(got[r]) + 2 <= Len(got[r]))
          /\ (Len(got[r]) + 2) - Len(got[r]) = 2
      BY <2>2, <2>3
    <3>2. QED
      BY <1>2, <3>1, ConcatProperties
  <2>5. (got[r] \o feed[r])[Len(got[r]) + 2] \in from[r] + 1 .. published[sym[r]]
    <3>1. \A k \in 1 .. Len(got[r] \o feed[r]) :
            (got[r] \o feed[r])[k] \in from[r] + 1 .. published[sym[r]]
      BY <1>5, Zenon DEF Faithful
    <3>2. Len(got[r]) + 2 \in 1 .. Len(got[r] \o feed[r])
      BY <2>3
    <3>3. QED
      BY <3>1, <3>2
  <2>6. QED
    BY <1>2, <2>2, <2>4, <2>5
<1>7. TypeOK'
  <2>1. /\ feed' \in [Subscribers -> Seq(Nat)] /\ got' \in [Subscribers -> Seq(Nat)]
    BY <1>1, <1>2, <1>3
  <2>2. \A q \in Subscribers : Len(feed'[q]) <= FeedBuffer
    BY <1>1, <1>2, <1>3 DEF IInv, TypeOK
  <2>3. QED
    BY <1>1, <2>1, <2>2 DEF IInv, TypeOK, registryVars
<1>8. Registry' /\ NoneLeft' /\ Served'
  BY <1>1 DEF IInv, Registry, SymbolsBounded, Running, registryVars, NoneLeft, Served
<1>9. Subscribed'
  BY <1>1, <1>2, <1>4, <1>6 DEF IInv, Subscribed
<1>10. Counted'
  BY <1>1, CountStays DEF IInv, registryVars
<1>11. FeedFaithful'
  <2>1. ASSUME NEW q \in Subscribers, feed'[q] # NoChannel
        PROVE  Faithful(got'[q] \o feed'[q], dropped'[q], from'[q], published'[sym'[q]])
    <3>1. CASE q = r
      <4>1. got'[r] \o feed'[r] = got[r] \o feed[r]
        BY <1>1, <1>2, DeliverSeen
      <4>2. QED
        BY <1>1, <1>5, <3>1, <4>1
    <3>2. CASE q # r
      <4>1. feed'[q] = feed[q] /\ got'[q] = got[q]
        BY <1>1, <1>2, <3>2
      <4>2. QED
        BY <1>1, <2>1, <4>1, FeedFaithfulEach DEF IInv
    <3>3. QED
      BY <3>1, <3>2
  <2>2. QED
    BY <2>1 DEF FeedFaithful, Faithful
<1>12. QED
  BY <1>7, <1>8, <1>9, <1>10, <1>11 DEF IInv

(* commit: the order of a caller, who may have left, is over. *)
LEMMA CommitIInv ==
    ASSUME IInv, NEW s \in Symbols, Commit(s)
    PROVE  IInv'
<1> DEFINE c == goroutine[s]
<1>1. /\ c \in Callers /\ c \in RPCs /\ c \notin Subscribers
      /\ sym[c] = s /\ rpc[c] \in {"taken", "left"}
      /\ c \notin {"none", "idle", "stopped"} /\ goroutine[s] = c
  BY ServerAssumption DEF Commit, IInv, Served, RPCs
<1>2. /\ goroutine' = [goroutine EXCEPT ![s] = "idle"]
      /\ rpc' = IF rpc[c] # "taken" THEN rpc
                ELSE [rpc EXCEPT ![c] = IF c \in executed THEN "settle" ELSE "replied"]
      /\ UNCHANGED <<phase, forced, seqs, writers, sym, executed>>
      /\ c \in executed => Publish(s) /\ UNCHANGED <<got, from>>
      /\ c \notin executed => UNCHANGED feedVars
  BY DEF Commit
<1> HIDE DEF c
<1>3. /\ goroutine \in [Symbols -> {"none", "idle", "stopped"} \cup Callers]
      /\ rpc \in [RPCs -> Places] /\ executed \subseteq Callers
      /\ published \in [Symbols -> 0 .. Cardinality(Callers)]
  BY DEF IInv, TypeOK
<1>4. rpc' \in [RPCs -> Places] /\ \A r \in Subscribers : rpc'[r] = rpc[r]
  BY <1>1, <1>2, <1>3 DEF Places, Returned, RPCs
<1>5. /\ feed' \in [Subscribers -> Seq(Nat)] /\ dropped' \in [Subscribers -> Nat]
      /\ \A r \in Subscribers : Len(feed'[r]) <= FeedBuffer
      /\ \A r \in Subscribers : feed'[r] # NoChannel <=> feed[r] # NoChannel
      /\ \A r \in Subscribers : feed[r] = NoChannel => dropped'[r] = dropped[r]
      /\ UNCHANGED <<got, from>> /\ FeedFaithful'
  <2>1. CASE c \in executed
    BY <1>2, <2>1, PublishFeed
  <2>2. CASE c \notin executed
    BY <1>2, <2>2, FeedStays DEF IInv, TypeOK, feedVars
  <2>3. QED
    BY <2>1, <2>2
<1>6. Registry'
  BY <1>1, <1>2, <1>3 DEF IInv, TypeOK, Registry, SymbolsBounded, Running
<1>7. Subscribed'
  BY <1>4, <1>5 DEF IInv, Subscribed
<1>8. Served'
  <2>1. ASSUME NEW t \in Symbols, goroutine'[t] \in Callers
        PROVE  sym[goroutine'[t]] = t /\ rpc'[goroutine'[t]] \in {"taken", "left"}
    <3>1. t # s /\ goroutine'[t] = goroutine[t]
      BY <1>2, <1>3, <2>1, ServerAssumption
    <3>2. goroutine[t] # c
      BY <1>1, <2>1, <3>1 DEF IInv, Served
    <3>3. rpc'[goroutine[t]] = rpc[goroutine[t]]
      BY <1>2, <1>3, <2>1, <3>1, <3>2 DEF RPCs
    <3>4. QED
      BY <2>1, <3>1, <3>3 DEF IInv, Served
  <2>2. ASSUME NEW d \in executed PROVE rpc'[d] \in {"taken", "settle", "replied", "left"}
    BY <1>1, <1>2, <1>3, <2>2 DEF IInv, Served, RPCs
  <2>3. QED
    BY <1>2, <2>1, <2>2 DEF Served
<1>9. NoneLeft'
  BY <1>1, <1>2, <1>3 DEF IInv, NoneLeft, Returned
<1>10. \A t \in Symbols, d \in executed : goroutine'[t] # d <=> (goroutine[t] # d \/ t = s)
  BY <1>2, <1>3, ServerAssumption
<1>11. Counted'
  <2>1. CASE c \notin executed
    <3>1. \A t \in Symbols : \A d \in executed : goroutine'[t] = d <=> goroutine[t] = d
      BY <1>1, <1>10, <2>1
    <3>2. QED
      BY <1>2, <2>1, <3>1, CountStays DEF IInv, feedVars
  <2>2. CASE c \in executed
    <3>1. published' = [published EXCEPT ![s] = published[s] + 1]
      BY <1>2, <2>2 DEF Publish
    <3>2. c \notin Traded(s) /\ IsFiniteSet(Traded(s))
      <4>1. Traded(s) \in SUBSET Callers /\ c \notin Traded(s)
        BY <1>1, <1>3 DEF Traded
      <4>2. QED
        BY <4>1, CallersCounted
    <3>3. Traded(s)' = Traded(s) \cup {c}
      BY <1>1, <1>2, <1>10, <2>2 DEF Traded
    <3>4. Cardinality(Traded(s) \cup {c}) = Cardinality(Traded(s)) + 1
      BY <3>2, FS_AddElement
    <3>5. ASSUME NEW t \in Symbols, t # s PROVE Traded(t)' = Traded(t)
      BY <1>2, <1>10, <3>5 DEF Traded
    <3>6. ASSUME NEW t \in Symbols PROVE published'[t] = Cardinality(Traded(t)')
      <4>1. CASE t = s
        BY <1>3, <3>1, <3>3, <3>4, <4>1 DEF IInv, Counted
      <4>2. CASE t # s
        BY <1>3, <3>1, <3>5, <4>2 DEF IInv, Counted
      <4>3. QED
        BY <4>1, <4>2
    <3>7. QED
      BY <3>6 DEF Counted
  <2>3. QED
    BY <2>1, <2>2
<1>12. published' \in [Symbols -> 0 .. Cardinality(Callers)]
  <2>1. CASE c \notin executed
    BY <1>2, <1>3, <2>1 DEF feedVars
  <2>2. CASE c \in executed
    <3>1. published' = [published EXCEPT ![s] = published[s] + 1]
      BY <1>2, <2>2 DEF Publish
    <3>2. Traded(s)' \in SUBSET Callers
      BY <1>2, <1>3 DEF Traded
    <3>3. Cardinality(Traded(s)') \in 0 .. Cardinality(Callers)
      BY <3>2, CallersCounted
    <3>4. published'[s] = Cardinality(Traded(s)')
      BY <1>11 DEF Counted
    <3>5. published[s] + 1 \in 0 .. Cardinality(Callers)
      <4>1. published'[s] = published[s] + 1
        BY <1>3, <3>1
      <4>2. QED
        BY <3>3, <3>4, <4>1, Zenon
    <3>6. QED
      BY <1>3, <3>1, <3>5
  <2>3. QED
    BY <2>1, <2>2
<1>13. TypeOK'
  <2>1. feeds' \subseteq Symbols
    BY <1>2 DEF Publish, Feed, feedVars, IInv, TypeOK
  <2>2. QED
    BY <1>2, <1>3, <1>4, <1>5, <1>12, <2>1 DEF IInv, TypeOK
<1>14. QED
  BY <1>5, <1>6, <1>7, <1>8, <1>9, <1>11, <1>13 DEF IInv

-----------------------------------------------------------------------------
(* main.                                                                   *)

(* A step of the shutdown: GracefulStop returns when no handler is left, and a
   registry that is closed is empty. *)
LEMMA ShutdownIInv ==
    ASSUME IInv, Running, Signal \/ Drained \/ Timeout \/ CloseRegistry \/ RegistryClosed
    PROVE  IInv'
<1>1. UNCHANGED <<goroutine, writers, rpc, sym, feedVars, executed>>
  BY DEF Signal, Drained, Timeout, CloseRegistry, RegistryClosed, registryVars
<1>2. Subscribed' /\ Served' /\ Counted' /\ FeedFaithful'
  BY <1>1, CountStays, FeedStays DEF IInv, Subscribed, Served, feedVars
<1>3. TypeOK'
  BY <1>1 DEF Signal, Drained, Timeout, CloseRegistry, RegistryClosed, registryVars, IInv,
              TypeOK, feedVars
<1>4. NoneLeft'
  BY <1>1 DEF Signal, Drained, Timeout, CloseRegistry, RegistryClosed, IInv, TypeOK, NoneLeft
<1>5. Registry'
  <2>1. CASE RegistryClosed
    <3>1. seqs' = {} /\ phase' = "exited"
      BY <2>1 DEF RegistryClosed
    <3>2. IsFiniteSet(seqs') /\ Cardinality(seqs') = 0
      BY <3>1, FS_EmptySet
    <3>3. SymbolsBounded'
      BY <3>2, Limits DEF SymbolsBounded
    <3>4. QED
      BY <1>1, <3>1, <3>2, <3>3 DEF IInv, Registry, Running
  <2>2. CASE ~RegistryClosed
    BY <1>1, <2>2 DEF Signal, Drained, Timeout, CloseRegistry, registryVars, IInv, Registry,
                      SymbolsBounded, Running
  <2>3. QED
    BY <2>1, <2>2
<1>6. QED
  BY <1>2, <1>3, <1>4, <1>5 DEF IInv

-----------------------------------------------------------------------------

LEMMA NextIInv == IInv /\ [Next]_vars => IInv'
<1> SUFFICES ASSUME IInv, [Next]_vars PROVE IInv'
  OBVIOUS
<1>1. CASE UNCHANGED vars
  <2>1. TypeOK' /\ Registry' /\ Subscribed' /\ Served' /\ NoneLeft'
    BY <1>1 DEF vars, registryVars, feedVars, IInv, TypeOK, Registry, SymbolsBounded, Running,
                Subscribed, Served, NoneLeft
  <2>2. Counted' /\ FeedFaithful'
    BY <1>1, CountStays, FeedStays DEF vars, registryVars, feedVars, IInv
  <2>3. QED
    BY <2>1, <2>2 DEF IInv
<1>2. CASE Next
  <2>1. Running
    BY <1>2 DEF Next
  <2>2. ASSUME NEW r \in RPCs, Handler(r) PROVE IInv'
    BY <2>1, <2>2, LookupIInv, CreateIInv, TakeIInv, SettleIInv, GiveUpIInv DEF Handler
  <2>3. ASSUME NEW c \in Callers, PlaceOrder(c) \/ GiveUp(c) PROVE IInv'
    BY <2>3, PlaceOrderIInv, GiveUpIInv
  <2>4. ASSUME NEW r \in Subscribers, StreamTrades(r) \/ Deliver(r) \/ HangUp(r) PROVE IInv'
    BY <2>4, StreamTradesIInv, DeliverIInv, HangUpIInv
  <2>5. ASSUME NEW s \in Symbols, Commit(s) \/ StopSequencer(s) PROVE IInv'
    BY <2>5, CommitIInv, StopSequencerIInv
  <2>6. CASE Signal \/ Drained \/ Timeout \/ CloseRegistry \/ RegistryClosed
    BY <2>1, <2>6, ShutdownIInv
  <2>7. QED
    BY <1>2, <2>2, <2>3, <2>4, <2>5, <2>6 DEF Next
<1>3. QED
  BY <1>1, <1>2

LEMMA AlwaysIInv == Spec => []IInv
BY InitIInv, NextIInv, PTL DEF Spec

(* However many calls race for however many new symbols, a log never has two
   Writers: the symbol is looked up again under the write lock, and one that is
   not in the registry was never opened. *)
THEOREM SingleWriter == Spec => []OneWriter
<1>1. IInv => OneWriter
  BY DEF IInv, Registry, OneWriter
<1>2. QED
  BY <1>1, AlwaysIInv, PTL

(* What clients can make grow stays within its limit, whatever the limits are:
   the sequencers of the registry, the batches that wait for a subscriber, and
   with them every variable keeps its type. *)
THEOREM LimitsHold == Spec => []Bounded
<1>1. IInv => Bounded
  BY DEF IInv, Registry, Bounded
<1>2. QED
  BY <1>1, AlwaysIInv, PTL

(* No batch is lost, reordered or sent twice between a sequencer and any of its
   subscribers, but for those counted as dropped, for any number of them and
   any buffer. *)
THEOREM FeedIsFaithful == Spec => []FeedFaithful
<1>1. IInv => FeedFaithful
  BY DEF IInv
<1>2. QED
  BY <1>1, AlwaysIInv, PTL

(* A process that was not forced to end exits with every order that traded
   answered, or left by its own client. *)
THEOREM NoAnswerMissing == Spec => []ExecutedIsAnswered
<1>1. IInv => ExecutedIsAnswered
  BY DEF IInv, TypeOK, NoneLeft, Served, ExecutedIsAnswered, Returned, RPCs
<1>2. QED
  BY <1>1, AlwaysIInv, PTL

=============================================================================
