----------------------------- MODULE Sequencer ------------------------------
(***************************************************************************)
(* The single-writer sequencer of one symbol (internal/oms/sequencer.go)   *)
(* over its write-ahead log (wal.go): callers in `do', pooled reply        *)
(* channels, the run/drain/commit goroutine, group commit with log         *)
(* failures, shutdown, power loss and recovery.                            *)
(*                                                                         *)
(* Three things are abstracted.  The book is the sequence `applied' of log *)
(* records it was given: matching is deterministic (module Book), so equal *)
(* sequences are equal books.  A record's payload is the call it came      *)
(* from.  The log is one sequence of records with two watermarks: records  *)
(* up to `flushed' are in the file, those up to `synced' are on the disk,  *)
(* the others are in the bufio.Writer.  Segments are left to the log's own *)
(* module; here a rotation is one of the ways an append can sync or fail.  *)
(***************************************************************************)
EXTENDS Integers, Sequences, FiniteSets

CONSTANTS
    Callers,      \* goroutines that call Submit, CancelFor and Snapshot
    MaxBatch,     \* maxBatch: the most requests one group commit covers
    MaxCalls,     \* bound: calls made
    MaxCrashes    \* bound: crashes and process exits

ASSUME MaxBatchAssumption == MaxBatch \in Nat \ {0}
ASSUME MaxCallsAssumption == MaxCalls \in Nat
ASSUME MaxCrashesAssumption == MaxCrashes \in Nat

VARIABLES
    \* callers
    cpc,          \* caller -> "idle", "sending" (first select), "waiting" (second)
    creq,         \* caller -> its request
    calls,        \* number of calls made; a call is identified by its number
    \* replyPool and the channels, numbered in order of creation
    pool, made, chan,
    \* the goroutine
    pc,           \* "select", "drain", "log", "apply", "stopped", "down"
    batch,        \* the requests of the group commit under way
    next,         \* next request of the batch to log, then to apply
    seq, startSeq, nextOrderID, walErr, lastPos,
    stopReq,      \* Close was called or the context was cancelled
    \* the log
    log, flushed, synced,
    writer,       \* "open", "latched" (bufio error), "closed" (no file)
    \* the book
    applied,      \* records given to the book, oldest first
    \* history
    acked,        \* records whose caller was sent a success
    refused,      \* records whose caller was sent the log's error
    crashes

callerVars == <<cpc, creq, calls>>
poolVars == <<pool, made, chan>>
seqVars == <<seq, startSeq, nextOrderID, walErr, lastPos>>
logVars == <<log, flushed, synced, writer>>
history == <<acked, refused, crashes>>
vars == <<callerVars, poolVars, pc, batch, next, seqVars, stopReq, logVars, applied, history>>

-----------------------------------------------------------------------------

Kinds == {"submit", "cancel", "snapshot"}
Calls == 1 .. MaxCalls
Channels == 1 .. MaxCalls

(* request.  preErr is the refusal of the pre-trade check. *)
Request ==
    [kind : Kinds, call : Calls, reply : Channels, seq : Nat, orderID : Nat,
     preErr : BOOLEAN]

NoRequest == [kind |-> "none"]

(* Mutant: the request is sent without its reply channel. *)
NewRequestWithoutReply(kind, call, ch) ==
    [kind |-> kind, call |-> call, reply |-> 0, seq |-> 0, orderID |-> 0,
     preErr |-> FALSE]

NewRequest(kind, call, ch) ==
    [kind |-> kind, call |-> call, reply |-> ch, seq |-> 0, orderID |-> 0,
     preErr |-> FALSE]

(* result.  `state' is the book a snapshot describes, as the number of records
   it was given. *)
NoState == -1
Result ==
    [call : Calls, seq : Nat, orderID : Nat, err : {"none", "pretrade", "wal"},
     state : Nat \cup {NoState}]

(* Record *)
Record == [seq : Nat, kind : {"submit", "cancel"}, call : Calls, orderID : Nat]

RecordOf(req) ==
    [seq |-> req.seq, kind |-> req.kind, call |-> req.call, orderID |-> req.orderID]

(* Mutant: an order the pre-trade check refused is logged like any other. *)
LoggedIfRefused(req) == req.kind # "snapshot"

(* logBatch skips what the pre-trade check refused and what changes nothing. *)
Logged(req) == ~req.preErr /\ req.kind # "snapshot"

Init ==
    /\ cpc = [c \in Callers |-> "idle"] /\ creq = [c \in Callers |-> NoRequest]
    /\ calls = 0
    /\ pool = {} /\ made = 0 /\ chan = [ch \in Channels |-> <<>>]
    /\ pc = "select" /\ batch = <<>> /\ next = 1
    /\ seq = 0 /\ startSeq = 0 /\ nextOrderID = 0 /\ walErr = FALSE /\ lastPos = 0
    /\ stopReq = FALSE
    /\ log = <<>> /\ flushed = 0 /\ synced = 0 /\ writer = "open"
    /\ applied = <<>>
    /\ acked = {} /\ refused = {} /\ crashes = 0

-----------------------------------------------------------------------------
(* Callers: do.                                                            *)

(* replyPool.Get: a pooled channel, or a new one. *)
Call(c, kind) ==
    /\ pc # "down"
    /\ cpc[c] = "idle" /\ calls < MaxCalls
    /\ calls' = calls + 1
    /\ \E ch \in pool \cup {made + 1} :
         /\ creq' = [creq EXCEPT ![c] = NewRequest(kind, calls + 1, ch)]
         /\ pool' = pool \ {ch}
         /\ made' = IF ch > made THEN ch ELSE made
    /\ cpc' = [cpc EXCEPT ![c] = "sending"]
    /\ UNCHANGED <<chan, pc, batch, next, seqVars, stopReq, logVars, applied, history>>

(* The caller leaves `do' and its request is forgotten. *)
Leave(c) ==
    /\ cpc' = [cpc EXCEPT ![c] = "idle"]
    /\ creq' = [creq EXCEPT ![c] = NoRequest]
    /\ UNCHANGED <<calls, made, pc, batch, next, seqVars, stopReq, logVars, applied, history>>

(* First select: the sequencer is closed, or the caller's context is done.
   The request was never sent. *)
GiveUpSending(c) ==
    /\ cpc[c] = "sending"
    /\ pool' = pool \cup {creq[c].reply}
    /\ UNCHANGED chan
    /\ Leave(c)

RefusedClosed(c) == pc = "stopped" /\ GiveUpSending(c)
CancelSending(c) == GiveUpSending(c)

(* Second select: the reply ... *)
GetReply(c) ==
    /\ cpc[c] = "waiting"
    /\ chan[creq[c].reply] # <<>>
    /\ chan' = [chan EXCEPT ![creq[c].reply] = Tail(@)]
    /\ pool' = pool \cup {creq[c].reply}
    /\ Leave(c)

(* Mutant: the channel of a request in flight goes back to the pool. *)
CancelWaitingPools(c) ==
    /\ cpc[c] = "waiting"
    /\ pool' = pool \cup {creq[c].reply}
    /\ UNCHANGED chan
    /\ Leave(c)

(* ... or the context, with the request in flight: its channel is dropped. *)
CancelWaiting(c) ==
    /\ cpc[c] = "waiting"
    /\ UNCHANGED <<pool, chan>>
    /\ Leave(c)

-----------------------------------------------------------------------------
(* The goroutine: run, drain and commit.                                   *)

Take(c) ==
    /\ cpc[c] = "sending"
    /\ cpc' = [cpc EXCEPT ![c] = "waiting"]
    /\ pc' = "drain"
    /\ UNCHANGED <<creq, calls, poolVars, next, seqVars, stopReq, logVars, applied, history>>

(* run: the first request of a batch. *)
Receive(c) ==
    /\ pc = "select"
    /\ batch' = <<creq[c]>>
    /\ Take(c)

(* drain: another request is ready and the batch has room. *)
Drain(c) ==
    /\ pc = "drain" /\ Len(batch) < MaxBatch
    /\ batch' = Append(batch, creq[c])
    /\ Take(c)

(* The number of submits among the first k requests. *)
Submits(k) == Cardinality({ j \in 1 .. k : batch[j].kind = "submit" })

(* A submit with its order identifier and the verdict of the pre-trade check. *)
Checked(req, id, no) ==
    IF req.kind = "submit" THEN [req EXCEPT !.orderID = id, !.preErr = no] ELSE req

(* The batch is complete and commit begins: every submit gets its order
   identifier, then the pre-trade check refuses some of them.  A log that has
   failed is not tried again. *)
Prepare ==
    /\ pc = "drain"
    /\ nextOrderID' = nextOrderID + Submits(Len(batch))
    /\ \E rejected \in SUBSET { k \in DOMAIN batch : batch[k].kind = "submit" } :
         batch' = [ k \in DOMAIN batch |->
                     Checked(batch[k], nextOrderID + Submits(k), k \in rejected) ]
    /\ pc' = IF walErr THEN "apply" ELSE "log"
    /\ startSeq' = seq
    /\ next' = 1
    /\ UNCHANGED <<callerVars, poolVars, seq, walErr, lastPos, stopReq, logVars, applied, history>>

(* logBatch skips a request. *)
SkipRecord ==
    /\ pc = "log" /\ next <= Len(batch)
    /\ ~Logged(batch[next])
    /\ next' = next + 1
    /\ UNCHANGED <<callerVars, poolVars, pc, batch, seqVars, stopReq, logVars, applied, history>>

(* Append returned nil: the record is in the buffer, the buffer may have
   spilled into the file, and a rotation may have synced what came before. *)
AppendRecord ==
    /\ pc = "log" /\ next <= Len(batch)
    /\ Logged(batch[next])
    /\ seq' = seq + 1
    /\ batch' = [batch EXCEPT ![next].seq = seq + 1]
    /\ log' = Append(log, RecordOf([batch[next] EXCEPT !.seq = seq + 1]))
    /\ \/ flushed' \in flushed .. Len(log) + 1 /\ UNCHANGED synced
       \/ flushed' = Len(log) /\ synced' = Len(log)
    /\ next' = next + 1
    /\ UNCHANGED <<callerVars, poolVars, pc, startSeq, nextOrderID, walErr, lastPos, stopReq,
                   writer, applied, history>>

(* Mutant: the batch is logged again. *)
LogFailsRetried ==
    /\ seq' = startSeq
    /\ UNCHANGED walErr
    /\ pc' = "log" /\ next' = 1

(* commit on an error of logBatch: the positions are taken back, the error
   sticks, the book is not touched. *)
LogFails ==
    /\ seq' = startSeq
    /\ walErr' = TRUE
    /\ pc' = "apply" /\ next' = 1

(* What a failed Flush leaves: a part of the buffer reached the file, and the
   bufio.Writer refuses everything from here on. *)
FlushFails ==
    /\ flushed' \in flushed .. Len(log)
    /\ log' = SubSeq(log, 1, flushed')
    /\ writer' = "latched"
    /\ UNCHANGED synced

(* Append returned an error: the payload was refused, the buffer did not
   spill, or the rotation failed to flush, to sync (the file is closed
   nevertheless) or to open the next segment. *)
AppendFails ==
    /\ pc = "log" /\ next <= Len(batch)
    /\ Logged(batch[next])
    /\ batch' = [batch EXCEPT ![next].seq = seq + 1]
    /\ \/ UNCHANGED logVars
       \/ FlushFails
       \/ flushed' = Len(log) /\ synced' \in {synced, Len(log)} /\ writer' = "closed"
          /\ UNCHANGED log
    /\ LogFails
    /\ UNCHANGED <<callerVars, poolVars, startSeq, nextOrderID, lastPos, stopReq, applied, history>>

(* Mutant: Sync flushes and does not fsync. *)
SyncWithoutFsync ==
    /\ flushed' = Len(log)
    /\ UNCHANGED <<log, synced, writer>>

(* Sync returned nil. *)
SyncOK ==
    /\ flushed' = Len(log) /\ synced' = Len(log)
    /\ UNCHANGED <<log, writer>>

(* Sync at the end of logBatch: flush and fsync. *)
Sync ==
    /\ pc = "log" /\ next > Len(batch)
    /\ SyncOK
    /\ pc' = "apply" /\ next' = 1
    /\ UNCHANGED <<callerVars, poolVars, batch, seqVars, stopReq, applied, history>>

(* The flush fails, or the fsync does after the flush has reached the file. *)
SyncFails ==
    /\ pc = "log" /\ next > Len(batch)
    /\ FlushFails \/ (flushed' = Len(log) /\ UNCHANGED <<log, synced, writer>>)
    /\ LogFails
    /\ UNCHANGED <<callerVars, poolVars, batch, startSeq, nextOrderID, lastPos, stopReq,
                   applied, history>>

(* Mutant: the batch ends at the first error. *)
NextReplyStopsAtError ==
    IF next = Len(batch) \/ walErr
    THEN /\ pc' = "select" /\ batch' = <<>> /\ next' = 1
         /\ lastPos' = seq
    ELSE /\ next' = next + 1
         /\ UNCHANGED <<pc, batch, lastPos>>

(* The last reply of the batch is followed by the gauges. *)
NextReply ==
    IF next = Len(batch)
    THEN /\ pc' = "select" /\ batch' = <<>> /\ next' = 1
         /\ lastPos' = seq
    ELSE /\ next' = next + 1
         /\ UNCHANGED <<pc, batch, lastPos>>

(* req.reply <- res: the channel holds one value, and the send waits for room. *)
Reply(req, position, err, state) ==
    /\ chan[req.reply] = <<>>
    /\ chan' = [chan EXCEPT ![req.reply] =
                  <<[call |-> req.call, seq |-> position, orderID |-> req.orderID,
                     err |-> err, state |-> state]>>]
    /\ NextReply
    /\ UNCHANGED <<callerVars, pool, made, seq, startSeq, nextOrderID, walErr, stopReq,
                   logVars, crashes>>

Applying == pc = "apply" /\ next <= Len(batch)

ServeSnapshot ==
    /\ Applying /\ batch[next].kind = "snapshot"
    /\ Reply(batch[next], seq, "none", Len(applied))
    /\ UNCHANGED <<applied, acked, refused>>

RejectPreTrade ==
    /\ Applying /\ batch[next].preErr
    /\ Reply(batch[next], batch[next].seq, "pretrade", NoState)
    /\ UNCHANGED <<applied, acked, refused>>

RejectWAL ==
    /\ Applying /\ Logged(batch[next]) /\ walErr
    /\ Reply(batch[next], batch[next].seq, "wal", NoState)
    /\ refused' = refused \cup {RecordOf(batch[next])}
    /\ UNCHANGED <<applied, acked>>

(* CancelOwned or SubmitOrder.  That the book itself may refuse a cancel is
   part of what it makes of the record. *)
Apply ==
    /\ Applying /\ Logged(batch[next]) /\ ~walErr
    /\ applied' = Append(applied, RecordOf(batch[next]))
    /\ acked' = acked \cup {RecordOf(batch[next])}
    /\ Reply(batch[next], batch[next].seq, "none", NoState)
    /\ UNCHANGED refused

(* Close, or the cancellation of the context the sequencer was given. *)
RequestStop ==
    /\ pc \notin {"stopped", "down"} /\ ~stopReq
    /\ stopReq' = TRUE
    /\ UNCHANGED <<callerVars, poolVars, pc, batch, next, seqVars, logVars, applied, history>>

(* Mutant: a log that failed is waited for instead of being given up. *)
StopWaitsForLog ==
    /\ pc = "select" /\ stopReq
    /\ IF writer = "open"
         THEN /\ pc' = "stopped"
              /\ SyncOK
              /\ UNCHANGED <<callerVars, poolVars, batch, next, seqVars, stopReq, applied,
                             history>>
         ELSE UNCHANGED vars

(* run: quit or ctx.Done is chosen, and closeWAL syncs what is buffered. *)
Stop ==
    /\ pc = "select" /\ stopReq
    /\ pc' = "stopped"
    /\ \/ writer = "open" /\ (SyncOK \/ FlushFails \/
                              (flushed' = Len(log) /\ UNCHANGED <<log, synced, writer>>))
       \/ writer # "open" /\ UNCHANGED logVars
    /\ UNCHANGED <<callerVars, poolVars, batch, next, seqVars, stopReq, applied, history>>

-----------------------------------------------------------------------------
(* Crashes and recovery.                                                   *)

(* The process exits or the machine loses power: memory is gone, and of the
   file at least what was synced is left.  Calls under way fail. *)
Crash ==
    /\ pc # "down" /\ crashes < MaxCrashes
    /\ crashes' = crashes + 1
    /\ pc' = "down"
    /\ \E n \in synced .. flushed : log' = SubSeq(log, 1, n) /\ flushed' = n
    /\ writer' = "closed"
    /\ cpc' = [c \in Callers |-> "idle"] /\ creq' = [c \in Callers |-> NoRequest]
    /\ pool' = {} /\ made' = 0 /\ chan' = [ch \in Channels |-> <<>>]
    /\ batch' = <<>> /\ next' = 1
    /\ UNCHANGED <<calls, seqVars, stopReq, synced, applied, acked, refused>>

(* Mutant: a restart numbers orders from 1. *)
MaxIDForgotten(records) == 0

(* The highest order identifier the replayed book has seen. *)
MaxID(records) ==
    LET ids == {0} \cup { records[k].orderID : k \in DOMAIN records }
    IN  CHOOSE m \in ids : \A id \in ids : id <= m

(* Mutant: a restart numbers records from 1. *)
LastSeqForgotten == 0

(* Writer.LastSeq after OpenWriter has scanned the log. *)
LastSeq == IF log = <<>> THEN 0 ELSE log[Len(log)].seq

(* Mutant: the last record is taken for a torn one. *)
RecoveredButLast == SubSeq(log, 1, Len(log) - 1)

(* Recover: every record of the log, in order. *)
Recovered == log

(* Registry.newSequencer: Recover replays the whole log into a new book,
   OpenWriter syncs the file, and NewSequencerWithWAL takes up the position
   and the order identifiers. *)
Restart ==
    /\ pc = "down"
    /\ applied' = Recovered
    /\ flushed' = Len(log) /\ synced' = Len(log) /\ writer' = "open"
    /\ seq' = LastSeq /\ startSeq' = LastSeq
    /\ nextOrderID' = MaxID(log)
    /\ walErr' = FALSE /\ lastPos' = 0 /\ stopReq' = FALSE
    /\ pc' = "select"
    /\ UNCHANGED <<callerVars, poolVars, batch, next, log, history>>

(* The sequencer is stopped and nobody is calling: the process may end here. *)
Finished ==
    /\ pc = "stopped" /\ \A c \in Callers : cpc[c] = "idle"
    /\ UNCHANGED vars

-----------------------------------------------------------------------------

CommitStep ==
    Prepare \/ SkipRecord \/ AppendRecord \/ AppendFails \/ Sync \/ SyncFails
    \/ ServeSnapshot \/ RejectPreTrade \/ RejectWAL \/ Apply

CallerStep(c) ==
    \/ \E kind \in Kinds : Call(c, kind)
    \/ RefusedClosed(c) \/ CancelSending(c) \/ GetReply(c) \/ CancelWaiting(c)

Next ==
    \/ \E c \in Callers : CallerStep(c) \/ Receive(c) \/ Drain(c)
    \/ CommitStep
    \/ RequestStop \/ Stop
    \/ Crash \/ Restart
    \/ Finished

(***************************************************************************)
(* The goroutine keeps running, and a caller whose select has a ready case *)
(* leaves it.  A sender blocked on the unbuffered channel is served in     *)
(* turn, so it is not passed over for ever, and Go's select picks among    *)
(* ready cases at random, so `quit' is not passed over for ever either:    *)
(* strong fairness for both.  Neither calls, cancellations, Close, crashes *)
(* nor restarts have to happen.                                            *)
(***************************************************************************)
Fairness ==
    /\ WF_vars(CommitStep)
    /\ SF_vars(Stop)
    /\ \A c \in Callers :
         /\ SF_vars(Receive(c) \/ Drain(c))
         /\ WF_vars(GetReply(c))
         /\ WF_vars(RefusedClosed(c))

Spec == Init /\ [][Next]_vars /\ Fairness

-----------------------------------------------------------------------------

(* Every variable has its type. *)
TypeOK ==
    /\ cpc \in [Callers -> {"idle", "sending", "waiting"}]
    /\ creq \in [Callers -> Request \cup {NoRequest}]
    /\ \A c \in Callers : cpc[c] # "idle" => creq[c] \in Request
    /\ calls \in 0 .. MaxCalls
    /\ pool \subseteq Channels /\ made \in 0 .. MaxCalls
    /\ chan \in [Channels -> Seq(Result)]
    /\ pc \in {"select", "drain", "log", "apply", "stopped", "down"}
    /\ batch \in Seq(Request) /\ next \in Nat \ {0}
    /\ seq \in Nat /\ startSeq \in Nat /\ nextOrderID \in Nat /\ lastPos \in Nat
    /\ walErr \in BOOLEAN /\ stopReq \in BOOLEAN
    /\ log \in Seq(Record) /\ flushed \in Nat /\ synced \in Nat
    /\ writer \in {"open", "latched", "closed"}
    /\ applied \in Seq(Record)
    /\ acked \subseteq Record /\ refused \subseteq Record
    /\ crashes \in 0 .. MaxCrashes

(* A mutation whose caller was told it succeeded is on the disk, in every
   state, through log failures, power loss and restarts: nothing acknowledged
   can be lost. *)
AckedIsDurable == \A r \in acked : \E k \in 1 .. synced : log[k] = r

(* The book is never ahead of the disk: what it was given is a prefix of the
   durable log, so a crash at any moment recovers at least that book. *)
AppliedIsDurable ==
    /\ Len(applied) <= synced
    /\ \A k \in 1 .. Len(applied) : applied[k] = log[k]

(* Log positions number the records 1, 2, 3, ... however many batches failed
   and were rolled back and however often the process restarted: none is
   reissued or skipped. *)
PositionsDense == \A k \in 1 .. Len(log) : log[k].seq = k

(* A call takes effect at most once: no failure or restart logs it again, and
   until the process is started again one whose caller was told that the log failed
   is not in the book, whichever part of its batch had reached the file.  Only a
   recovery that finds it there may still apply it. *)
LoggedOnce ==
    /\ \A j, k \in 1 .. Len(log) : log[j].call = log[k].call => j = k
    /\ crashes = 0 => \A r \in refused : \A k \in DOMAIN applied : applied[k].call # r.call

(* Order identifiers ascend along the log, across restarts: a recovered book
   never meets the identifier of an order it has, and time priority, which the
   book takes from the order of arrival, is the order of identifiers. *)
OrderIDsAscend ==
    \A j, k \in 1 .. Len(log) :
        j < k /\ log[j].kind = "submit" /\ log[k].kind = "submit" =>
            log[j].orderID < log[k].orderID

(* A caller only ever finds the answer to its own call in its channel,
   although channels are reused and calls are abandoned half way. *)
RepliesMatch ==
    \A c \in Callers : cpc[c] = "waiting" =>
        \A k \in DOMAIN chan[creq[c].reply] : chan[creq[c].reply][k].call = creq[c].call

(* A pooled channel is empty, and no request the goroutine still has to answer
   holds it: the next caller to get it cannot receive a stale value. *)
PooledIsEmpty ==
    \A ch \in pool :
        /\ chan[ch] = <<>>
        /\ \A k \in next .. Len(batch) : pc # "select" => batch[k].reply # ch

(* What is true of the position a snapshot is labelled with: it covers every
   mutation the snapshot shows and is on the disk, also after a batch whose
   positions were taken back.  It may lie beyond the snapshot, see
   SnapshotAtPosition. *)
LabelCovers ==
    \A ch \in Channels : \A k \in DOMAIN chan[ch] :
        chan[ch][k].state # NoState =>
            chan[ch][k].state <= chan[ch][k].seq /\ chan[ch][k].seq <= synced

(* The goroutine never blocks on a reply: one caller that went away cannot stop
   the symbol. *)
ReplyNeverBlocks == Applying => chan[batch[next].reply] = <<>>

(* Reply channels are reused and calls are abandoned half way, and still nobody
   gets another's answer and nobody is waited for. *)
RepliesApart == RepliesMatch /\ PooledIsEmpty /\ ReplyNeverBlocks

(* The book is never rewound: not even a crash takes back a record it was
   given. *)
BookNeverRewinds ==
    [][\A k \in DOMAIN applied : k \in DOMAIN applied' /\ applied'[k] = applied[k]]_applied

(* Every call comes back: answered, refused, or given up by its caller. *)
CallsEnd == \A c \in Callers : (cpc[c] # "idle") ~> (cpc[c] = "idle")

(* Close returns: once asked to, the goroutine stops, whatever keeps arriving. *)
StopHappens == stopReq ~> (pc \in {"stopped", "down"})

(* The sequencer keeps its promise to callers. *)
Promise ==
    INSTANCE SequencerSpec WITH
        invoked <- calls,
        hist <- [k \in DOMAIN applied |-> applied[k].call],
        succeeded <- { r.call : r \in acked }
ImplementsSequencerSpec == Promise!Spec

-----------------------------------------------------------------------------
(* What the repository says of snapshots, and is not so.                   *)

(* Sequencer.Snapshot "reports the log position the snapshot was taken at, which
   is what makes two nodes' snapshots comparable after a failover": a snapshot
   labelled n shows the mutations up to n, all of them and no other. *)
SnapshotAtPosition ==
    \A ch \in Channels : \A k \in DOMAIN chan[ch] :
        chan[ch][k].state # NoState => chan[ch][k].state = chan[ch][k].seq

=============================================================================
