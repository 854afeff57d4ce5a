---------------------------- MODULE Replication -----------------------------
(***************************************************************************)
(* One symbol's log shipped to a follower.  The primary is module Log;     *)
(* its StreamWAL handler (internal/api/replication.go) reads the segment   *)
(* files with a Tailer (internal/oms/tail.go) while the sequencer writes   *)
(* and rotates them, and sends what it finds.  The follower                *)
(* (internal/replica) appends each batch to a log of its own, syncs it and *)
(* only then applies it, and asks for everything above its own position    *)
(* when it reconnects.  Either process or machine may stop at any point.   *)
(***************************************************************************)
EXTENDS Integers, Sequences, SequencesExt, FiniteSetsExt

CONSTANTS
    SegmentCap, FsyncNames, MaxRecords, MaxFaults, MaxCrashes,  \* as in module Log
    BatchCap,        \* walBatchCap
    NetCap,          \* batches the transport's flow control lets be in flight
    MaxFollowerFaults,    \* bound: failures of the follower's log or connection
    MaxFollowerCrashes    \* bound, as the primary's

ASSUME LogAssumption ==
    /\ SegmentCap \in Nat \ {0} /\ FsyncNames \in BOOLEAN
    /\ MaxRecords \in Nat \ {0} /\ MaxFaults \in Nat /\ MaxCrashes \in Nat

ASSUME ReplicationAssumption ==
    /\ BatchCap \in Nat \ {0} /\ NetCap \in Nat \ {0}
    /\ MaxFollowerFaults \in Nat /\ MaxFollowerCrashes \in Nat

VARIABLES
    segs, w, node, pos, book, ids, faults, crashes,   \* the primary, as in module Log
    tail,      \* the StreamWAL handler and its Tailer
    net,       \* batches sent and not yet received
    ending,    \* what follows the last of them: "" while the stream is open
    progress,  \* ReplicationServer.progress: the position last reported, or None
    fsegs, fw, \* the follower's log
    rep,       \* the follower
    ffaults, fcrashes,
    raced,     \* history: the Tailer has left records behind in a segment
    rewound,   \* history: the primary has lost records that were in its files
    retried    \* history: the follower has given up a batch it had begun to store

primaryVars == <<segs, w, node, pos, book, ids, faults, crashes>>
streamVars == <<tail, net, ending, raced>>
followerVars == <<fsegs, fw, rep, ffaults, fcrashes, retried>>
vars == <<primaryVars, streamVars, followerVars, progress, rewound>>

P == INSTANCE Log
F == INSTANCE Wal WITH segs <- fsegs, w <- fw

None == -1

(***************************************************************************)
(* The Tailer has returned everything up to `after' and has read the first *)
(* `off' records of `seg'; `out' is what poll has collected.               *)
(***************************************************************************)
NewTailer(after) == [at |-> "locate", after |-> after, seg |-> 0, off |-> 0, out |-> <<>>]
NoTailer == [at |-> "none", after |-> 0, seg |-> 0, off |-> 0, out |-> <<>>]

(***************************************************************************)
(* The follower.  at: "start" (not listed yet), "open" (openSymbol),       *)
(* "connect" (between streams), "recv", "append" (in apply), "stopped" (it *)
(* does not follow the symbol any more) or "closed".  `fresh' is the batch *)
(* being applied and `todo' the part of it not yet appended.               *)
(***************************************************************************)
NewReplica == [at |-> "start", position |-> 0, book |-> <<>>, fresh |-> <<>>, todo |-> <<>>]

Init ==
    /\ P!Init
    /\ tail = NoTailer /\ net = <<>> /\ ending = "broken" /\ progress = None
    /\ fsegs = <<>> /\ fw = F!NoWriter /\ rep = NewReplica
    /\ ffaults = 0 /\ fcrashes = 0
    /\ raced = FALSE /\ rewound = FALSE /\ retried = FALSE

-----------------------------------------------------------------------------
(* The primary's process.                                                  *)

PrimaryStep ==
    /\ P!Next /\ crashes' = crashes
    /\ UNCHANGED <<streamVars, followerVars, progress, rewound>>

(* The process serves RPCs: reg.Get returns a sequencer, which may have given
   up its log, and GracefulStop has not begun. *)
Serving == node \in {"up", "failed"}

(* The stream ends with what has reached the follower by then: batches, and the
   status it had ended with, may be lost. *)
StreamCut ==
    /\ tail # NoTailer \/ ending = "dataloss"
    /\ tail' = NoTailer /\ ending' = "broken"
    /\ \E n \in 0 .. Len(net) : net' = SubSeq(net, 1, n)

PrimaryHalts ==
    /\ P!Halt
    /\ StreamCut \/ (tail = NoTailer /\ UNCHANGED <<tail, net, ending>>)
    /\ progress' = None
    /\ rewound' = (rewound \/ Len(P!Recover(segs')) < Len(P!Recover(segs)))
    /\ UNCHANGED <<followerVars, raced>>

-----------------------------------------------------------------------------
(* StreamWAL: poll, one step per look at the directory or at a file, and   *)
(* Send.                                                                   *)

TailOnly == UNCHANGED <<primaryVars, followerVars, progress, rewound>>

(* Mutant: the segment is taken to be named for the position wanted. *)
SegmentOfNamed(want) == want

(* Mutant: a stream starts at the newest segment. *)
SegmentOfNewest(want) == Max(DOMAIN segs)

(* The last segment whose first position is at or below the one wanted, or the
   first of all. *)
SegmentOf(want) ==
    LET below == { n \in DOMAIN segs : n <= want }
    IN  IF below = {} THEN Min(DOMAIN segs) ELSE Max(below)

LocateSegment ==
    /\ tail.at = "locate" /\ segs # <<>>
    /\ tail' = [tail EXCEPT !.at = "read", !.off = 0, !.seg = SegmentOf(tail.after + 1)]
    /\ UNCHANGED <<net, ending, raced>> /\ TailOnly

(* readSegment reads the next record and takes it if it is above `after'; poll
   goes on until the batch is full. *)
ReadSegment ==
    /\ tail.at = "read" /\ segs[tail.seg].ok
    /\ tail.off < Len(segs[tail.seg].recs)
    /\ LET rec == segs[tail.seg].recs[tail.off + 1]
           out == Append(tail.out, rec)
       IN  tail' = IF rec.seq <= tail.after THEN [tail EXCEPT !.off = @ + 1]
                   ELSE [tail EXCEPT !.off = @ + 1, !.after = rec.seq, !.out = out,
                             !.at = IF Len(out) = BatchCap THEN "send" ELSE "read"]
    /\ UNCHANGED <<net, ending, raced>> /\ TailOnly

(* readSegment found none.  The directory is looked at after this. *)
SegmentExhausted ==
    /\ tail.at = "read" /\ segs[tail.seg].ok
    /\ tail.off = Len(segs[tail.seg].recs)
    /\ tail' = [tail EXCEPT !.at = "advance"]
    /\ UNCHANGED <<net, ending, raced>> /\ TailOnly

(* OpenReaderAt returned ErrCorruptWAL: what poll had collected is dropped and
   the stream ends with DataLoss. *)
DamagedSegment ==
    /\ tail.at = "read" /\ ~segs[tail.seg].ok
    /\ tail' = NoTailer /\ ending' = "dataloss"
    /\ UNCHANGED <<net, raced>> /\ TailOnly

(* Mutant: poll returns at the end of a segment. *)
AdvanceReturns ==
    /\ tail.at = "advance"
    /\ tail' = [tail EXCEPT !.at = IF tail.out = <<>> THEN "read" ELSE "send"]
    /\ UNCHANGED <<net, ending, raced>> /\ TailOnly

(* nextSegment, when there is one. *)
NextSegment == Min({ n \in DOMAIN segs : n > tail.seg })

Advance ==
    /\ tail.at = "advance"
    /\ IF \E n \in DOMAIN segs : n > tail.seg
       THEN /\ tail' = [tail EXCEPT !.seg = NextSegment, !.off = 0, !.at = "read"]
            /\ raced' = (raced \/ tail.off < Len(segs[tail.seg].recs))
       ELSE /\ tail' = [tail EXCEPT !.at = IF tail.out = <<>> THEN "read" ELSE "send"]
            /\ UNCHANGED raced
    /\ UNCHANGED <<net, ending>> /\ TailOnly

Send ==
    /\ tail.at = "send" /\ Len(net) < NetCap
    /\ net' = Append(net, tail.out)
    /\ tail' = [tail EXCEPT !.out = <<>>, !.at = "read"]
    /\ UNCHANGED <<ending, raced>> /\ TailOnly

StreamStep ==
    \/ LocateSegment \/ ReadSegment \/ SegmentExhausted \/ DamagedSegment \/ Advance \/ Send

(* The connection breaks between the two. *)
ConnectionBreaks ==
    /\ ffaults < MaxFollowerFaults
    /\ StreamCut
    /\ ffaults' = ffaults + 1
    /\ UNCHANGED <<primaryVars, fsegs, fw, rep, fcrashes, retried, raced, progress, rewound>>

-----------------------------------------------------------------------------
(* The follower.                                                           *)

FollowerOnly == UNCHANGED <<primaryVars, progress, rewound>>

(* Run and discover: ListSymbols names the symbol, and a goroutine follows it
   from then on, once and for all. *)
Discover ==
    /\ rep.at = "start" /\ Serving
    /\ rep' = [rep EXCEPT !.at = "open"]
    /\ UNCHANGED <<streamVars, fsegs, fw, ffaults, fcrashes, retried>> /\ FollowerOnly

(* openSymbol: Recover, then OpenWriter. *)
OpenSymbol ==
    /\ rep.at = "open"
    /\ \/ /\ F!OpenWriterOnNewest \/ F!FirstSegmentOpened
          /\ rep' = [rep EXCEPT !.at = "connect", !.book = F!Recover(fsegs),
                                !.position = F!HighestSeq(F!Recover(fsegs))]
       \/ (F!OpenWriterOnNothing \/ F!OpenSegmentStep) /\ UNCHANGED rep
    /\ UNCHANGED <<streamVars, ffaults, fcrashes, retried>> /\ FollowerOnly

(* openSymbol returned an error, and followSymbol returns. *)
OpenSymbolFails ==
    /\ rep.at = "open"
    /\ \/ F!Refused /\ UNCHANGED <<fsegs, fw, ffaults>>
       \/ /\ F!OpenWriterFails \/ F!OpenSegmentFails
          /\ ffaults < MaxFollowerFaults /\ ffaults' = ffaults + 1
    /\ rep' = [rep EXCEPT !.at = "stopped"]
    /\ UNCHANGED <<streamVars, fcrashes, retried>> /\ FollowerOnly

(* streamOnce: StreamWAL after the follower's own position. *)
Connect ==
    /\ rep.at = "connect" /\ Serving
    /\ tail' = NewTailer(rep.position) /\ net' = <<>> /\ ending' = ""
    /\ rep' = [rep EXCEPT !.at = "recv"]
    /\ UNCHANGED <<raced, fsegs, fw, ffaults, fcrashes, retried>> /\ FollowerOnly

(* Recv, and the records apply does not skip. *)
Fresh(batch) ==
    LET kept[k \in 0 .. Len(batch)] ==
            IF k = 0 THEN <<>>
            ELSE IF batch[k].seq > rep.position THEN Append(kept[k - 1], batch[k]) ELSE kept[k - 1]
    IN  kept[Len(batch)]

Receive ==
    /\ rep.at = "recv" /\ net # <<>>
    /\ net' = Tail(net)
    /\ rep' = [rep EXCEPT !.fresh = Fresh(Head(net)), !.todo = Fresh(Head(net)),
                          !.at = IF Fresh(Head(net)) = <<>> THEN "recv" ELSE "append"]
    /\ UNCHANGED <<tail, ending, raced, fsegs, fw, ffaults, fcrashes, retried>> /\ FollowerOnly

(* apply: wal.Append of each record, with the rotations that takes. *)
AppendRecord ==
    /\ rep.at = "append" /\ rep.todo # <<>>
    /\ \/ /\ F!AppendFits(Head(rep.todo)) \/ F!AppendRotated(Head(rep.todo))
          /\ rep' = [rep EXCEPT !.todo = Tail(@)]
       \/ (F!Rotate(Head(rep.todo)) \/ F!OpenSegmentStep) /\ UNCHANGED rep
    /\ UNCHANGED <<streamVars, ffaults, fcrashes, retried>> /\ FollowerOnly

Applied ==
    [rep EXCEPT !.at = "recv", !.book = @ \o rep.fresh, !.position = Last(rep.fresh).seq,
                !.fresh = <<>>]

(* Mutant: the batch is applied without a Sync. *)
SyncAndApplyUnsynced ==
    /\ rep.at = "append" /\ rep.todo = <<>>
    /\ rep' = Applied
    /\ UNCHANGED <<fsegs, fw, streamVars, ffaults, fcrashes, retried>> /\ FollowerOnly

(* apply: one Sync for the batch, then all of it into the book. *)
SyncAndApply ==
    /\ rep.at = "append" /\ rep.todo = <<>>
    /\ F!Sync
    /\ rep' = Applied
    /\ UNCHANGED <<streamVars, ffaults, fcrashes, retried>> /\ FollowerOnly

(* apply returned an error: streamOnce returns, and followSymbol connects again.
   What was appended stays; the writer may be unable to go on. *)
ApplyFails ==
    /\ rep.at = "append"
    /\ \/ rep.todo # <<>> /\ (F!AppendFails(Head(rep.todo)) \/ F!RotateFails \/ F!OpenSegmentFails)
       \/ rep.todo = <<>> /\ F!SyncFails
    /\ IF fw.state = "latched" THEN UNCHANGED ffaults
       ELSE ffaults < MaxFollowerFaults /\ ffaults' = ffaults + 1
    /\ rep' = [rep EXCEPT !.at = "connect", !.fresh = <<>>, !.todo = <<>>]
    /\ tail' = NoTailer /\ net' = <<>> /\ ending' = "broken"
    /\ retried' = TRUE
    /\ UNCHANGED <<raced, fcrashes>> /\ FollowerOnly

(* Recv returned an error, after the last batch of the stream: DataLoss stops
   the symbol, anything else is retried. *)
StreamEnds ==
    /\ rep.at = "recv" /\ net = <<>> /\ ending # ""
    /\ rep' = [rep EXCEPT !.at = IF ending = "dataloss" THEN "stopped" ELSE "connect"]
    /\ UNCHANGED <<streamVars, fsegs, fw, ffaults, fcrashes, retried>> /\ FollowerOnly

FollowerStep ==
    \/ Discover \/ OpenSymbol \/ OpenSymbolFails \/ Connect \/ Receive
    \/ AppendRecord \/ SyncAndApply \/ ApplyFails \/ StreamEnds

(* A signal: Run waits for followSymbol, which finishes apply, and Close closes
   the log. *)
FollowerCloses ==
    /\ rep.at \in {"connect", "recv", "stopped"} /\ fcrashes < MaxFollowerCrashes
    /\ F!Close
    /\ rep' = [rep EXCEPT !.at = "closed"]
    /\ tail' = NoTailer /\ net' = <<>> /\ ending' = "broken"
    /\ UNCHANGED <<raced, ffaults, fcrashes, retried>> /\ FollowerOnly

(* The follower's process or machine stops, and starts again. *)
FollowerHalts ==
    /\ fcrashes < MaxFollowerCrashes
    /\ fcrashes' = fcrashes + 1
    /\ F!Crash
    /\ rep' = NewReplica
    /\ tail' = NoTailer /\ net' = <<>> /\ ending' = "broken"
    /\ UNCHANGED <<raced, ffaults, retried>> /\ FollowerOnly

-----------------------------------------------------------------------------
(* Progress.                                                               *)

(* Mutant: what has been appended is reported. *)
ReportProgressAppended ==
    /\ Serving
    /\ rep.at \in {"connect", "recv", "append", "stopped"} /\ fw # F!NoWriter
    /\ progress' = fw.last
    /\ UNCHANGED <<primaryVars, streamVars, followerVars, rewound>>

(* reportProgress and ReportProgress. *)
ReportProgress ==
    /\ Serving
    /\ rep.at \in {"connect", "recv", "append", "stopped"} /\ fw # F!NoWriter
    /\ progress' = rep.position
    /\ UNCHANGED <<primaryVars, streamVars, followerVars, rewound>>

(* ReplicationStatus: how many records the follower is behind. *)
RecordsBehind == P!LastPosition(segs) - progress

-----------------------------------------------------------------------------

Next ==
    \/ PrimaryStep \/ PrimaryHalts
    \/ StreamStep \/ ConnectionBreaks
    \/ FollowerStep \/ FollowerCloses \/ FollowerHalts
    \/ ReportProgress

(* Goroutines that can go on do so: the handler polls, the follower's loop runs,
   and the sequencer completes a rotation and commits what it has appended.  The
   follower's requests make the primary open a log that is not open (ListSymbols
   and StreamWAL: reg.Get).  Nothing makes a client place an order. *)
Fairness ==
    /\ WF_vars(StreamStep) /\ WF_vars(FollowerStep)
    /\ WF_vars(PrimaryStep /\ (\/ P!Restart \/ P!OpenSegmentStep
                               \/ P!AppendRecord /\ w.step = "sync"))
    /\ WF_vars(PrimaryStep /\ P!Commit)

Spec == Init /\ [][Next]_vars /\ Fairness

-----------------------------------------------------------------------------

(* Every variable has its type. *)
TypeOK ==
    /\ P!TypeOK
    /\ tail.at \in {"none", "locate", "read", "advance", "send"}
    /\ tail.at \in {"read", "advance", "send"} => tail.seg \in DOMAIN segs
    /\ tail.off \in 0 .. MaxRecords /\ tail.after \in 0 .. MaxRecords
    /\ tail.out \in Seq(P!Records) /\ Len(tail.out) <= BatchCap
    /\ net \in Seq(Seq(P!Records)) /\ Len(net) <= NetCap
    /\ ending \in {"", "broken", "dataloss"}
    /\ progress \in None .. MaxRecords
    /\ fw.state \in F!WriterStates /\ fw.step \in F!WriterSteps
    /\ fw.state \in {"open", "latched"} => fw.cur \in DOMAIN fsegs
    /\ rep.at \in {"start", "open", "connect", "recv", "append", "stopped", "closed"}
    /\ rep.position \in 0 .. MaxRecords
    /\ rep.book \in Seq(P!Records) /\ rep.fresh \in Seq(P!Records)
    /\ IsSuffix(rep.todo, rep.fresh)

(* What the follower has applied can be lost by no crash of its own, wherever it
   was in a rotation, and a restart applies exactly that again, in that order.
   Once a record has been passed over, or a batch has been stored in part and the
   follower restarted, this is no longer so: a segment that is named for a record
   and was left empty takes earlier records next, and is truncated with them when
   the record it is named for comes again.  Without a restart that loses nothing,
   since the earlier records are in older segments too, from the first attempt;
   but not if the primary has lost them meanwhile and sends others in their place. *)
AppliedIsStored ==
    LET stored == F!Durable(fsegs)
    IN  /\ ~raced /\ ~retried => IsPrefix(rep.book, stored)
        /\ ~raced /\ ~rewound /\ fcrashes = 0 => ToSet(rep.book) \subseteq ToSet(stored)

(* Even when the primary comes back without records that it had shipped and
   issues their positions again, what the follower applies is free of gaps: it
   only misses one when the Tailer lost a race with a rotation, or its own log
   has lost the order of a retried batch.  A batch stored in part and stored again
   is applied once, until the follower restarts. *)
Contiguous ==
    /\ ~raced /\ ~retried => \A k \in DOMAIN rep.book : rep.book[k].seq = k
    /\ fcrashes = 0 => \A k \in 1 .. Len(rep.book) - 1 : rep.book[k].seq < rep.book[k + 1].seq

(* The follower holds the primary's log, in its order and without a gap, however
   often either of them or the connection failed, unless the Tailer lost a race
   with a rotation, the primary lost records it had shipped, or the follower
   stored a batch in part. *)
SamePrefix ==
    ~raced /\ ~rewound /\ ~retried => IsPrefix(rep.book, P!Recover(segs))

(* What ReplicationStatus does not count as behind, an operator may rely on when
   the primary is lost: those records are in the follower's log and survive a
   crash of it, however stale the report is.  The count is never negative.  Not so
   when the Tailer lost a race with a rotation (a record below the reported
   position is missing), the primary lost records it had shipped (the follower has
   others in their place, and the count may be negative), or the follower gave up a
   batch it had begun to store: then docs/failover.md's "recordsBehind: 0 - a
   promotion loses nothing that was acknowledged" is wrong. *)
LagIsHonest ==
    LET all == P!Recover(segs)
    IN  progress # None /\ P!Readable(segs) /\ ~raced /\ ~rewound /\ ~retried =>
            /\ RecordsBehind \in 0 .. Len(all)
            /\ IsPrefix(SubSeq(all, 1, Len(all) - RecordsBehind), F!Durable(fsegs))

(* Whoever failed, the follower's book is in the end the primary's log, record for
   record, unless it has stopped following, its writer has failed for good, or the
   primary was shut down or cannot open its log.  It reaches the primary's position
   but not its records when the Tailer passed records over, when the primary lost
   some it had shipped and issued their positions again, and when a batch was
   stored in part and the follower restarted; and not even that when the primary
   has given its log up and the Tailer waits beyond records it passed over. *)
CatchesUp ==
    <>[](\/ /\ rep.position >= P!HighestSeq(P!Recover(segs)) \/ (node = "failed" /\ raced)
            /\ \/ rep.book = P!Recover(segs)
               \/ raced \/ rewound \/ (retried /\ fcrashes > 0)
         \/ rep.at \in {"stopped", "closed"} \/ fw.state = "latched"
         \/ node = "stopped" \/ P!Refused)

-----------------------------------------------------------------------------
(* What the repository says of replication, and is not so.                 *)

(* Tailer.Next: "a follower must stop rather than replicate past a hole".  While
   nothing fails, the follower has every record up to its position. *)
NoHole ==
    faults + crashes + ffaults + fcrashes = 0 =>
        \A k \in DOMAIN rep.book : rep.book[k].seq = k

=============================================================================
