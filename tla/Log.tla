-------------------------------- MODULE Log ---------------------------------
(***************************************************************************)
(* The log of one symbol as its sequencer keeps it (internal/oms): records *)
(* are appended under ascending positions, a group commit ends in a Sync,  *)
(* an error makes the sequencer give the log up until a restart, and a     *)
(* restart recovers and resumes (registry.go: newSequencer).  The process  *)
(* may stop between any two system calls of the Writer.                    *)
(***************************************************************************)
EXTENDS Wal

CONSTANTS
    MaxRecords,    \* bound: records appended
    MaxFaults,     \* bound: calls of the Writer that fail
    MaxCrashes     \* bound: the process or the machine stops

ASSUME LogBoundsAssumption == MaxRecords \in Nat \ {0} /\ MaxFaults \in Nat /\ MaxCrashes \in Nat

VARIABLES
    node,      \* "up"; "failed", the log has been given up; "stopped", it is closed;
               \* "down", there is no sequencer
    pos,       \* the last position assigned
    book,      \* records given to the book
    ids, faults, crashes

ownerVars == <<node, pos, book, ids, faults, crashes>>
vars == <<walVars, ownerVars>>

Init ==
    /\ segs = <<>> /\ w = NoWriter
    /\ node = "down" /\ pos = 0 /\ book = <<>>
    /\ ids = 0 /\ faults = 0 /\ crashes = 0

(* The record logBatch appends next. *)
NextRecord == [seq |-> pos + 1, id |-> ids + 1]

AppendRecord ==
    /\ node = "up" /\ ids < MaxRecords
    /\ AppendFits(NextRecord) \/ AppendRotated(NextRecord)
    /\ pos' = pos + 1 /\ ids' = ids + 1
    /\ UNCHANGED <<node, book, faults, crashes>>

(* A rotation under way, or the opening of the first segment. *)
RotateStep ==
    /\ \/ node = "up" /\ ids < MaxRecords /\ Rotate(NextRecord)
       \/ OpenSegmentStep
    /\ UNCHANGED ownerVars

(* Sync at the end of logBatch, then the batch is applied. *)
Commit ==
    /\ node = "up"
    /\ Sync
    /\ book' = Recover(segs')
    /\ UNCHANGED <<node, pos, ids, faults, crashes>>

(* commit: the error sticks, and the book is not touched. *)
CommitFails ==
    /\ node = "up" /\ faults < MaxFaults
    /\ AppendFails(NextRecord) \/ RotateFails \/ SyncFails \/ OpenSegmentFails
    /\ node' = "failed" /\ faults' = faults + 1
    /\ UNCHANGED <<pos, book, ids, crashes>>

(* closeWAL when the sequencer ends, before the process does.  Records of a
   batch that failed are made durable with the rest. *)
Shutdown ==
    /\ node \in {"up", "failed"}
    /\ Close
    /\ node' = "stopped"
    /\ UNCHANGED <<pos, book, ids, faults, crashes>>

(* Mutant: a restart numbers records from the newest segment's name. *)
ResumeFromName(sg) == IF sg = <<>> THEN 0 ELSE Max(DOMAIN sg) - 1

(* NewSequencerWithWAL resumes at Writer.LastSeq. *)
ResumeFrom(sg) == LastPosition(sg)

(* newSequencer: the book is what Recover replays, the position OpenWriter's. *)
Opened ==
    /\ node' = "up"
    /\ pos' = ResumeFrom(segs) /\ book' = Recover(segs)
    /\ UNCHANGED <<ids, faults, crashes>>

Restart ==
    /\ node = "down"
    /\ \/ (OpenWriterOnNewest \/ FirstSegmentOpened) /\ Opened
       \/ OpenWriterOnNothing /\ UNCHANGED ownerVars

(* newSequencer returns an error, and the next Get tries again. *)
RestartFails ==
    /\ node = "down" /\ faults < MaxFaults
    /\ OpenWriterFails \/ OpenSegmentFails
    /\ faults' = faults + 1
    /\ UNCHANGED <<node, pos, book, ids, crashes>>

(* newSequencer returns ErrCorruptWAL, now and every time. *)
RestartRefused ==
    /\ node = "down" /\ Refused
    /\ UNCHANGED vars

(* The process or the machine stops. *)
Halt ==
    /\ crashes < MaxCrashes
    /\ crashes' = crashes + 1
    /\ Crash
    /\ node' = "down"
    /\ UNCHANGED <<pos, book, ids, faults>>

(* Nothing is left to do within the bounds. *)
Finished ==
    /\ node = "stopped" \/ ids = MaxRecords
    /\ UNCHANGED vars

Next ==
    \/ AppendRecord \/ RotateStep \/ Commit \/ CommitFails \/ Shutdown
    \/ Restart \/ RestartFails \/ RestartRefused
    \/ Halt
    \/ Finished

Spec == Init /\ [][Next]_vars

-----------------------------------------------------------------------------

Records == [seq : 1 .. MaxRecords, id : 1 .. MaxRecords]

(* Every variable has its type. *)
TypeOK ==
    /\ DOMAIN segs \subseteq 1 .. MaxRecords
    /\ \A n \in DOMAIN segs :
         /\ segs[n].ok \in BOOLEAN /\ segs[n].named \in BOOLEAN
         /\ segs[n].torn \in {"no", "mine", "left"}
         /\ segs[n].recs \in Seq(Records) /\ segs[n].synced \in -1 .. Len(segs[n].recs)
    /\ w.state \in WriterStates /\ w.step \in WriterSteps
    /\ w.state \in {"open", "latched"} => w.cur \in DOMAIN segs
    /\ w.buf \in Seq(Records) /\ w.size \in Nat /\ w.last \in Nat /\ w.first \in Nat
    /\ node \in {"up", "failed", "stopped", "down"}
    /\ pos \in Nat /\ book \in Seq(Records)
    /\ ids \in 0 .. MaxRecords /\ faults \in 0 .. MaxFaults /\ crashes \in 0 .. MaxCrashes

(* What the book was given can be lost by no crash at any system call, be it in
   the middle of a rotation, and is recovered in the same order: no segment is
   left behind unsynced when the writer moves on. *)
BookSurvives == IsPrefix(book, Durable(segs))

(* Across segments, failed batches and restarts the log numbers its records
   1, 2, 3, ...: a position is not reissued, although the newest segment may be
   empty, nor skipped, although a torn tail was cut off. *)
PositionsDense ==
    LET all == Recover(segs) \o w.buf IN \A k \in DOMAIN all : all[k].seq = k

(* A segment's name is the position of its first record, or the one its first
   record will get: what LastPosition and the tailer's locateSegment rely on. *)
NamesExact ==
    \A n \in DOMAIN segs :
        n = 1 + Len(Recover([m \in { x \in DOMAIN segs : x < n } |-> segs[m]]))

(* Positions and segment names stay exact together, through every rotation,
   failure and restart. *)
PositionsExact == PositionsDense /\ NamesExact

(* A segment that cannot be read is the newest and has no records: when the log
   refuses to open for it, everything the book was given is in the others.  In
   particular nothing is ever appended behind a torn record. *)
UnreadableIsEmpty ==
    \A n \in DOMAIN segs : ~segs[n].ok => n = Max(DOMAIN segs) /\ segs[n].recs = <<>>

(* The files and the Writer keep the promise of a log. *)
Promise ==
    INSTANCE LogSpec WITH
        log <- Recover(segs) \o w.buf,
        flushed <- Len(Recover(segs)),
        synced <- Len(Durable(segs)),
        writer <- CASE node = "up" -> "open" [] node = "failed" -> "failed" [] OTHER -> "closed"
ImplementsLogSpec == Promise!Spec

-----------------------------------------------------------------------------
(* What the repository says of the log, and is not so.                     *)

(* ErrCorruptWAL: "bytes that never made it to disk are an expected crash
   outcome and stop a scan silently".  After a crash the log opens. *)
OpensAfterCrash == faults = 0 => ~Refused

=============================================================================
