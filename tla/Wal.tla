-------------------------------- MODULE Wal ---------------------------------
(***************************************************************************)
(* A log directory and the Writer on it (internal/oms/wal.go): buffered    *)
(* appends, fsync, rotation to a new segment, what a crash leaves of the   *)
(* files, and what OpenWriter, Recover and LastPosition make of that.      *)
(* Module Log is a sequencer's use of it, module Replication a replica's.  *)
(*                                                                         *)
(* A record is identified by its position and the bytes it was encoded to; *)
(* here it is [seq, id], with `id' telling apart two records that were     *)
(* given the same position.  Every record has the same size, and the       *)
(* rotation threshold is a number of records.  A part of a record at the   *)
(* end of a file is `torn': a reader stops there without an error.         *)
(***************************************************************************)
EXTENDS Integers, Sequences, SequencesExt, FiniteSetsExt

CONSTANTS
    SegmentCap,   \* MaxSegmentBytes
    FsyncNames    \* whether the file system makes a file's name durable with its data

ASSUME SegmentCapAssumption == SegmentCap \in Nat \ {0}
ASSUME FsyncNamesAssumption == FsyncNames \in BOOLEAN

VARIABLES
    segs,   \* name -> segment file; a file is named for its first position
    w       \* the Writer

walVars == <<segs, w>>

(***************************************************************************)
(* A file as readers see it.  `ok': its header is there and every complete *)
(* record verifies.  `torn': a part of a record follows the last complete  *)
(* one, "mine" if the rest of it is still in the Writer, "left" if not.    *)
(* The header and the first `synced' records are on the disk, -1 meaning    *)
(* not even the header, and `named' says that the directory entry is.      *)
(***************************************************************************)
NewFile == [ok |-> FALSE, recs |-> <<>>, torn |-> "no", synced |-> -1, named |-> FALSE]

(***************************************************************************)
(* The Writer.  state "closed" is a nil file, "latched" a bufio.Writer     *)
(* that has failed and "none" no Writer at all.  `step' is where           *)
(* openSegment has got to with the segment named `first'; `buf' and `size' *)
(* are the records in the bufio.Writer and in the segment.                 *)
(***************************************************************************)
NoWriter ==
    [state |-> "none", cur |-> 0, buf |-> <<>>, size |-> 0, last |-> 0, step |-> "idle",
     first |-> 0]

WriterStates == {"none", "open", "latched", "closed"}
WriterSteps == {"idle", "create", "header", "sync"}

-----------------------------------------------------------------------------
(* Readers.                                                                *)

(* segmentPaths: the names are zero-padded, so segments come in the order of
   their first positions.  What was read of each, files[n], one after another. *)
InOrder(files) ==
    LET newest == Max({0} \cup DOMAIN files)
        upTo[n \in 0 .. newest] ==
            IF n = 0 THEN <<>>
            ELSE IF n \in DOMAIN files THEN upTo[n - 1] \o files[n] ELSE upTo[n - 1]
    IN  upTo[newest]

(* Recover: the records of all segments, in order. *)
Recover(sg) == InOrder([n \in DOMAIN sg |-> sg[n].recs])

(* No segment makes a reader report ErrCorruptWAL, as one without a header or
   with garbage between its records does. *)
Readable(sg) == \A n \in DOMAIN sg : sg[n].ok

(* scanSegment: the highest position among records. *)
HighestSeq(recs) == Max({0} \cup { recs[k].seq : k \in DOMAIN recs })

(* Mutant: an empty segment's name is not looked at. *)
LastPositionOfRecords(sg) == IF sg = <<>> THEN 0 ELSE HighestSeq(sg[Max(DOMAIN sg)].recs)

(* LastPosition, and the position OpenWriter resumes from: that of the newest
   segment's last record, or the one before the position it is named for. *)
LastPosition(sg) ==
    IF sg = <<>> THEN 0
    ELSE LET newest == Max(DOMAIN sg)
         IN  Max({HighestSeq(sg[newest].recs), newest - 1})

(* The records that survive whatever happens next. *)
Durable(sg) ==
    InOrder([n \in { m \in DOMAIN sg : sg[m].named } |-> SubSeq(sg[n].recs, 1, sg[n].synced)])

-----------------------------------------------------------------------------
(* Append.                                                                 *)

Rotates == w.size >= SegmentCap

(* The end of a file is written to.  What is written behind a part of a record
   that will never be completed makes the file unreadable. *)
Written(f, recs, part) ==
    [f EXCEPT !.recs = @ \o recs, !.torn = part,
              !.ok = @ /\ ~(f.torn = "left" /\ (recs # <<>> \/ part # "no"))]

(* The writes into the bufio.Writer.  A full one is emptied into the file,
   which may then end in a part of the record being written. *)
Put(sg, wr, rec) ==
    LET added == [wr EXCEPT !.size = @ + 1, !.last = Max({@, rec.seq})]
    IN  \/ w' = [added EXCEPT !.buf = Append(@, rec)] /\ segs' = sg
        \/ /\ w' = [added EXCEPT !.buf = <<rec>>]
           /\ \E part \in {"no", "mine"} :
                segs' = [sg EXCEPT ![wr.cur] = Written(@, wr.buf, part)]

(* Append returned nil without a rotation. *)
AppendFits(rec) ==
    /\ w.state = "open" /\ w.step = "idle" /\ ~Rotates
    /\ Put(segs, w, rec)

(* A flush that writes only a part of what is buffered. *)
FlushPart(buf) ==
    \/ UNCHANGED segs
    \/ \E n \in 0 .. Len(buf) - 1 :
         segs' = [segs EXCEPT ![w.cur] = Written(@, SubSeq(buf, 1, n), "mine")]
    \/ \E n \in 1 .. Len(buf) - 1 :
         segs' = [segs EXCEPT ![w.cur] = Written(@, SubSeq(buf, 1, n), "no")]

(* Append returned an error without a rotation: the payload is refused, the
   bufio.Writer has failed before, or it fails to empty itself. *)
AppendFails(rec) ==
    /\ w.state \in {"open", "latched"} /\ w.step = "idle" /\ ~Rotates
    /\ \/ UNCHANGED walVars
       \/ /\ w.state = "open"
          /\ FlushPart(Append(w.buf, rec))
          /\ w' = [w EXCEPT !.state = "latched", !.buf = <<>>]

-----------------------------------------------------------------------------
(* Sync and Close.                                                         *)

Flushed ==
    IF w.buf = <<>> THEN segs ELSE [segs EXCEPT ![w.cur] = Written(@, w.buf, "no")]

FsyncedFile(f) == [f EXCEPT !.synced = Len(f.recs), !.named = @ \/ FsyncNames]
Fsynced(sg) == [sg EXCEPT ![w.cur] = FsyncedFile(@)]

(* Mutant: only the bufio.Writer is emptied. *)
SyncWithoutFsync ==
    /\ w.state = "open" /\ w.step = "idle"
    /\ segs' = Flushed
    /\ w' = [w EXCEPT !.buf = <<>>]

(* Sync returned nil. *)
Sync ==
    /\ w.state = "open" /\ w.step = "idle"
    /\ segs' = Fsynced(Flushed)
    /\ w' = [w EXCEPT !.buf = <<>>]

(* Sync returned an error: the flush failed, now or before, or the fsync did. *)
SyncFails ==
    /\ w.step = "idle"
    /\ \/ w.state = "latched" /\ UNCHANGED walVars
       \/ /\ w.state = "open" /\ w.buf # <<>>
          /\ FlushPart(w.buf)
          /\ w' = [w EXCEPT !.state = "latched", !.buf = <<>>]
       \/ /\ w.state = "open"
          /\ segs' = Flushed
          /\ w' = [w EXCEPT !.buf = <<>>]

Closed == [w EXCEPT !.state = "closed", !.buf = <<>>]

(* Close returned nil, which it does at once when there is no file. *)
CloseOK ==
    /\ w.step = "idle"
    /\ w.state \in {"open", "closed"}
    /\ segs' = IF w.state = "open" THEN Fsynced(Flushed) ELSE segs

(* Close returned an error; the file is given up nevertheless. *)
CloseFails ==
    /\ w.step = "idle"
    /\ \/ w.state = "latched" /\ UNCHANGED segs
       \/ w.state = "open" /\ w.buf # <<>> /\ FlushPart(w.buf)
       \/ w.state = "open" /\ segs' \in {Flushed, Fsynced(Flushed)}

Close ==
    /\ w.state # "none"
    /\ CloseOK \/ CloseFails
    /\ w' = Closed

-----------------------------------------------------------------------------
(* rotate and openSegment, one step per system call.                       *)

(* Mutant: the old segment is left without an fsync. *)
RotateUnsynced(rec) ==
    /\ Rotates /\ w.step = "idle" /\ w.state \in {"open", "closed"}
    /\ segs' = IF w.state = "open" THEN Flushed ELSE segs
    /\ w' = [Closed EXCEPT !.step = "create", !.first = rec.seq]

(* rotate: Close, then on to openSegment ... *)
Rotate(rec) ==
    /\ Rotates
    /\ CloseOK
    /\ w' = [Closed EXCEPT !.step = "create", !.first = rec.seq]

(* ... or Close returned an error, and so does Append. *)
RotateFails ==
    /\ Rotates
    /\ CloseFails
    /\ w' = Closed

(* os.OpenFile with O_CREATE and O_TRUNC: a file of that name is emptied. *)
CreateFile ==
    /\ w.step = "create"
    /\ segs' = [n \in DOMAIN segs \cup {w.first} |->
                  IF n # w.first THEN segs[n]
                  ELSE [NewFile EXCEPT !.named = n \in DOMAIN segs /\ segs[n].named]]
    /\ w' = [w EXCEPT !.step = "header"]

WriteHeader ==
    /\ w.step = "header"
    /\ segs' = [segs EXCEPT ![w.first].ok = TRUE]
    /\ w' = [w EXCEPT !.step = "sync"]

(* fsync of the file, then of the directory. *)
Named == [segs EXCEPT ![w.first].named = TRUE, ![w.first].synced = 0]
OnNewSegment ==
    [w EXCEPT !.state = "open", !.cur = w.first, !.size = 0, !.step = "idle", !.first = 0]

(* The rest of Append after a rotation. *)
AppendRotated(rec) ==
    /\ w.step = "sync"
    /\ w.state = "closed"
    /\ Put(Named, OnNewSegment, rec)

(* A step of openSegment failed.  What it has created stays. *)
OpenSegmentFails ==
    /\ w.step # "idle"
    /\ w' = [w EXCEPT !.step = "idle", !.first = 0]
    /\ UNCHANGED segs

OpenSegmentStep == CreateFile \/ WriteHeader

-----------------------------------------------------------------------------
(* OpenWriter, after Recover has read every segment.                       *)

(* An empty directory: openSegment(1) ... *)
OpenWriterOnNothing ==
    /\ w = NoWriter /\ segs = <<>>
    /\ w' = [w EXCEPT !.step = "create", !.first = 1]
    /\ UNCHANGED segs

(* ... which has returned nil. *)
FirstSegmentOpened ==
    /\ w.state = "none" /\ w.step = "sync"
    /\ segs' = Named
    /\ w' = OnNewSegment

(* Mutant: the torn tail is left in place. *)
TruncatedNot(f) == f

(* Truncate to the end of the last record that verifies. *)
Truncated(f) == [f EXCEPT !.torn = "no"]

(* The newest segment is scanned, truncated, synced and appended to. *)
OpenWriterOnNewest ==
    /\ w = NoWriter /\ segs # <<>> /\ Readable(segs)
    /\ LET newest == Max(DOMAIN segs)
       IN  /\ segs' = [segs EXCEPT ![newest] = FsyncedFile(Truncated(@))]
           /\ w' = [w EXCEPT !.state = "open", !.cur = newest,
                             !.size = Len(segs[newest].recs), !.last = LastPosition(segs)]

(* The truncation or its fsync failed. *)
OpenWriterFails ==
    /\ w = NoWriter /\ segs # <<>> /\ Readable(segs)
    /\ \/ UNCHANGED segs
       \/ segs' = [segs EXCEPT ![Max(DOMAIN segs)] = Truncated(@)]
    /\ UNCHANGED w

(* Recover or OpenWriter returned ErrCorruptWAL. *)
Refused == w = NoWriter /\ ~Readable(segs)

-----------------------------------------------------------------------------
(* The process or the machine stops.                                       *)

(* The first n records of a file, and perhaps a part of another. *)
CutAt(f, n, t) == [f EXCEPT !.recs = SubSeq(@, 1, n), !.torn = t]

(* What may be left of a file: its durable records and any more that were
   written, the last of them perhaps in part; of a file that is not durable
   yet, perhaps not even the header. *)
Images(f) ==
    { CutAt(f, n, t) : n \in Max({0, f.synced}) .. Len(f.recs),
        t \in {"no"} \cup (IF f.torn # "no" \/ f.synced < Len(f.recs) THEN {"left"} ELSE {}) }
    \cup (IF f.synced >= 0 THEN {} ELSE {[NewFile EXCEPT !.named = f.named]})

Crash ==
    /\ \E kept \in SUBSET DOMAIN segs :
         /\ \A n \in DOMAIN segs \ kept : ~segs[n].named
         /\ \E image \in [kept -> UNION { Images(segs[n]) : n \in kept }] :
              /\ \A n \in kept : image[n] \in Images(segs[n])
              /\ segs' = image
    /\ w' = NoWriter

=============================================================================
