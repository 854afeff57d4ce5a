---------------------- MODULE ReplicationFlowProofs -------------------------
(***************************************************************************)
(* Between the primary's files and the follower's book the records flow in *)
(* order, and without a gap unless the Tailer was overtaken by a rotation; *)
(* with that, every variable of module Replication keeps its type, and the *)
(* follower's log holds what it applies, in order.                         *)
(***************************************************************************)
EXTENDS ReplicationProofs

-----------------------------------------------------------------------------
(* The Tailer is where it should be, and the book is in order.             *)

LEMMA NextQuiet ==
    ASSUME TInv, Quiet, [Next]_vars PROVE Quiet'
<1>1. rep \in Replica /\ RepOK(rep)
  BY DEF TInv, RepOK
<1>2. CASE UNCHANGED rep /\ rep.at \notin {"start", "open"}
  BY <1>2 DEF Quiet
<1>3. CASE UNCHANGED <<rep, tail, net>>
  BY <1>3 DEF Quiet
<1>4. CASE tail' = NoTailer /\ net' = <<>>
  BY <1>4 DEF Quiet
<1>5. CASE rep'.at \notin {"start", "open"}
  BY <1>5 DEF Quiet
<1>6. CASE PrimaryStep \/ ReportProgress \/ UNCHANGED vars
  BY <1>3, <1>6 DEF PrimaryStep, ReportProgress, vars, streamVars, followerVars
<1>7. CASE PrimaryHalts \/ ConnectionBreaks
  <2>1. rep' = rep /\ (StreamCut \/ UNCHANGED <<tail, net>>)
    BY <1>7 DEF PrimaryHalts, ConnectionBreaks, followerVars
  <2>2. ASSUME StreamCut PROVE tail' = NoTailer /\ (net = <<>> => net' = <<>>)
    <3>1. tail' = NoTailer /\ \E n \in 0 .. Len(net) : net' = SubSeq(net, 1, n)
      BY <2>2 DEF StreamCut
    <3>2. ASSUME net = <<>> PROVE net' = <<>>
      BY <3>1, <3>2
    <3>3. QED
      BY <3>1, <3>2
  <2>3. QED
    BY <2>1, <2>2 DEF Quiet
<1>8. CASE StreamStep
  <2>1. rep' = rep /\ tail.at # "none"
    BY <1>8 DEF StreamStep, LocateSegment, ReadSegment, SegmentExhausted, DamagedSegment, Advance,
                Send, TailOnly, followerVars
  <2>2. tail # NoTailer
    BY <2>1 DEF NoTailer
  <2>3. QED
    BY <2>1, <2>2 DEF Quiet
<1>9. CASE FollowerStep
  <2>1. CASE Discover
    BY <2>1 DEF Discover, Quiet, streamVars
  <2>2. CASE OpenSymbol
    BY <2>2 DEF OpenSymbol, Quiet, streamVars
  <2>3. CASE OpenSymbolFails
    BY <1>1, <1>5, <2>3 DEF OpenSymbolFails, Replica
  <2>4. CASE Connect \/ StreamEnds
    BY <1>1, <1>5, <2>4 DEF Connect, StreamEnds, Replica
  <2>5. CASE Receive
    BY <1>1, <1>5, <2>5 DEF Receive, Replica
  <2>6. CASE AppendRecord
    BY <1>5, <2>6, AppendTyped
  <2>7. CASE SyncAndApply
    BY <1>5, <2>7, ApplyTyped DEF SyncAndApply
  <2>8. CASE ApplyFails
    BY <1>4, <2>8 DEF ApplyFails
  <2>9. QED
    BY <1>9, <2>1, <2>2, <2>3, <2>4, <2>5, <2>6, <2>7, <2>8 DEF FollowerStep
<1>10. CASE FollowerCloses \/ FollowerHalts
  BY <1>4, <1>10 DEF FollowerCloses, FollowerHalts
<1>11. QED
  BY <1>6, <1>7, <1>8, <1>9, <1>10 DEF Next

LEMMA NextReach ==
    ASSUME TInv, PrimaryExact, Reach, [Next]_vars PROVE Reach'
<1>1. SUFFICES ASSUME Complete', tail'.at \in {"read", "advance", "send"}
               PROVE  tail'.seg + tail'.off <= tail'.after + 1
  BY DEF Reach
<1>2. Complete /\ FsyncNames /\ raced' = FALSE
  <2>1. Complete
    BY <1>1, RacedStays DEF Complete
  <2>2. [Next]_vars => raced' \in BOOLEAN
    <3>1. CASE Advance
      BY <3>1, AdvanceTyped
    <3>2. CASE ~Advance
      BY <3>2 DEF Next, PrimaryStep, PrimaryHalts, StreamStep, LocateSegment, ReadSegment,
        SegmentExhausted, DamagedSegment, Send, ConnectionBreaks, FollowerStep, Discover, OpenSymbol,
        OpenSymbolFails, Connect, Receive, AppendRecord, SyncAndApply, ApplyFails, StreamEnds,
        FollowerCloses, FollowerHalts, ReportProgress, vars, streamVars, TInv, Counts
    <3>3. QED
      BY <3>1, <3>2
  <2>3. QED
    BY <1>1, <2>1, <2>2 DEF Complete
<1>3. /\ TailOK(segs, tail) /\ tail \in Tailer /\ tail.seg \in Nat /\ tail.off \in Nat
      /\ tail.after \in Nat /\ PL!GInv /\ PL!SInv /\ PL!LaidOut(segs)
  BY <1>2, TailerFields DEF TInv, TailOK, PrimaryExact, PL!SInv
<1>4. CASE UNCHANGED tail
  BY <1>1, <1>2, <1>4 DEF Reach
<1>5. CASE tail' = NoTailer
  BY <1>1, <1>5 DEF NoTailer
<1>6. ASSUME tail.at \in {"read", "advance", "send"}, tail'.seg = tail.seg, tail'.off = tail.off,
             tail'.after = tail.after
      PROVE  tail'.seg + tail'.off <= tail'.after + 1
  BY <1>2, <1>6 DEF Reach
<1>7. CASE LocateSegment
  <2>1. /\ segs # <<>>
        /\ tail' = [tail EXCEPT !.at = "read", !.off = 0, !.seg = SegmentOf(tail.after + 1)]
    BY <1>7 DEF LocateSegment
  <2>2. DOMAIN segs # {}
    BY <1>3, <2>1, LogAssumption, PL!SomeSegments DEF PL!GInv
  <2>3. 1 \in DOMAIN segs
    BY <1>3, <2>2, LogAssumption, PL!FirstName
  <2>4. PICK want \in Nat : want = tail.after + 1
    BY <1>3
  <2>5. 1 <= want
    BY <1>3, <2>4
  <2>6. SegmentOf(want) <= want /\ SegmentOf(want) \in DOMAIN segs
    BY <1>3, <2>1, <2>3, <2>5, SegmentFound
  <2>7. SegmentOf(want) \in Nat
    BY <1>3, <2>6, PrimaryFile, LogAssumption
  <2>8. tail'.seg = SegmentOf(want) /\ tail'.off = 0 /\ tail'.after = tail.after
    BY <1>3, <2>1, <2>4 DEF Tailer
  <2>9. QED
    BY <2>4, <2>6, <2>7, <2>8
<1>8. CASE ReadSegment
  <2>1. /\ tail.at = "read" /\ tail.off < Len(segs[tail.seg].recs)
        /\ tail' = IF segs[tail.seg].recs[tail.off + 1].seq <= tail.after
                   THEN [tail EXCEPT !.off = @ + 1]
                   ELSE [tail EXCEPT !.off = @ + 1, !.after = segs[tail.seg].recs[tail.off + 1].seq,
                           !.out = Append(tail.out, segs[tail.seg].recs[tail.off + 1]),
                           !.at = IF Len(Append(tail.out, segs[tail.seg].recs[tail.off + 1])) = BatchCap
                                  THEN "send" ELSE "read"]
    BY <1>8 DEF ReadSegment
  <2>2. PICK s : s = segs[tail.seg].recs[tail.off + 1].seq
    OBVIOUS
  <2>3. s = tail.seg + tail.off
    BY <2>1, <2>2, ReadNumber
  <2>4. CASE s <= tail.after
    <3>1. tail' = [tail EXCEPT !.off = tail.off + 1]
      BY <2>1, <2>2, <2>4
    <3>2. tail'.seg = tail.seg /\ tail'.off = tail.off + 1 /\ tail'.after = tail.after
      BY <1>3, <3>1 DEF Tailer
    <3>3. QED
      BY <1>3, <2>3, <2>4, <3>2
  <2>5. CASE ~(s <= tail.after)
    <3>1. PICK out : out = Append(tail.out, segs[tail.seg].recs[tail.off + 1])
      OBVIOUS
    <3>2. PICK a : a = IF Len(out) = BatchCap THEN "send" ELSE "read"
      OBVIOUS
    <3>3. tail' = [tail EXCEPT !.off = tail.off + 1, !.after = s, !.out = out, !.at = a]
      BY <2>1, <2>2, <2>5, <3>1, <3>2
    <3>4. tail'.seg = tail.seg /\ tail'.off = tail.off + 1 /\ tail'.after = s
      BY <1>3, <3>3 DEF Tailer
    <3>5. QED
      BY <1>3, <2>3, <3>4
  <2>6. QED
    BY <2>4, <2>5
<1>9. CASE SegmentExhausted
  <2>1. tail.at = "read" /\ tail' = [tail EXCEPT !.at = "advance"]
    BY <1>9 DEF SegmentExhausted
  <2>2. tail'.seg = tail.seg /\ tail'.off = tail.off /\ tail'.after = tail.after
    BY <1>3, <2>1 DEF Tailer
  <2>3. QED
    BY <1>6, <2>1, <2>2
<1>10. CASE Send
  <2>1. tail.at = "send" /\ tail' = [tail EXCEPT !.out = <<>>, !.at = "read"]
    BY <1>10 DEF Send
  <2>2. tail'.seg = tail.seg /\ tail'.off = tail.off /\ tail'.after = tail.after
    BY <1>3, <2>1 DEF Tailer
  <2>3. QED
    BY <1>6, <2>1, <2>2
<1>11. CASE Advance
  <2>1. CASE \E n \in DOMAIN segs : n > tail.seg
    <3>1. /\ tail.at = "advance" /\ tail' = [tail EXCEPT !.seg = NextSegment, !.off = 0, !.at = "read"]
          /\ raced' = (raced \/ tail.off < Len(segs[tail.seg].recs))
      BY <1>11, <2>1 DEF Advance
    <3>2. tail.seg \in DOMAIN segs /\ tail.off <= Len(segs[tail.seg].recs)
      BY <1>3, <3>1 DEF TailOK
    <3>3. ~(tail.off < Len(segs[tail.seg].recs))
      BY <1>2, <3>1, Zenon
    <3>4. Len(segs[tail.seg].recs) \in Nat
      BY <1>3, <3>2, PrimaryFile, LogAssumption
    <3>5. tail.off = Len(segs[tail.seg].recs)
      BY <1>3, <3>2, <3>3, <3>4
    <3>6. PICK n : n = NextSegment
      OBVIOUS
    <3>7. n \in DOMAIN segs /\ n > tail.seg /\ \A m \in DOMAIN segs : m > tail.seg => n <= m
      BY <1>3, <2>1, <3>6, NextFound
    <3>8. n \in Nat
      BY <1>3, <3>7, PrimaryFile, LogAssumption
    <3>9. PICK a : a = tail.seg
      OBVIOUS
    <3>10. a \in DOMAIN segs /\ a < n /\ (\A m \in DOMAIN segs : a < m => n <= m)
           /\ \A m \in DOMAIN segs : m \in Nat
      <4>1. \A m \in DOMAIN segs : m \in Nat
        BY <1>3, PrimaryFile, LogAssumption
      <4>2. QED
        BY <1>3, <3>2, <3>7, <3>8, <3>9, <4>1
    <3>11. n = a + Len(segs[a].recs)
      BY <1>3, <3>7, <3>10, LogAssumption, PL!NextName
    <3>12. n = tail.seg + tail.off
      BY <3>5, <3>9, <3>11
    <3>13. tail'.seg = n /\ tail'.off = 0 /\ tail'.after = tail.after
      BY <1>3, <3>1, <3>6 DEF Tailer
    <3>14. tail.seg + tail.off <= tail.after + 1
      BY <1>2, <3>1 DEF Reach
    <3>15. QED
      BY <1>3, <3>8, <3>12, <3>13, <3>14
  <2>2. CASE ~\E n \in DOMAIN segs : n > tail.seg
    <3>1. /\ tail.at = "advance"
          /\ tail' = [tail EXCEPT !.at = IF tail.out = <<>> THEN "read" ELSE "send"]
      BY <1>11, <2>2 DEF Advance
    <3>2. tail'.seg = tail.seg /\ tail'.off = tail.off /\ tail'.after = tail.after
      BY <1>3, <3>1 DEF Tailer
    <3>3. QED
      BY <1>6, <3>1, <3>2
  <2>3. QED
    BY <2>1, <2>2
<1>12. CASE Connect
  BY <1>1, <1>12 DEF Connect, NewTailer
<1>13. CASE DamagedSegment \/ ConnectionBreaks \/ PrimaryHalts \/ ApplyFails \/ FollowerCloses
            \/ FollowerHalts
  BY <1>4, <1>5, <1>13 DEF DamagedSegment, ConnectionBreaks, PrimaryHalts, StreamCut, ApplyFails,
                           FollowerCloses, FollowerHalts
<1>14. CASE PrimaryStep \/ ReportProgress \/ UNCHANGED vars
  BY <1>4, <1>14 DEF PrimaryStep, ReportProgress, vars, streamVars
<1>15. CASE Discover \/ OpenSymbol \/ OpenSymbolFails \/ Receive \/ AppendRecord \/ SyncAndApply
            \/ StreamEnds
  BY <1>4, <1>15 DEF Discover, OpenSymbol, OpenSymbolFails, Receive, AppendRecord, SyncAndApply,
                     StreamEnds, streamVars
<1>16. QED
  BY <1>7, <1>8, <1>9, <1>10, <1>11, <1>12, <1>13, <1>14, <1>15 DEF Next, StreamStep, FollowerStep

LEMMA NextPrimaryExact ==
    ASSUME TInv, PrimaryExact, [Next]_vars PROVE PrimaryExact'
<1>1. PL!GInv
  BY DEF TInv
<1>2. [PL!Next]_(PL!vars)
  <2>1. P!Halt => P!Next
    BY DEF P!Next
  <2>2. P!Next \/ UNCHANGED primaryVars
    BY <2>1 DEF Next, PrimaryStep, PrimaryHalts, StreamStep, LocateSegment, ReadSegment,
      SegmentExhausted, DamagedSegment, Advance, Send, ConnectionBreaks, FollowerStep, Discover,
      OpenSymbol, OpenSymbolFails, Connect, Receive, AppendRecord, SyncAndApply, ApplyFails,
      StreamEnds, FollowerCloses, FollowerHalts, ReportProgress, TailOnly, FollowerOnly, vars
  <2>3. QED
    BY <2>2, PrimarySteps DEF primaryVars, PL!vars, PL!walVars, PL!ownerVars
<1>3. SUFFICES ASSUME FsyncNames PROVE PL!SInv'
  BY DEF PrimaryExact
<1>4. PL!SInv
  BY <1>3 DEF PrimaryExact
<1>5. QED
  BY <1>1, <1>2, <1>3, <1>4, LogAssumption, PL!NextSInv

(* Nothing is read of files without records. *)
LEMMA NothingStored ==
    ASSUME TInv, \A n \in DOMAIN fsegs : fsegs[n].recs = <<>>
    PROVE  F!Recover(fsegs) = <<>> /\ F!HighestSeq(F!Recover(fsegs)) = 0
<1>1. FL!FilesOf(Recs, MaxRecords, fsegs) /\ MaxRecords \in Nat
  BY LogAssumption DEF TInv, FL!WalOK, FL!WalTyped
<1>2. DOMAIN fsegs \subseteq 1 .. MaxRecords
  BY <1>1 DEF FL!FilesOf
<1>3. \A n \in DOMAIN fsegs : fsegs[n] \in FL!File({})
  <2>1. SUFFICES ASSUME NEW n \in DOMAIN fsegs PROVE fsegs[n] \in FL!File({})
    OBVIOUS
  <2>2. fsegs[n] \in FL!File(Recs) /\ fsegs[n].recs = <<>> /\ <<>> \in Seq({})
    BY <1>1 DEF FL!FilesOf
  <2>3. QED
    BY <2>2 DEF FL!File
<1>4. FL!Recover(fsegs) \in Seq({})
  BY <1>1, <1>2, <1>3, LogAssumption, ReplicationAssumption, FL!RecoverType
<1>5. FL!Recover(fsegs) = <<>>
  <2>1. PICK s \in Seq({}) : s = FL!Recover(fsegs)
    BY <1>4
  <2>2. s = <<>>
    <3>1. SUFFICES ASSUME s # <<>> PROVE FALSE
      OBVIOUS
    <3>2. Head(s) \in {}
      BY <3>1, HeadTailProperties
    <3>3. QED
      BY <3>2
  <2>3. QED
    BY <2>1, <2>2
<1>6. FL!HighestSeq(<<>>) = 0
  <2>1. <<>> \in Seq(Recs)
    OBVIOUS
  <2>2. QED
    BY <1>1, <2>1, Numbered, LogAssumption, ReplicationAssumption, FL!HighestOf
<1>7. QED
  BY <1>5, <1>6, FollowerReads

(* Where openSegment creates a file, it has no records. *)
LEMMA StillNothing ==
    ASSUME TInv, \A n \in DOMAIN fsegs : fsegs[n].recs = <<>>, FL!OpenSegmentStep
    PROVE  \A n \in DOMAIN fsegs' : fsegs'[n].recs = <<>>
<1>1. MaxRecords \in Nat /\ FL!WalOK(Recs, MaxRecords)
  BY LogAssumption DEF TInv
<1>2. CASE FL!CreateFile
  <2>1. /\ DOMAIN fsegs' = DOMAIN fsegs \cup {fw.first} /\ fsegs'[fw.first].recs = <<>>
        /\ \A m \in DOMAIN fsegs : m # fw.first => fsegs'[m] = fsegs[m]
    BY <1>1, <1>2, LogAssumption, ReplicationAssumption, FL!CreateFileOf
  <2>2. QED
    BY <2>1
<1>3. CASE FL!WriteHeader
  <2>1. DOMAIN fsegs' = DOMAIN fsegs /\ \A m \in DOMAIN fsegs : fsegs'[m].recs = fsegs[m].recs
    BY <1>1, <1>3, LogAssumption, ReplicationAssumption, FL!WriteHeaderOf
  <2>2. QED
    BY <2>1
<1>4. QED
  BY <1>2, <1>3 DEF FL!OpenSegmentStep

LEMMA NextAscends ==
    ASSUME TInv, Flow, Ascends, [Next]_vars PROVE Ascends'
<1>1. /\ rep \in Replica /\ RepOK(rep) /\ rep.position \in Nat /\ rep.book \in Seq(Recs)
      /\ fcrashes \in Nat
  <2>1. rep \in Replica /\ RepOK(rep) /\ fcrashes \in 0 .. MaxFollowerCrashes
    BY DEF TInv, RepOK, Counts
  <2>2. fcrashes \in Nat
    BY <2>1, ReplicationAssumption
  <2>3. QED
    BY <2>1, <2>2, ReplicaFields
<1>2. ASSUME rep'.book = rep.book, rep'.position = rep.position, fcrashes' = fcrashes,
             rep'.at \in {"start", "open"} => rep.at \in {"start", "open"} /\ fsegs' = fsegs
      PROVE  Ascends'
  BY <1>2 DEF Ascends
<1>3. CASE UNCHANGED <<rep, fsegs, fcrashes>>
  BY <1>2, <1>3
<1>4. CASE PrimaryStep \/ PrimaryHalts \/ ReportProgress \/ UNCHANGED vars \/ ConnectionBreaks
  BY <1>3, <1>4 DEF PrimaryStep, PrimaryHalts, ReportProgress, vars, followerVars, ConnectionBreaks
<1>5. CASE StreamStep
  BY <1>3, <1>5 DEF StreamStep, LocateSegment, ReadSegment, SegmentExhausted, DamagedSegment, Advance,
                    Send, TailOnly, followerVars
<1>6. CASE Discover
  <2>1. rep.at = "start" /\ rep' = [rep EXCEPT !.at = "open"] /\ UNCHANGED <<fsegs, fcrashes>>
    BY <1>6 DEF Discover
  <2>2. rep'.book = rep.book /\ rep'.position = rep.position
    BY <1>1, <2>1, Moves
  <2>3. QED
    BY <1>2, <2>1, <2>2
<1>7. CASE OpenSymbol
  <2>1. rep.at = "open" /\ fcrashes' = fcrashes
    BY <1>7 DEF OpenSymbol
  <2>2. SUFFICES ASSUME fcrashes = 0
                 PROVE  /\ Chunk(rep'.book, 0, rep'.position, FALSE)
                        /\ rep'.at \in {"start", "open"} => \A n \in DOMAIN fsegs' : fsegs'[n].recs = <<>>
    BY <2>1 DEF Ascends
  <2>3. Chunk(rep.book, 0, rep.position, FALSE) /\ \A n \in DOMAIN fsegs : fsegs[n].recs = <<>>
    BY <2>1, <2>2 DEF Ascends
  <2>4. CASE UNCHANGED rep /\ (F!OpenWriterOnNothing \/ F!OpenSegmentStep)
    <3>1. fsegs' = fsegs \/ FL!OpenSegmentStep
      BY <2>4, FollowerOpens DEF F!OpenWriterOnNothing
    <3>2. QED
      BY <2>3, <2>4, <3>1, StillNothing
  <2>5. CASE rep' = [rep EXCEPT !.at = "connect", !.book = F!Recover(fsegs),
                                !.position = F!HighestSeq(F!Recover(fsegs))]
    <3>1. rep' = [rep EXCEPT !.at = "connect", !.book = <<>>, !.position = 0]
      BY <2>3, <2>5, NothingStored
    <3>2. rep'.at = "connect" /\ rep'.book = <<>> /\ rep'.position = 0
      BY <1>1, <3>1 DEF Replica
    <3>3. Chunk(<<>>, 0, 0, FALSE)
      BY ChunkNone
    <3>4. QED
      BY <3>2, <3>3
  <2>6. QED
    BY <1>7, <2>4, <2>5 DEF OpenSymbol
<1>8. CASE OpenSymbolFails
  <2>1. rep.at = "open" /\ rep' = [rep EXCEPT !.at = "stopped"] /\ UNCHANGED fcrashes
    BY <1>8 DEF OpenSymbolFails
  <2>2. rep'.book = rep.book /\ rep'.position = rep.position /\ rep'.at = "stopped"
    BY <1>1, <2>1, Moves
  <2>3. QED
    BY <1>2, <2>1, <2>2
<1>9. CASE Connect \/ StreamEnds \/ FollowerCloses
  <2>1. PICK a \in {"recv", "connect", "stopped", "closed"} :
          rep.at # "append" /\ rep' = [rep EXCEPT !.at = a] /\ UNCHANGED fcrashes
    BY <1>9 DEF Connect, StreamEnds, FollowerCloses
  <2>2. rep'.book = rep.book /\ rep'.position = rep.position /\ rep'.at = a
    BY <1>1, <2>1, Moves
  <2>3. QED
    BY <1>2, <2>1, <2>2
<1>10. CASE Receive
  <2>1. PICK s, a : /\ rep' = [rep EXCEPT !.fresh = s, !.todo = s, !.at = a]
                    /\ a \in {"recv", "append"} /\ fcrashes' = fcrashes
    BY <1>10 DEF Receive
  <2>2. rep'.book = rep.book /\ rep'.position = rep.position /\ rep'.at = a
    BY <1>1, <2>1 DEF Replica
  <2>3. QED
    BY <1>2, <2>1, <2>2
<1>11. CASE AppendRecord
  <2>1. fcrashes' = fcrashes
    BY <1>11 DEF AppendRecord
  <2>2. QED
    BY <1>2, <1>11, <2>1, AppendTyped
<1>12. CASE ApplyFails
  <2>1. fcrashes' = fcrashes
    BY <1>12 DEF ApplyFails
  <2>2. QED
    BY <1>2, <1>12, <2>1, ApplyFailsTyped
<1>13. CASE SyncAndApply
  <2>1. rep.at = "append" /\ rep.todo = <<>> /\ rep' = Applied /\ fcrashes' = fcrashes
    BY <1>13 DEF SyncAndApply
  <2>2. /\ rep'.at = "recv" /\ rep'.book = rep.book \o rep.fresh /\ rep'.fresh = <<>>
        /\ rep'.position = rep.fresh[Len(rep.fresh)].seq
        /\ rep.fresh \in Seq(Recs) /\ Len(rep.fresh) \in 1 .. Len(rep.fresh) /\ RepOK(rep')
    BY <2>1, ApplyTyped
  <2>3. SUFFICES ASSUME fcrashes = 0 PROVE Chunk(rep'.book, 0, rep'.position, FALSE)
    BY <2>1, <2>2 DEF Ascends
  <2>4. FlowOf(rep, net, tail, Complete) /\ net \in Seq(Seq(Recs))
    BY DEF Flow, TInv, NetOK
  <2>5. Chunk(rep.fresh, rep.position, rep'.position, Complete)
    BY <1>1, <2>2, <2>4, FlowApply
  <2>6. Chunk(rep.fresh, rep.position, rep'.position, FALSE)
    BY <2>5, ChunkWeaker
  <2>7. Chunk(rep.book, 0, rep.position, FALSE)
    BY <2>3 DEF Ascends
  <2>8. rep'.position \in Nat
    BY <2>2, ReplicaFields DEF RepOK
  <2>9. Chunk(rep.book \o rep.fresh, 0, rep'.position, FALSE)
    BY <1>1, <2>2, <2>6, <2>7, <2>8, ChunkJoin
  <2>10. QED
    BY <2>2, <2>9
<1>14. CASE FollowerHalts
  <2>1. fcrashes' = fcrashes + 1
    BY <1>14 DEF FollowerHalts
  <2>2. fcrashes' # 0
    BY <1>1, <2>1
  <2>3. QED
    BY <2>2 DEF Ascends
<1>15. QED
  BY <1>4, <1>5, <1>6, <1>7, <1>8, <1>9, <1>10, <1>11, <1>12, <1>13, <1>14 DEF Next, FollowerStep

-----------------------------------------------------------------------------
(* The invariant of every file system, and the types it gives.             *)

Base == TInv /\ PrimaryExact /\ WInv

LEMMA NextBase ==
    ASSUME Base, [Next]_vars PROVE Base'
<1>1. TInv /\ PrimaryExact /\ Flow /\ Reach /\ Quiet /\ Ascends
  BY DEF Base, WInv
<1>2. TInv' /\ PrimaryExact' /\ Flow' /\ Reach' /\ Quiet' /\ Ascends'
  BY <1>1, NextTyped, NextPrimaryExact, NextFlow, NextReach, NextQuiet, NextAscends
<1>3. QED
  BY <1>2 DEF Base, WInv

LEMMA InitBase ==
    ASSUME Init PROVE Base
<1>1. TInv
  BY InitTyped
<1>2. PrimaryExact
  BY PrimarySteps, LogAssumption, PL!InitSInv DEF Init, PrimaryExact
<1>3. Flow
  <2>1. rep = NewReplica /\ net = <<>> /\ tail = NoTailer
    BY DEF Init
  <2>2. rep.fresh = <<>> /\ rep.position \in 0 .. MaxRecords /\ tail.at = "none"
    BY <2>1, NewTyped, ReplicaFields DEF RepOK, NoTailer
  <2>3. QED
    BY <2>1, <2>2, FlowStart DEF Flow
<1>4. Reach
  BY DEF Init, Reach, NoTailer
<1>5. Quiet
  BY DEF Init, Quiet
<1>6. Ascends
  <2>1. rep.book = <<>> /\ rep.position = 0 /\ DOMAIN fsegs = {}
    BY NewTyped DEF Init
  <2>2. Chunk(<<>>, 0, 0, FALSE)
    BY ChunkNone
  <2>3. QED
    BY <2>1, <2>2 DEF Ascends
<1>7. QED
  BY <1>1, <1>2, <1>3, <1>4, <1>5, <1>6 DEF Base, WInv

LEMMA AlwaysBase == Spec => []Base
<1>1. Init => Base
  BY InitBase
<1>2. Base /\ [Next]_vars => Base'
  BY NextBase
<1>3. QED
  BY <1>1, <1>2, PTL DEF Spec

(* Every variable of the primary, the stream and the follower keeps its type, on
   any file system: the Tailer reads a segment that is there, however the primary
   rotates and fails, a batch has at most walBatchCap records, and what is left of
   a batch to append is the end of it. *)
THEOREM TypeCorrect == Spec => []TypeOK
<1>1. Base => TypeOK
  BY TypedOK DEF Base
<1>2. QED
  BY <1>1, AlwaysBase, PTL

-----------------------------------------------------------------------------
(* The follower's log, when no record was passed over and no batch was     *)
(* given up.                                                               *)

Running == fw.state # "none" /\ rep.at # "closed"

StoreOK ==
    /\ FL!GInv /\ FL!SInv
    /\ rep.position = Len(rep.book)
    /\ rep.at \in {"start", "open"} => fw.state = "none"
    /\ fw.state = "none" =>
         rep.at \in {"start", "open", "stopped"} /\ rep.book = <<>> /\ rep.fresh = <<>>
    /\ Running => FL!Recover(fsegs) \o fw.buf \o rep.todo = rep.book \o rep.fresh

Sound == Complete /\ ~retried
FInv == Sound => StoreOK

-----------------------------------------------------------------------------
(* The follower's log.                                                     *)

LEMMA FollowerState ==
    ASSUME TInv
    PROVE  /\ rep \in Replica /\ RepOK(rep) /\ FL!WalOK(Recs, MaxRecords)
           /\ rep.position \in Nat /\ rep.position \in 0 .. MaxRecords
           /\ rep.book \in Seq(Recs) /\ rep.fresh \in Seq(Recs) /\ rep.todo \in Seq(Recs)
           /\ Len(rep.book) \in Nat /\ Len(rep.fresh) \in Nat /\ Len(rep.todo) \in Nat
           /\ Len(rep.todo) <= Len(rep.fresh) /\ MaxRecords \in Nat
           /\ ffaults \in 0 .. MaxFollowerFaults /\ fcrashes \in 0 .. MaxFollowerCrashes
<1>1. rep \in Replica /\ RepOK(rep) /\ FL!WalOK(Recs, MaxRecords) /\ Len(rep.todo) <= Len(rep.fresh)
      /\ ffaults \in 0 .. MaxFollowerFaults /\ fcrashes \in 0 .. MaxFollowerCrashes
  BY DEF TInv, RepOK, Remains, Counts
<1>2. QED
  BY <1>1, ReplicaFields, LogAssumption

(* The follower's log and book are left as they are. *)
LEMMA StoreStays ==
    ASSUME FL!GInv, FL!SInv, UNCHANGED <<fsegs, fw>>, FNode' = FNode, FPos' = FPos,
           rep'.book = rep.book, ffaults' \in 0 .. MaxFollowerFaults, UNCHANGED fcrashes
    PROVE  FL!GInv' /\ FL!SInv'
<1>1. FL!Typed'
  BY DEF FL!GInv, FL!Typed
<1>2. FL!SegsOK(fsegs', MaxRecords) /\ FL!Held' /\ FL!Opening'
  BY DEF FL!GInv, FL!Held, FL!Opening
<1>3. FL!Placed'
  BY DEF FL!GInv, FL!Placed
<1>4. FL!SInv'
  BY DEF FL!SInv, FL!Begun, FL!BookSurvives
<1>5. QED
  BY <1>1, <1>2, <1>3, <1>4 DEF FL!GInv

(* Nothing is under way in the follower between batches. *)
LEMMA NoBatch ==
    ASSUME TInv, rep.at # "append"
    PROVE  rep.fresh = <<>> /\ rep.todo = <<>> /\ FPos = rep.position
<1>1. RepOK(rep) /\ rep.position \in Nat
  BY FollowerState
<1>2. rep.fresh = <<>> /\ rep.todo = <<>>
  <2>1. PICK y : y = [rep EXCEPT !.at = "start"]
    OBVIOUS
  <2>2. QED
    BY <1>1, <2>1, Moves
<1>3. Len(<<>>) = 0 /\ rep.position + 0 - 0 = rep.position
  BY <1>1
<1>4. QED
  BY <1>2, <1>3 DEF FPos

(* The follower's log is not touched, nor is the book. *)
LEMMA StoreRests ==
    ASSUME TInv, TInv', StoreOK, UNCHANGED <<fsegs, fw, fcrashes>>, rep'.book = rep.book,
           rep'.position = rep.position, rep.at # "append", rep'.at # "closed", rep.at # "closed",
           rep'.at \in {"start", "open"} => rep.at \in {"start", "open"},
           rep'.fresh = rep'.todo,
           fw.state = "none" => rep'.at \in {"start", "open", "stopped"} /\ rep'.fresh = <<>>
    PROVE  StoreOK'
<1>1. rep.fresh = <<>> /\ rep.todo = <<>> /\ FPos = rep.position
  BY NoBatch
<1>2. FNode' = FNode
  BY DEF FNode
<1>3. FPos' = FPos
  <2>1. Len(rep'.fresh) \in Nat /\ rep.position \in Nat
    <3>1. rep'.fresh \in Seq(Recs)
      BY ReplicaFields DEF TInv, RepOK
    <3>2. QED
      BY <3>1, FollowerState
  <2>2. FPos' = rep.position + Len(rep'.fresh) - Len(rep'.fresh)
    BY DEF FPos
  <2>3. QED
    BY <1>1, <2>1, <2>2
<1>4. FL!GInv' /\ FL!SInv'
  BY <1>2, <1>3, StoreStays DEF StoreOK, TInv, Counts
<1>5. ASSUME Running PROVE FL!Recover(fsegs) \o fw.buf \o rep'.todo = rep'.book \o rep'.fresh
  <2>1. FL!Recover(fsegs) \o fw.buf \o <<>> = rep.book \o <<>>
    BY <1>1, <1>5 DEF StoreOK
  <2>2. PICK R : R = FL!Recover(fsegs) \o fw.buf
    OBVIOUS
  <2>3. R \in Seq(Recs) /\ rep.book \in Seq(Recs)
    <3>1. FL!Recover(fsegs) \in Seq(Recs) /\ fw.buf \in Seq(Recs)
      BY LogRead DEF TInv, FL!WalOK, FL!WalTyped, FL!WriterOf
    <3>2. QED
      BY <2>2, <3>1, FollowerState
  <2>4. R \o <<>> = R /\ rep.book \o <<>> = rep.book
    BY <2>3
  <2>5. R = rep.book
    BY <2>1, <2>2, <2>4
  <2>6. QED
    BY <2>2, <2>5
<1>6. Running' => Running
  BY DEF Running
<1>7. QED
  BY <1>4, <1>5, <1>6 DEF StoreOK

(* What is in the follower's files, and what its Writer holds. *)
LEMMA StoreTypes ==
    ASSUME TInv
    PROVE  /\ FL!Recover(fsegs) \in Seq(Recs) /\ fw.buf \in Seq(Recs)
           /\ fw.state \in FL!WriterStates /\ fw.step \in FL!WriterSteps
BY LogRead DEF TInv, FL!WalOK, FL!WalTyped, FL!WriterOf

(* What is on the follower's disk stays there, and what it holds when it does
   not run it held before. *)
LogKept ==
    /\ Len(FL!Durable(fsegs)) <= Len(FL!Durable(fsegs'))
    /\ ~Running' =>
         FL!IsPrefix(FL!Recover(fsegs') \o fw'.buf, FL!Recover(fsegs) \o fw.buf)

LEMMA LogTypes ==
    ASSUME FL!GInv, FL!SInv
    PROVE  /\ FL!Recover(fsegs) \in Seq(FL!Records) /\ fw.buf \in Seq(FL!Records)
           /\ FL!Recover(fsegs) \o fw.buf \in Seq(FL!Records)
           /\ Len(FL!Durable(fsegs)) \in Nat /\ Len(FL!Recover(fsegs)) \in Nat
           /\ Len(FL!Durable(fsegs)) <= Len(FL!Recover(fsegs))
           /\ FL!Durable(fsegs) \in Seq(FL!Records)
           /\ Len(FL!Recover(fsegs) \o fw.buf) = Len(FL!Recover(fsegs)) + Len(fw.buf)
           /\ Len(fw.buf) \in Nat
BY LogAssumption, ReplicationAssumption, FL!OpenLog DEF FL!SInv

LEMMA KeptAsIs ==
    ASSUME FL!GInv, FL!SInv, FL!Durable(fsegs') = FL!Durable(fsegs),
           FL!Recover(fsegs') \o fw'.buf = FL!Recover(fsegs) \o fw.buf
    PROVE  LogKept
<1>1. PICK R \in Seq(FL!Records) : R = FL!Recover(fsegs) \o fw.buf
  BY LogTypes
<1>2. FL!IsPrefix(R, R)
  BY LogAssumption, ReplicationAssumption, FL!PrefixSelf
<1>3. PICK d \in Nat : d = Len(FL!Durable(fsegs))
  BY LogTypes
<1>4. d <= d
  OBVIOUS
<1>5. QED
  BY <1>1, <1>2, <1>3, <1>4 DEF LogKept

(* A step the owner of a log does not see. *)
LEMMA KeptHidden ==
    ASSUME FL!GInv, FL!SInv, FL!GInv', FL!SInv', UNCHANGED FL!Promise!logVars
    PROVE  LogKept
<1>1. /\ FL!Recover(fsegs') \o fw'.buf = FL!Recover(fsegs) \o fw.buf
      /\ Len(FL!Durable(fsegs')) = Len(FL!Durable(fsegs))
  BY DEF FL!Promise!logVars
<1>2. PICK R \in Seq(FL!Records) : R = FL!Recover(fsegs) \o fw.buf
  BY LogTypes
<1>3. FL!IsPrefix(R, R)
  BY LogAssumption, ReplicationAssumption, FL!PrefixSelf
<1>4. PICK d \in Nat : d = Len(FL!Durable(fsegs))
  BY LogTypes
<1>5. d <= d
  OBVIOUS
<1>6. QED
  BY <1>1, <1>2, <1>3, <1>4, <1>5 DEF LogKept

LEMMA StoreOpens ==
    ASSUME TInv, TInv', FsyncNames, StoreOK, OpenSymbol PROVE StoreOK' /\ LogKept
<1>1. /\ rep.at = "open" /\ fw.state = "none" /\ FL!GInv /\ FL!SInv /\ FL!LaidOut(fsegs)
      /\ UNCHANGED <<ffaults, fcrashes>>
  BY DEF OpenSymbol, StoreOK, FL!SInv
<1>2. FNode = "down"
  BY <1>1 DEF FNode
<1>3. CASE UNCHANGED rep /\ FL!OpenWriterOnNothing
  <2>1. fw'.state = "none"
    BY <1>3, FollowerState, LogAssumption, ReplicationAssumption, FL!OnNothingOf
  <2>2. FNode' = FNode /\ FPos' = FPos
    BY <1>1, <1>3, <2>1 DEF FNode, FPos
  <2>3. FL!Restart
    BY <1>1, <1>2, <1>3, <2>2 DEF FL!Restart, FL!ownerVars
  <2>4. FL!GInv'
    BY <1>1, <2>3, LogAssumption, ReplicationAssumption, FL!RestartStep
  <2>5. FL!SInv'
    BY <1>1, <2>3, <2>4, LogAssumption, ReplicationAssumption, FL!RestartPromise
  <2>6. fsegs' = fsegs /\ fw.buf = <<>> /\ fw'.buf = <<>>
    BY <1>1, <1>3, <2>1, <2>4 DEF FL!OpenWriterOnNothing, FL!GInv, FL!Held
  <2>7. LogKept
    BY <1>1, <2>6, KeptAsIs
  <2>8. QED
    BY <1>1, <1>3, <2>1, <2>4, <2>5, <2>7 DEF StoreOK, Running
<1>4. CASE UNCHANGED rep /\ FL!OpenSegmentStep
  <2>1. fw'.state = "none"
    BY <1>1, <1>4, FollowerState, LogAssumption, ReplicationAssumption, FL!CreateFileOf,
       FL!WriteHeaderOf DEF FL!OpenSegmentStep
  <2>2. FNode' = FNode /\ FPos' = FPos
    BY <1>1, <1>4, <2>1 DEF FNode, FPos
  <2>3. UNCHANGED FL!ownerVars
    BY <1>1, <1>4, <2>2 DEF FL!ownerVars
  <2>4. FL!GInv'
    BY <1>1, <1>4, <2>3, LogAssumption, ReplicationAssumption, FL!CreateFileKeeps,
       FL!WriteHeaderKeeps DEF FL!OpenSegmentStep
  <2>5. FL!SInv' /\ UNCHANGED FL!Promise!logVars
    BY <1>1, <1>4, <2>3, <2>4, LogAssumption, ReplicationAssumption, FL!OpenSegmentPromise
  <2>6. LogKept
    BY <1>1, <2>4, <2>5, KeptHidden
  <2>7. QED
    BY <1>1, <1>4, <2>1, <2>4, <2>5, <2>6 DEF StoreOK, Running
<1>5. CASE /\ FL!OpenWriterOnNewest \/ FL!FirstSegmentOpened
           /\ rep' = [rep EXCEPT !.at = "connect", !.book = F!Recover(fsegs),
                                 !.position = F!HighestSeq(F!Recover(fsegs))]
  <2>1. PICK R \in Seq(Recs) : R = FL!Recover(fsegs)
    BY LogRead
  <2>2. PICK h \in Nat : h = Len(R)
    OBVIOUS
  <2>3. FL!LastPosition(fsegs) = h /\ FL!HighestSeq(FL!Recover(fsegs)) = h
    BY <1>1, <2>1, <2>2, LogAssumption, ReplicationAssumption, FL!LastIsLength
  <2>4. F!Recover(fsegs) = R /\ F!HighestSeq(F!Recover(fsegs)) = h
    BY <2>1, <2>3, LogRead
  <2>5. rep' = [rep EXCEPT !.at = "connect", !.book = R, !.position = h]
    BY <1>5, <2>4
  <2>6. rep \in Replica
    BY FollowerState
  <2>7. rep'.at = "connect" /\ rep'.book = R /\ rep'.position = h
    BY <2>5, <2>6 DEF Replica
  <2>8. rep'.fresh = <<>> /\ rep'.todo = <<>> /\ FPos' = rep'.position
    <3>1. (TInv /\ rep.at # "append" => rep.fresh = <<>> /\ rep.todo = <<>> /\ FPos = rep.position)'
      BY NoBatch, PTL
    <3>2. QED
      BY <2>7, <3>1
  <2>9. fw'.state = "open"
    BY <1>5, FollowerState, Numbered, LogAssumption, ReplicationAssumption, FL!OnNewestOf,
       FL!FirstOpenedOf
  <2>10. FNode' = "up"
    BY <2>7, <2>9 DEF FNode
  <2>11. FL!Opened
    BY <1>1, <2>1, <2>3, <2>7, <2>8, <2>10 DEF FL!Opened, FL!ResumeFrom
  <2>12. FL!Restart
    BY <1>2, <1>5, <2>11 DEF FL!Restart
  <2>13. FL!GInv'
    BY <1>1, <2>12, LogAssumption, ReplicationAssumption, FL!RestartStep
  <2>14. FL!SInv'
    BY <1>1, <2>12, <2>13, LogAssumption, ReplicationAssumption, FL!RestartPromise
  <2>15. FL!Recover(fsegs') = R /\ fw'.buf = <<>> /\ FL!Durable(fsegs') = R
    BY <1>1, <1>5, <2>1, LogAssumption, ReplicationAssumption, FL!OpenedView, FL!FirstView
  <2>16. FL!Recover(fsegs') \o fw'.buf \o rep'.todo = rep'.book \o rep'.fresh
    BY <2>7, <2>8, <2>15
  <2>17. LogKept
    BY <1>1, <2>1, <2>7, <2>9, <2>15, LogTypes DEF LogKept, Running
  <2>18. QED
    BY <2>2, <2>7, <2>9, <2>13, <2>14, <2>16, <2>17 DEF StoreOK
<1>6. QED
  BY <1>3, <1>4, <1>5, FollowerOpens DEF OpenSymbol

LEMMA StoreOpenFails ==
    ASSUME TInv, TInv', StoreOK, OpenSymbolFails PROVE StoreOK' /\ LogKept
<1>1. /\ rep.at = "open" /\ fw.state = "none" /\ FL!GInv /\ FL!SInv /\ UNCHANGED fcrashes
      /\ rep' = [rep EXCEPT !.at = "stopped"] /\ rep.book = <<>>
  BY DEF OpenSymbolFails, StoreOK
<1>2. RepOK(rep)
  BY FollowerState
<1>3. /\ rep'.at = "stopped" /\ rep'.position = rep.position /\ rep'.book = rep.book
      /\ rep'.fresh = rep.fresh /\ rep'.todo = rep.todo /\ rep.fresh = <<>> /\ rep.todo = <<>>
  BY <1>1, <1>2, Moves
<1>4. CASE UNCHANGED <<fsegs, fw>>
  BY <1>1, <1>3, <1>4, StoreRests, KeptAsIs
<1>5. CASE /\ FL!OpenWriterFails \/ FL!OpenSegmentFails
           /\ ffaults < MaxFollowerFaults /\ ffaults' = ffaults + 1
  <2>1. fw'.state = "none"
    BY <1>1, <1>5, FollowerState, LogAssumption, ReplicationAssumption, FL!OpenFailsOf,
       FL!OpenSegmentFailsOf
  <2>2. FNode = "down" /\ FNode' = "down" /\ FPos' = FPos
    BY <1>1, <1>3, <2>1 DEF FNode, FPos
  <2>3. FL!RestartFails
    BY <1>1, <1>3, <1>5, <2>2 DEF FL!RestartFails
  <2>4. FL!GInv'
    BY <1>1, <2>3, LogAssumption, ReplicationAssumption, FL!RestartFailsStep
  <2>5. FL!SInv' /\ UNCHANGED FL!Promise!logVars
    BY <1>1, <2>3, <2>4, LogAssumption, ReplicationAssumption, FL!RestartFailsPromise
  <2>6. LogKept
    BY <1>1, <2>4, <2>5, KeptHidden
  <2>7. QED
    BY <1>1, <1>3, <2>1, <2>4, <2>5, <2>6 DEF StoreOK, Running
<1>6. QED
  BY <1>4, <1>5, FollowerOpens DEF OpenSymbolFails

(* The record that is appended next is the one that follows all others. *)
LEMMA NextToStore ==
    ASSUME TInv, Flow, Complete, rep.at = "append", rep.todo # <<>>
    PROVE  /\ Head(rep.todo) \in Recs /\ Head(rep.todo).seq = FPos + 1 /\ FPos \in Nat
           /\ FPos + 1 <= MaxRecords /\ Tail(rep.todo) \in Seq(Recs)
           /\ Len(Tail(rep.todo)) = Len(rep.todo) - 1
<1>1. PICK t \in Seq(Recs) : t = rep.todo
  BY FollowerState
<1>2. PICK s \in Seq(Recs) : s = rep.fresh
  BY FollowerState
<1>3. Remains(t, s)
  BY <1>1, <1>2 DEF TInv, RepOK
<1>4. /\ Head(t) \in Recs /\ Tail(t) \in Seq(Recs) /\ Len(Tail(t)) = Len(t) - 1
      /\ Len(t) \in Nat \ {0} /\ Len(t) <= Len(s) /\ Len(s) \in Nat
      /\ Head(t) = s[Len(s) - Len(t) + 1]
  BY <1>1, <1>3, RemainsTail
<1>5. PICK hi : Chunk(s, rep.position, hi, Complete)
  BY <1>2 DEF Flow, FlowOf
<1>6. \A k \in 1 .. Len(s) : s[k].seq = rep.position + k
  BY <1>5 DEF Chunk
<1>7. PICK k : k = Len(s) - Len(t) + 1
  OBVIOUS
<1>8. k \in 1 .. Len(s)
  <2>1. PICK n \in Nat, m \in Nat : n = Len(s) /\ m = Len(t)
    BY <1>4
  <2>2. k = n - m + 1 /\ 1 <= m /\ m <= n
    BY <1>4, <1>7, <2>1
  <2>3. k \in 1 .. n
    BY <2>2
  <2>4. QED
    BY <2>1, <2>3
<1>9. Head(t).seq = rep.position + k /\ rep.position \in Nat
  BY <1>4, <1>6, <1>7, <1>8, FollowerState
<1>10. FPos = rep.position + Len(s) - Len(t)
  BY <1>1, <1>2 DEF FPos
<1>11. FPos \in Nat /\ rep.position + k = FPos + 1
  <2>1. PICK n \in Nat, m \in Nat, p \in Nat : n = Len(s) /\ m = Len(t) /\ p = rep.position
    BY <1>4, <1>9
  <2>2. k = n - m + 1 /\ m <= n /\ FPos = p + n - m
    BY <1>4, <1>7, <1>10, <2>1
  <2>3. FPos \in Nat /\ p + k = FPos + 1
    BY <2>2
  <2>4. QED
    BY <2>1, <2>3
<1>12. Head(t).seq <= MaxRecords
  BY <1>4, RecordFields, LogAssumption
<1>13. QED
  BY <1>1, <1>4, <1>9, <1>11, <1>12

LEMMA MovesOver ==
    ASSUME NEW x \in Seq(Recs), NEW t \in Seq(Recs), t # <<>>
    PROVE  Append(x, Head(t)) \o Tail(t) = x \o t
<1>1. Head(t) \in Recs /\ Tail(t) \in Seq(Recs) /\ t = <<Head(t)>> \o Tail(t)
  BY HeadTailProperties
<1>2. PICK h \in Recs : h = Head(t)
  BY <1>1
<1>3. PICK u \in Seq(Recs) : u = Tail(t)
  BY <1>1
<1>4. Append(x, h) = x \o <<h>> /\ <<h>> \in Seq(Recs)
  OBVIOUS
<1>5. (x \o <<h>>) \o u = x \o (<<h>> \o u)
  BY <1>4, SameRecords, LogAssumption, PL!Associative
<1>6. QED
  BY <1>1, <1>2, <1>3, <1>4, <1>5

LEMMA StoreAppends ==
    ASSUME TInv, TInv', Flow, Complete, StoreOK, AppendRecord PROVE StoreOK' /\ LogKept
<1>1. /\ rep.at = "append" /\ rep.todo # <<>> /\ FL!GInv /\ FL!SInv /\ UNCHANGED <<ffaults, fcrashes>>
      /\ rep.fresh # <<>> /\ rep.position = Len(rep.book)
  BY DEF AppendRecord, StoreOK, TInv, RepOK
<1>2. fw.state # "none" /\ FNode = "up"
  BY <1>1 DEF StoreOK, FNode
<1>3. PICK R \in Seq(Recs) : R = FL!Recover(fsegs) \o fw.buf
  <2>1. FL!Recover(fsegs) \in Seq(Recs) /\ fw.buf \in Seq(Recs)
    BY StoreTypes
  <2>2. PICK x \in Seq(Recs) : x = FL!Recover(fsegs)
    BY <2>1
  <2>3. PICK y \in Seq(Recs) : y = fw.buf
    BY <2>1
  <2>4. x \o y \in Seq(Recs)
    OBVIOUS
  <2>5. QED
    BY <2>2, <2>3, <2>4
<1>4. R \o rep.todo = rep.book \o rep.fresh
  BY <1>1, <1>2, <1>3 DEF StoreOK, Running
<1>5. PICK rec \in Recs : rec = Head(rep.todo)
  BY <1>1, NextToStore
<1>6. /\ rec \in FL!Records /\ rec.seq = FPos + 1 /\ FPos \in Nat /\ FPos + 1 <= MaxRecords
      /\ MaxRecords \in Nat /\ MaxRecords <= MaxRecords /\ MaxRecords \in 0 .. MaxRecords
  BY <1>1, <1>5, NextToStore, SameRecords, LogAssumption
<1>7. /\ rep'.position = rep.position /\ rep'.book = rep.book /\ rep'.fresh = rep.fresh
      /\ rep'.at = "append"
  BY AppendTyped
<1>8. ASSUME fw'.state # "none", FL!GInv', FL!SInv',
             FL!Recover(fsegs') \o fw'.buf \o rep'.todo = rep'.book \o rep'.fresh,
             Len(FL!Durable(fsegs)) <= Len(FL!Durable(fsegs'))
      PROVE  StoreOK' /\ LogKept
  BY <1>1, <1>7, <1>8 DEF StoreOK, LogKept, Running
<1>9. CASE UNCHANGED rep /\ FL!Rotate(rec)
  <2>1. fw'.state = "closed"
    BY <1>6, <1>9, FollowerState, Numbered, LogAssumption, ReplicationAssumption, FL!RotateOf
  <2>2. FNode' = FNode /\ FPos' = FPos
    BY <1>1, <1>2, <1>9, <2>1 DEF FNode, FPos
  <2>3. UNCHANGED FL!ownerVars
    BY <1>1, <1>9, <2>2 DEF FL!ownerVars
  <2>4. FL!GInv'
    BY <1>1, <1>2, <1>6, <1>9, <2>3, LogAssumption, ReplicationAssumption, FL!RotateKeeps
  <2>5. FL!SInv' /\ FL!Recover(fsegs') = R /\ fw'.buf = <<>> /\ FL!Promise!Sync
    BY <1>1, <1>2, <1>3, <1>9, <2>3, <2>4, LogAssumption, ReplicationAssumption, FL!RotatePromise
  <2>6. R \o <<>> = R
    OBVIOUS
  <2>7. FL!Recover(fsegs') \o fw'.buf \o rep'.todo = rep'.book \o rep'.fresh
    BY <1>4, <1>9, <2>5, <2>6
  <2>8. Len(FL!Durable(fsegs)) <= Len(FL!Durable(fsegs'))
    <3>1. Len(FL!Durable(fsegs')) = Len(FL!Recover(fsegs) \o fw.buf)
      BY <2>5 DEF FL!Promise!Sync
    <3>2. QED
      BY <1>1, <3>1, LogTypes
  <2>9. QED
    BY <1>8, <2>1, <2>4, <2>5, <2>7, <2>8
<1>10. CASE UNCHANGED rep /\ FL!OpenSegmentStep
  <2>1. fw'.state = fw.state
    BY <1>10, FollowerState, LogAssumption, ReplicationAssumption, FL!CreateFileOf,
       FL!WriteHeaderOf DEF FL!OpenSegmentStep
  <2>2. FNode' = FNode /\ FPos' = FPos
    BY <1>10, <2>1 DEF FNode, FPos
  <2>3. UNCHANGED FL!ownerVars
    BY <1>1, <1>10, <2>2 DEF FL!ownerVars
  <2>4. FL!GInv'
    BY <1>1, <1>10, <2>3, LogAssumption, ReplicationAssumption, FL!CreateFileKeeps,
       FL!WriteHeaderKeeps DEF FL!OpenSegmentStep
  <2>5. FL!SInv' /\ UNCHANGED FL!Promise!logVars
    BY <1>1, <1>10, <2>3, <2>4, LogAssumption, ReplicationAssumption, FL!OpenSegmentPromise
  <2>6. FL!Recover(fsegs') \o fw'.buf = R
    BY <1>3, <2>5 DEF FL!Promise!logVars
  <2>7. FL!Recover(fsegs') \o fw'.buf \o rep'.todo = rep'.book \o rep'.fresh
    BY <1>4, <1>10, <2>6
  <2>8. Len(FL!Durable(fsegs)) <= Len(FL!Durable(fsegs'))
    BY <1>1, <2>4, <2>5, KeptHidden DEF LogKept
  <2>9. QED
    BY <1>2, <1>8, <2>1, <2>4, <2>5, <2>7, <2>8
<1>11. CASE rep' = [rep EXCEPT !.todo = Tail(@)] /\ (FL!AppendFits(rec) \/ FL!AppendRotated(rec))
  <2>1. fw'.state = "open"
    BY <1>6, <1>11, FollowerState, Numbered, LogAssumption, ReplicationAssumption,
       FL!AppendFitsOf, FL!AppendRotatedOf
  <2>2. FNode' = "up" /\ FNode' = FNode
    BY <1>2, <1>7, <2>1 DEF FNode
  <2>3. rep'.todo = Tail(rep.todo)
    BY <1>11, FollowerState DEF Replica
  <2>4. FPos' = FPos + 1
    <3>1. Len(Tail(rep.todo)) = Len(rep.todo) - 1
      BY <1>1, NextToStore
    <3>2. FPos' = rep.position + Len(rep.fresh) - (Len(rep.todo) - 1)
      BY <1>7, <2>3, <3>1 DEF FPos
    <3>3. PICK a \in Nat, b \in Nat, c \in Nat :
              a = rep.position /\ b = Len(rep.fresh) /\ c = Len(rep.todo)
      BY FollowerState
    <3>4. FPos' = a + b - (c - 1) /\ FPos = a + b - c
      BY <3>2, <3>3 DEF FPos
    <3>5. QED
      BY <3>4
  <2>5. FL!GInv'
    BY <1>1, <1>2, <1>6, <1>7, <1>11, <2>2, <2>4, LogAssumption, ReplicationAssumption,
       FL!AppendKeeps
  <2>6. /\ FL!SInv' /\ FL!Recover(fsegs') \o fw'.buf = Append(R, rec)
        /\ FL!Durable(fsegs') = FL!Durable(fsegs)
    BY <1>1, <1>2, <1>3, <1>6, <1>7, <1>11, <2>2, <2>5, LogAssumption, ReplicationAssumption,
       FL!AppendPromise
  <2>7. Append(R, rec) \o Tail(rep.todo) = R \o rep.todo
    BY <1>1, <1>5, FollowerState, MovesOver
  <2>8. FL!Recover(fsegs') \o fw'.buf \o rep'.todo = rep'.book \o rep'.fresh
    BY <1>4, <1>7, <2>3, <2>6, <2>7
  <2>9. Len(FL!Durable(fsegs)) <= Len(FL!Durable(fsegs'))
    BY <1>1, <2>6, LogTypes
  <2>10. QED
    BY <1>8, <2>1, <2>5, <2>6, <2>8, <2>9
<1>12. QED
  BY <1>5, <1>9, <1>10, <1>11, FollowerWrites, FollowerOpens DEF AppendRecord

LEMMA StoreCommits ==
    ASSUME TInv, TInv', Flow, Complete, StoreOK, SyncAndApply PROVE StoreOK' /\ LogKept
<1>1. /\ rep.at = "append" /\ rep.todo = <<>> /\ FL!Sync /\ rep' = Applied
      /\ UNCHANGED <<ffaults, fcrashes>> /\ FL!GInv /\ FL!SInv /\ rep.position = Len(rep.book)
  BY FollowerWrites DEF SyncAndApply, StoreOK
<1>2. /\ rep'.at = "recv" /\ rep'.book = rep.book \o rep.fresh
      /\ rep'.position = rep.fresh[Len(rep.fresh)].seq /\ rep'.fresh = <<>> /\ rep'.todo = <<>>
      /\ Len(rep.fresh) \in 1 .. Len(rep.fresh)
  BY <1>1, ApplyTyped
<1>3. fw.state = "open" /\ fw'.state = "open" /\ fw'.buf = <<>>
  BY <1>1, FollowerState, LogAssumption, ReplicationAssumption, FL!SyncOf
<1>4. FNode = "up" /\ FNode' = "up"
  BY <1>1, <1>2, <1>3 DEF FNode
<1>5. fsegs' = FL!Fsynced(FL!Flushed)
  BY <1>1 DEF FL!Sync
<1>6. /\ FL!Recover(fsegs') = FL!Recover(fsegs) \o fw.buf
      /\ FL!Durable(fsegs') = FL!Recover(fsegs')
  BY <1>1, <1>3, <1>4, <1>5, LogAssumption, ReplicationAssumption, FL!SyncPromise
<1>7. rep'.book = FL!Recover(fsegs')
  <2>1. FL!Recover(fsegs') \o <<>> = rep'.book
    BY <1>1, <1>2, <1>3, <1>6 DEF StoreOK, Running
  <2>2. FL!Recover(fsegs') \in Seq(Recs)
    <3>1. (TInv => FL!Recover(fsegs) \in Seq(Recs))'
      BY StoreTypes, PTL
    <3>2. QED
      BY <3>1
  <2>3. QED
    BY <2>1, <2>2
<1>8. rep'.position = rep.position + Len(rep.fresh)
  <2>1. PICK hi : Chunk(rep.fresh, rep.position, hi, Complete)
    BY DEF Flow, FlowOf
  <2>2. QED
    BY <1>2, <2>1 DEF Chunk
<1>9. rep'.position = Len(rep'.book)
  <2>1. Len(rep.book \o rep.fresh) = Len(rep.book) + Len(rep.fresh)
    BY FollowerState
  <2>2. QED
    BY <1>1, <1>2, <1>8, <2>1
<1>10. FPos' = FPos
  <2>1. PICK a \in Nat, b \in Nat : a = rep.position /\ b = Len(rep.fresh)
    BY FollowerState
  <2>2. FPos = a + b - 0 /\ FPos' = a + b + 0 - 0
    BY <1>1, <1>2, <1>8, <2>1 DEF FPos
  <2>3. QED
    BY <2>2
<1>11. FL!Commit
  BY <1>1, <1>4, <1>7, <1>10 DEF FL!Commit
<1>12. FL!GInv'
  BY <1>1, <1>11, LogAssumption, ReplicationAssumption, FL!CommitStep
<1>13. FL!SInv'
  BY <1>1, <1>11, <1>12, LogAssumption, ReplicationAssumption, FL!CommitPromise
<1>14. FL!Recover(fsegs') \o fw'.buf \o rep'.todo = rep'.book \o rep'.fresh
  BY <1>2, <1>3, <1>7
<1>15. LogKept
  <2>1. Len(FL!Durable(fsegs)) <= Len(FL!Durable(fsegs'))
    BY <1>1, <1>6, LogTypes
  <2>2. QED
    BY <1>2, <1>3, <2>1 DEF LogKept, Running
<1>16. QED
  BY <1>2, <1>3, <1>9, <1>12, <1>13, <1>14, <1>15 DEF StoreOK

LEMMA StoreCloses ==
    ASSUME TInv, TInv', StoreOK, FollowerCloses PROVE StoreOK' /\ LogKept
<1>1. /\ rep.at \in {"connect", "recv", "stopped"} /\ FL!Close /\ rep' = [rep EXCEPT !.at = "closed"]
      /\ UNCHANGED <<ffaults, fcrashes>> /\ FL!GInv /\ FL!SInv /\ RepOK(rep)
  BY FollowerEnds, FollowerState DEF FollowerCloses, StoreOK
<1>2. /\ rep'.at = "closed" /\ rep'.position = rep.position /\ rep'.book = rep.book
      /\ rep'.fresh = rep.fresh /\ rep'.todo = rep.todo
  BY <1>1, Moves
<1>3. fw.state # "none" /\ fw'.state = "closed"
  BY <1>1, FollowerState, LogAssumption, ReplicationAssumption, FL!CloseOf DEF FL!Close
<1>4. FNode = "up" /\ FNode' = "stopped" /\ FPos' = FPos
  BY <1>1, <1>2, <1>3 DEF FNode, FPos
<1>5. FL!Shutdown
  BY <1>1, <1>2, <1>4 DEF FL!Shutdown
<1>6. FL!GInv'
  BY <1>1, <1>5, LogAssumption, ReplicationAssumption, FL!ShutdownStep
<1>7. FL!SInv' /\ FL!Promise!Fail
  BY <1>1, <1>5, <1>6, LogAssumption, ReplicationAssumption, FL!ShutdownPromise
<1>8. Len(FL!Durable(fsegs)) <= Len(FL!Durable(fsegs'))
  <2>1. PICK d \in Nat, r \in Nat : /\ d = Len(FL!Durable(fsegs)) /\ r = Len(FL!Recover(fsegs))
                                    /\ d <= r
    BY <1>1, LogTypes
  <2>2. PICK e, q : /\ e = Len(FL!Durable(fsegs')) /\ q = Len(FL!Recover(fsegs'))
    OBVIOUS
  <2>3. PICK z : z = Len(FL!Recover(fsegs') \o fw'.buf)
    OBVIOUS
  <2>4. z \in Nat
    <3>1. (FL!GInv /\ FL!SInv =>
             /\ Len(FL!Recover(fsegs)) \in Nat /\ Len(fw.buf) \in Nat
             /\ Len(FL!Recover(fsegs) \o fw.buf) = Len(FL!Recover(fsegs)) + Len(fw.buf))'
      BY LogTypes, PTL
    <3>2. QED
      BY <1>6, <1>7, <2>3, <3>1
  <2>5. q \in r .. z /\ e \in {d, q}
    BY <1>7, <2>1, <2>2, <2>3 DEF FL!Promise!Fail
  <2>6. d <= e
    BY <2>1, <2>4, <2>5
  <2>7. QED
    BY <2>1, <2>2, <2>6
<1>9. FL!IsPrefix(FL!Recover(fsegs') \o fw'.buf, FL!Recover(fsegs) \o fw.buf)
  BY <1>7 DEF FL!Promise!Fail, FL!Promise!IsPrefix, FL!IsPrefix
<1>10. QED
  BY <1>2, <1>3, <1>6, <1>7, <1>8, <1>9 DEF StoreOK, Running, LogKept

LEMMA StoreHalts ==
    ASSUME TInv, TInv', StoreOK, FollowerHalts PROVE StoreOK' /\ LogKept
<1>1. /\ FL!Crash /\ rep' = NewReplica /\ UNCHANGED ffaults /\ FL!GInv /\ FL!SInv
      /\ ffaults' \in 0 .. MaxFollowerFaults /\ fcrashes' \in 0 .. MaxFollowerCrashes
  BY FollowerEnds DEF FollowerHalts, StoreOK, TInv, Counts
<1>2. /\ rep'.at = "start" /\ rep'.position = 0 /\ rep'.book = <<>>
      /\ rep'.fresh = <<>> /\ rep'.todo = <<>>
  BY <1>1, NewTyped
<1>3. fw' = FL!NoWriter
  BY <1>1, FollowerState, LogAssumption, ReplicationAssumption, FL!CrashOf
<1>4. /\ fw'.state = "none" /\ fw'.step = "idle" /\ fw'.buf = <<>>
  BY <1>3, LogAssumption, ReplicationAssumption, FL!NoWriterType
<1>5. FNode' = "down" /\ FPos' \in Nat
  BY <1>2, <1>4 DEF FNode, FPos
<1>6. rep'.book \in Seq(FL!Records)
  BY <1>2, SameRecords
<1>7. FL!GInv'
  BY <1>1, <1>5, <1>6, LogAssumption, ReplicationAssumption, FL!HaltKeeps
<1>8. FL!LaidOut(fsegs') /\ FL!Durable(fsegs') \in Seq(FL!Records)
  <2>1. FL!LaidOut(fsegs')
    BY <1>1, LogAssumption, ReplicationAssumption, FL!CrashView DEF FL!SInv
  <2>2. FL!SegsOK(fsegs', MaxRecords)
    BY <1>7 DEF FL!GInv
  <2>3. QED
    BY <2>1, <2>2, LogAssumption, ReplicationAssumption, FL!DurableIsPrefix
<1>9. FL!BookSurvives'
  BY <1>2, <1>8, LogAssumption, ReplicationAssumption, FL!NothingIsPrefix DEF FL!BookSurvives
<1>10. FL!SInv'
  BY <1>4, <1>8, <1>9 DEF FL!SInv, FL!Begun
<1>11. LogKept
  <2>1. PICK R \in Seq(FL!Records) : R = FL!Recover(fsegs)
    BY <1>1, LogTypes
  <2>2. PICK b \in Seq(FL!Records) : b = fw.buf
    BY <1>1, LogTypes
  <2>3. PICK k \in Len(FL!Durable(fsegs)) .. Len(R) : FL!Recover(fsegs') = SubSeq(R, 1, k)
    BY <1>1, <2>1, LogAssumption, ReplicationAssumption, FL!CrashView DEF FL!SInv
  <2>4. FL!Durable(fsegs') = FL!Durable(fsegs)
    BY <1>1, LogAssumption, ReplicationAssumption, FL!CrashView DEF FL!SInv
  <2>5. k \in 0 .. Len(R) /\ Len(FL!Durable(fsegs)) \in Nat
    BY <1>1, <2>1, LogTypes
  <2>6. PICK s : s = SubSeq(R, 1, k)
    OBVIOUS
  <2>7. s \in Seq(FL!Records) /\ FL!IsPrefix(s, R)
    BY <2>5, <2>6, LogAssumption, ReplicationAssumption, FL!PrefixCut, FL!Cut
  <2>8. PICK u : u = R \o b
    OBVIOUS
  <2>9. u \in Seq(FL!Records) /\ FL!IsPrefix(R, u) /\ s \o <<>> = s
    BY <2>7, <2>8, LogAssumption, ReplicationAssumption, FL!PrefixOfConcat
  <2>10. FL!IsPrefix(s, u)
    BY <2>7, <2>9, LogAssumption, ReplicationAssumption, FL!PrefixTransitive
  <2>11. FL!IsPrefix(FL!Recover(fsegs') \o fw'.buf, FL!Recover(fsegs) \o fw.buf)
    BY <1>4, <2>1, <2>2, <2>3, <2>6, <2>8, <2>9, <2>10
  <2>12. Len(FL!Durable(fsegs)) <= Len(FL!Durable(fsegs'))
    BY <2>4, <2>5
  <2>13. QED
    BY <2>11, <2>12 DEF LogKept
<1>12. QED
  BY <1>2, <1>4, <1>7, <1>10, <1>11 DEF StoreOK, Running

(* A step of the primary, of the stream or of the network. *)
LEMMA StoreIdle ==
    ASSUME StoreOK, UNCHANGED <<fsegs, fw, rep, fcrashes>>, ffaults' \in 0 .. MaxFollowerFaults
    PROVE  StoreOK' /\ LogKept
<1>1. FNode' = FNode /\ FPos' = FPos
  BY DEF FNode, FPos
<1>2. FL!GInv' /\ FL!SInv'
  BY <1>1, StoreStays DEF StoreOK
<1>3. LogKept
  BY KeptAsIs DEF StoreOK
<1>4. QED
  BY <1>2, <1>3 DEF StoreOK, Running

LEMMA StoreReceives ==
    ASSUME TInv, TInv', Flow, StoreOK, Discover \/ Connect \/ Receive \/ StreamEnds
    PROVE  StoreOK' /\ LogKept
<1>1. UNCHANGED <<fsegs, fw, fcrashes>> /\ RepOK(rep) /\ rep \in Replica
  BY FollowerState DEF Discover, Connect, Receive, StreamEnds
<1>2. LogKept
  BY <1>1, KeptAsIs DEF StoreOK
<1>3. CASE Discover
  <2>1. rep.at = "start" /\ rep' = [rep EXCEPT !.at = "open"]
    BY <1>3 DEF Discover
  <2>2. /\ rep'.at = "open" /\ rep'.position = rep.position /\ rep'.book = rep.book
        /\ rep'.fresh = <<>> /\ rep'.todo = <<>>
    BY <1>1, <2>1, Moves
  <2>3. QED
    BY <1>1, <2>1, <2>2, <1>2, StoreRests
<1>4. CASE Connect
  <2>1. rep.at = "connect" /\ rep' = [rep EXCEPT !.at = "recv"]
    BY <1>4 DEF Connect
  <2>2. /\ rep'.at = "recv" /\ rep'.position = rep.position /\ rep'.book = rep.book
        /\ rep'.fresh = <<>> /\ rep'.todo = <<>>
    BY <1>1, <2>1, Moves
  <2>3. fw.state # "none"
    BY <2>1 DEF StoreOK
  <2>4. QED
    BY <1>1, <2>1, <2>2, <2>3, <1>2, StoreRests
<1>5. CASE Receive
  <2>1. rep.at = "recv"
    BY <1>5 DEF Receive
  <2>2. fw.state # "none"
    BY <2>1 DEF StoreOK
  <2>3. PICK x : x = Fresh(Head(net))
    OBVIOUS
  <2>4. PICK a \in {"recv", "append"} : a = IF x = <<>> THEN "recv" ELSE "append"
    OBVIOUS
  <2>5. rep' = [rep EXCEPT !.fresh = x, !.todo = x, !.at = a]
    BY <1>5, <2>3, <2>4 DEF Receive
  <2>6. /\ rep'.at = a /\ rep'.position = rep.position /\ rep'.book = rep.book
        /\ rep'.fresh = rep'.todo
    BY <1>1, <2>5 DEF Replica
  <2>7. QED
    BY <1>1, <2>1, <2>2, <2>4, <2>6, <1>2, StoreRests
<1>6. CASE StreamEnds
  <2>1. PICK a \in {"stopped", "connect"} : rep.at = "recv" /\ rep' = [rep EXCEPT !.at = a]
    BY <1>6 DEF StreamEnds
  <2>2. /\ rep'.at = a /\ rep'.position = rep.position /\ rep'.book = rep.book
        /\ rep'.fresh = <<>> /\ rep'.todo = <<>>
    BY <1>1, <2>1, Moves
  <2>3. fw.state # "none"
    BY <2>1 DEF StoreOK
  <2>4. QED
    BY <1>1, <2>1, <2>2, <2>3, <1>2, StoreRests
<1>7. QED
  BY <1>3, <1>4, <1>5, <1>6

LEMMA NextFInv ==
    ASSUME Base, Base', FInv, [Next]_vars PROVE FInv' /\ (Sound' => LogKept)
<1>1. TInv /\ TInv' /\ Flow
  BY DEF Base, WInv
<1>2. Sound' => Sound
  BY RacedStays DEF Sound, Complete
<1>3. SUFFICES ASSUME Sound' PROVE StoreOK' /\ LogKept
  BY DEF FInv
<1>4. StoreOK /\ FsyncNames /\ Complete
  BY <1>2, <1>3 DEF FInv, Sound, Complete
<1>5. ffaults' \in 0 .. MaxFollowerFaults
  BY <1>1 DEF TInv, Counts
<1>6. CASE PrimaryStep \/ PrimaryHalts \/ StreamStep \/ ConnectionBreaks \/ ReportProgress \/ UNCHANGED vars
  <2>1. UNCHANGED <<fsegs, fw, rep, fcrashes>>
    BY <1>6 DEF PrimaryStep, PrimaryHalts, StreamStep, LocateSegment, ReadSegment,
                SegmentExhausted, DamagedSegment, Advance, Send, TailOnly, ConnectionBreaks,
                ReportProgress, followerVars, vars
  <2>2. QED
    BY <1>4, <1>5, <2>1, StoreIdle
<1>7. CASE FollowerStep
  <2>1. CASE ApplyFails
    BY <1>3, <2>1 DEF ApplyFails, Sound
  <2>2. CASE OpenSymbol
    BY <1>1, <1>4, <2>2, StoreOpens
  <2>3. CASE OpenSymbolFails
    BY <1>1, <1>4, <2>3, StoreOpenFails
  <2>4. CASE AppendRecord
    BY <1>1, <1>4, <2>4, StoreAppends
  <2>5. CASE SyncAndApply
    BY <1>1, <1>4, <2>5, StoreCommits
  <2>6. CASE Discover \/ Connect \/ Receive \/ StreamEnds
    BY <1>1, <1>4, <2>6, StoreReceives
  <2>7. QED
    BY <1>7, <2>1, <2>2, <2>3, <2>4, <2>5, <2>6 DEF FollowerStep
<1>8. CASE FollowerCloses
  BY <1>1, <1>4, <1>8, StoreCloses
<1>9. CASE FollowerHalts
  BY <1>1, <1>4, <1>9, StoreHalts
<1>10. QED
  BY <1>6, <1>7, <1>8, <1>9 DEF Next

LEMMA InitFInv ==
    ASSUME Init PROVE FInv
<1>1. /\ fsegs = <<>> /\ fw = FL!NoWriter /\ rep = NewReplica /\ ffaults = 0 /\ fcrashes = 0
  BY FollowerReads DEF Init
<1>2. /\ rep.at = "start" /\ rep.position = 0 /\ rep.book = <<>>
      /\ rep.fresh = <<>> /\ rep.todo = <<>>
  BY <1>1, NewTyped
<1>3. fw \in FL!Writer /\ fw.state = "none" /\ fw.step = "idle" /\ fw.buf = <<>>
  BY <1>1, LogAssumption, ReplicationAssumption, FL!NoWriterType
<1>4. FNode = "down" /\ FPos = 0 + 0 - 0
  BY <1>2, <1>3 DEF FNode, FPos
<1>5. DOMAIN fsegs = {}
  BY <1>1
<1>6. FL!Typed
  BY <1>1, <1>2, <1>3, <1>4, SameRecords, LogAssumption, ReplicationAssumption DEF FL!Typed
<1>7. FL!SegsOK(fsegs, MaxRecords)
  BY <1>5, <1>1 DEF FL!SegsOK
<1>8. FL!Held /\ FL!Opening /\ FL!Placed
  BY <1>3, <1>4 DEF FL!Held, FL!Opening, FL!Placed
<1>9. FL!GInv
  BY <1>6, <1>7, <1>8 DEF FL!GInv
<1>10. FL!LaidOut(fsegs)
  <2>1. FL!Recover(fsegs) = <<>>
    BY <1>5, LogAssumption, ReplicationAssumption, FL!RecoverOfNone
  <2>2. FL!NumberedFrom(<<>>, 1)
    BY DEF FL!NumberedFrom
  <2>3. QED
    BY <1>5, <2>1, <2>2 DEF FL!LaidOut, FL!Exact, FL!Dense, FL!Settled
<1>11. FL!Durable(fsegs) \in Seq(FL!Records)
  BY <1>7, <1>10, LogAssumption, ReplicationAssumption, FL!DurableIsPrefix
<1>12. FL!SInv
  BY <1>2, <1>3, <1>10, <1>11, LogAssumption, ReplicationAssumption, FL!NothingIsPrefix
     DEF FL!SInv, FL!Begun, FL!BookSurvives
<1>13. QED
  BY <1>2, <1>3, <1>9, <1>12 DEF FInv, StoreOK, Running

LEMMA AlwaysFInv == Spec => [](Base /\ FInv)
<1>1. Init => Base /\ FInv
  BY InitBase, InitFInv
<1>2. Base /\ FInv /\ [Next]_vars => (Base /\ FInv)'
  BY NextBase, NextFInv
<1>3. QED
  BY <1>1, <1>2, PTL DEF Spec

-----------------------------------------------------------------------------
(* What has been applied is numbered 1, 2, 3, ...                          *)

(* The book is the beginning of what a crash leaves of the follower's log. *)
LEMMA BookStored ==
    ASSUME TInv, StoreOK
    PROVE  LET all == FL!Recover(fsegs)
               stored == FL!Durable(fsegs)
           IN  /\ rep.book \in Seq(FL!Records) /\ stored \in Seq(FL!Records)
               /\ all \in Seq(FL!Records)
               /\ FL!IsPrefix(rep.book, stored) /\ FL!IsPrefix(stored, all)
               /\ FL!IsPrefix(rep.book, all)
               /\ \A k \in 1 .. Len(all) : all[k] \in Recs /\ all[k].seq = k
<1>1. FL!SegsOK(fsegs, MaxRecords) /\ FL!LaidOut(fsegs) /\ FL!BookSurvives
  BY DEF StoreOK, FL!GInv, FL!SInv
<1>2. PICK all : all = FL!Recover(fsegs)
  OBVIOUS
<1>3. PICK stored : stored = FL!Durable(fsegs)
  OBVIOUS
<1>4. /\ all \in Seq(FL!Records) /\ stored \in Seq(FL!Records) /\ FL!IsPrefix(stored, all)
  BY <1>1, <1>2, <1>3, LogAssumption, ReplicationAssumption, FL!DurableIsPrefix
<1>5. rep.book \in Seq(FL!Records) /\ FL!IsPrefix(rep.book, stored)
  BY <1>1, <1>3, FollowerState, SameRecords DEF FL!BookSurvives
<1>6. FL!IsPrefix(rep.book, all)
  BY <1>4, <1>5, LogAssumption, ReplicationAssumption, FL!PrefixTransitive
<1>7. FL!NumberedFrom(all, 1)
  BY <1>1, <1>2 DEF FL!LaidOut, FL!Dense
<1>8. \A k \in 1 .. Len(all) : all[k] \in Recs /\ all[k].seq = k
  BY <1>4, <1>7, SameRecords DEF FL!NumberedFrom
<1>9. QED
  BY <1>2, <1>3, <1>4, <1>5, <1>6, <1>8

LEMMA BookElements ==
    ASSUME TInv, StoreOK
    PROVE  /\ Len(rep.book) <= Len(FL!Durable(fsegs))
           /\ \A k \in 1 .. Len(rep.book) :
                rep.book[k] = FL!Durable(fsegs)[k] /\ rep.book[k] = FL!Recover(fsegs)[k]
                /\ rep.book[k].seq = k
<1>1. PICK all \in Seq(FL!Records) : all = FL!Recover(fsegs)
  BY BookStored
<1>2. PICK stored \in Seq(FL!Records) : stored = FL!Durable(fsegs)
  BY BookStored
<1>3. PICK bk \in Seq(FL!Records) : bk = rep.book
  BY BookStored
<1>4. /\ FL!IsPrefix(bk, stored) /\ FL!IsPrefix(bk, all)
      /\ \A k \in 1 .. Len(all) : all[k].seq = k
  BY <1>1, <1>2, <1>3, BookStored
<1>5. /\ Len(bk) <= Len(stored) /\ Len(bk) <= Len(all)
      /\ \A k \in 1 .. Len(bk) : bk[k] = stored[k] /\ bk[k] = all[k]
  BY <1>4, LogAssumption, ReplicationAssumption, FL!PrefixElements
<1>6. Len(bk) \in Nat /\ Len(all) \in Nat
  OBVIOUS
<1>7. \A k \in 1 .. Len(bk) : k \in 1 .. Len(all)
  BY <1>5, <1>6
<1>8. QED
  BY <1>1, <1>2, <1>3, <1>4, <1>5, <1>7

LEMMA NumbersContiguous ==
    ASSUME FsyncNames, Base, FInv PROVE Contiguous
<1>1. TInv /\ Ascends /\ rep.book \in Seq(Recs) /\ Len(rep.book) \in Nat
  BY FollowerState DEF Base, WInv
<1>2. ASSUME ~raced, ~retried, NEW k \in DOMAIN rep.book PROVE rep.book[k].seq = k
  <2>1. StoreOK
    BY <1>2 DEF FInv, Sound, Complete
  <2>2. k \in 1 .. Len(rep.book)
    BY <1>1, <1>2
  <2>3. QED
    BY <1>1, <2>1, <2>2, BookElements
<1>3. ASSUME fcrashes = 0, NEW k \in 1 .. Len(rep.book) - 1
      PROVE  rep.book[k].seq < rep.book[k + 1].seq
  <2>1. k \in 1 .. Len(rep.book) /\ k + 1 \in 1 .. Len(rep.book) /\ k < k + 1
    BY <1>1, <1>3
  <2>2. Chunk(rep.book, 0, rep.position, FALSE)
    BY <1>1, <1>3 DEF Ascends
  <2>3. QED
    BY <2>1, <2>2 DEF Chunk
<1>4. QED
  BY <1>2, <1>3 DEF Contiguous

(* On a file system that makes a file's name durable with its data, a follower
   applies every record exactly once and in order, however often it, the primary
   and the connection between them fail, and even when the primary reissues the
   positions of records that it had shipped and lost; a record can only be missed
   when the Tailer is overtaken by a rotation, or when a batch is given up halfway
   and, with the follower restarted, its log has lost its order. *)
THEOREM AppliedInOrder == FsyncNames => (Spec => []Contiguous)
<1> SUFFICES ASSUME FsyncNames PROVE Spec => []Contiguous
  OBVIOUS
<1>1. Base /\ FInv => Contiguous
  BY NumbersContiguous
<1>2. QED
  BY <1>1, AlwaysFInv, PTL

=============================================================================
