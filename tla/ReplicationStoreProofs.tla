---------------------- MODULE ReplicationStoreProofs ------------------------
(***************************************************************************)
(* What the follower has applied, stored and reported, compared with the   *)
(* primary's log, for every size of the logs, batches and network, and any *)
(* number of faults and crashes.                                           *)
(***************************************************************************)
EXTENDS ReplicationFlowProofs

-----------------------------------------------------------------------------
(* The follower's records are the primary's.                               *)

AllKnown(R, s) == \A k \in 1 .. Len(s) : PL!Known(R, s[k])

Traced(R) ==
    /\ AllKnown(R, rep.book) /\ AllKnown(R, rep.fresh) /\ AllKnown(R, tail.out)
    /\ \A i \in 1 .. Len(net) : AllKnown(R, net[i])

KnownTo(R) == Traced(R) /\ AllKnown(R, FL!Recover(fsegs) \o fw.buf)

Same == Sound /\ ~rewound => KnownTo(PL!Recover(segs))

Reported == Sound => progress <= Len(FL!Durable(fsegs))

-----------------------------------------------------------------------------
(* Where the records under way come from.                                  *)

LEMMA NoneKnown == \A R : AllKnown(R, <<>>)
BY DEF AllKnown

LEMMA KnownPart ==
    ASSUME NEW R, NEW s \in Seq(Recs), NEW t \in Seq(Recs), FL!IsPrefix(s, t), AllKnown(R, t)
    PROVE  AllKnown(R, s)
<1>1. Len(s) <= Len(t) /\ (\A k \in 1 .. Len(s) : s[k] = t[k]) /\ Len(s) \in Nat /\ Len(t) \in Nat
  BY SameRecords, LogAssumption, ReplicationAssumption, FL!PrefixElements
<1>2. \A k \in 1 .. Len(s) : k \in 1 .. Len(t)
  BY <1>1
<1>3. QED
  BY <1>1, <1>2 DEF AllKnown

LEMMA KnownConcat ==
    ASSUME NEW R, NEW s \in Seq(Recs), NEW t \in Seq(Recs)
    PROVE  /\ AllKnown(R, s) /\ AllKnown(R, t) => AllKnown(R, s \o t)
           /\ AllKnown(R, s \o t) => AllKnown(R, s)
<1>1. PICK u : u = s \o t
  OBVIOUS
<1>2. /\ u \in Seq(Recs) /\ Len(u) = Len(s) + Len(t) /\ Len(s) \in Nat /\ Len(t) \in Nat
      /\ \A k \in 1 .. Len(s) : u[k] = s[k]
      /\ \A k \in 1 .. Len(u) : k \in 1 .. Len(s) \/ (k - Len(s) \in 1 .. Len(t) /\ u[k] = t[k - Len(s)])
  BY <1>1
<1>3. \A k \in 1 .. Len(s) : k \in 1 .. Len(u)
  BY <1>2
<1>4. ASSUME AllKnown(R, s), AllKnown(R, t) PROVE AllKnown(R, u)
  BY <1>2, <1>4 DEF AllKnown
<1>5. ASSUME AllKnown(R, u) PROVE AllKnown(R, s)
  BY <1>2, <1>3, <1>5 DEF AllKnown
<1>6. QED
  BY <1>1, <1>4, <1>5

LEMMA KnownAppend ==
    ASSUME NEW R, NEW s \in Seq(Recs), AllKnown(R, s), NEW r \in Recs, PL!Known(R, r)
    PROVE  AllKnown(R, Append(s, r))
<1>1. PICK u : u = Append(s, r)
  OBVIOUS
<1>2. /\ Len(u) = Len(s) + 1 /\ Len(s) \in Nat
      /\ \A k \in 1 .. Len(u) : (k \in 1 .. Len(s) /\ u[k] = s[k]) \/ u[k] = r
  BY <1>1
<1>3. QED
  BY <1>1, <1>2 DEF AllKnown

(* What the primary's log has, it keeps. *)
LEMMA KnownLater ==
    ASSUME NEW R \in Seq(Recs), NEW Q \in Seq(Recs), PL!IsPrefix(R, Q)
    PROVE  \A s : AllKnown(R, s) => AllKnown(Q, s)
<1>1. Len(R) <= Len(Q) /\ (\A k \in 1 .. Len(R) : R[k] = Q[k]) /\ Len(R) \in Nat /\ Len(Q) \in Nat
  BY SameRecords, LogAssumption, PL!PrefixElements
<1>2. ASSUME NEW r, PL!Known(R, r) PROVE PL!Known(Q, r)
  <2>1. PICK n : n = r.seq
    OBVIOUS
  <2>2. n \in 1 .. Len(R) /\ R[n] = r
    BY <1>2, <2>1 DEF PL!Known
  <2>3. n \in 1 .. Len(Q)
    BY <1>1, <2>2
  <2>4. Q[n] = r
    BY <1>1, <2>2
  <2>5. QED
    BY <2>1, <2>3, <2>4 DEF PL!Known
<1>3. QED
  BY <1>2 DEF AllKnown

(* The batch being collected. *)
LEMMA OutFrom ==
    ASSUME TInv, [Next]_vars
    PROVE  \/ tail'.out \in {<<>>, tail.out}
           \/ /\ tail.at = "read" /\ tail.off < Len(segs[tail.seg].recs)
              /\ tail'.out = Append(tail.out, segs[tail.seg].recs[tail.off + 1])
              /\ UNCHANGED segs
<1>1. tail \in Tailer /\ NoTailer.out = <<>>
  BY DEF TInv, TailOK, NoTailer
<1>2. CASE UNCHANGED tail \/ tail' = NoTailer
  BY <1>1, <1>2
<1>3. CASE LocateSegment \/ SegmentExhausted \/ DamagedSegment \/ Advance \/ Send
  <2>1. CASE LocateSegment
    BY <1>1, <2>1 DEF LocateSegment, Tailer
  <2>2. CASE SegmentExhausted
    BY <1>1, <2>2 DEF SegmentExhausted, Tailer
  <2>3. CASE DamagedSegment
    BY <1>1, <2>3 DEF DamagedSegment
  <2>4. CASE Advance
    BY <1>1, <2>4 DEF Advance, Tailer
  <2>5. CASE Send
    BY <1>1, <2>5 DEF Send, Tailer
  <2>6. QED
    BY <1>3, <2>1, <2>2, <2>3, <2>4, <2>5
<1>4. CASE ReadSegment
  <2>1. PICK rec : rec = segs[tail.seg].recs[tail.off + 1]
    OBVIOUS
  <2>2. PICK out : out = Append(tail.out, rec)
    OBVIOUS
  <2>3. PICK a : a = IF Len(out) = BatchCap THEN "send" ELSE "read"
    OBVIOUS
  <2>4. /\ tail.at = "read" /\ tail.off < Len(segs[tail.seg].recs) /\ UNCHANGED segs
        /\ tail' = IF rec.seq <= tail.after THEN [tail EXCEPT !.off = @ + 1]
                   ELSE [tail EXCEPT !.off = @ + 1, !.after = rec.seq, !.out = out, !.at = a]
    BY <1>4, <2>1, <2>2, <2>3 DEF ReadSegment, TailOnly, primaryVars
  <2>5. tail'.out \in {tail.out, out}
    BY <1>1, <2>4 DEF Tailer
  <2>6. QED
    BY <2>1, <2>2, <2>4, <2>5
<1>5. CASE Connect
  BY <1>5 DEF Connect, NewTailer
<1>6. QED
  BY <1>2, <1>3, <1>4, <1>5
     DEF Next, PrimaryStep, PrimaryHalts, StreamCut, StreamStep, ConnectionBreaks, FollowerStep,
         Discover, OpenSymbol, OpenSymbolFails, Receive, AppendRecord, SyncAndApply, ApplyFails,
         StreamEnds, FollowerCloses, FollowerHalts, ReportProgress, streamVars, vars

(* The batches in flight. *)
LEMMA NetFrom ==
    ASSUME TInv, Flow, [Next]_vars
    PROVE  \A i \in 1 .. Len(net') :
             net'[i] = tail.out \/ \E j \in 1 .. Len(net) : net'[i] = net[j]
<1>1. net \in Seq(Seq(Recs)) /\ Len(net) \in Nat
  BY DEF TInv, NetOK
<1>2. CASE UNCHANGED net
  BY <1>2
<1>3. CASE net' = <<>>
  BY <1>3
<1>4. CASE \E n \in 0 .. Len(net) : net' = SubSeq(net, 1, n)
  <2>1. PICK n \in 0 .. Len(net) : net' = SubSeq(net, 1, n)
    BY <1>4
  <2>2. Len(net') = n /\ \A i \in 1 .. n : net'[i] = net[i] /\ i \in 1 .. Len(net)
    BY <1>1, <2>1
  <2>3. QED
    BY <2>2
<1>5. CASE Send
  <2>1. PICK x \in Seq(Recs) : x = tail.out
    BY TailerFields DEF TInv, TailOK
  <2>2. net' = Append(net, x)
    BY <1>5, <2>1 DEF Send
  <2>3. \A i \in 1 .. Len(net') : (i \in 1 .. Len(net) /\ net'[i] = net[i]) \/ net'[i] = x
    BY <1>1, <2>2
  <2>4. QED
    BY <2>1, <2>3
<1>6. CASE Receive
  <2>1. rep.at = "recv" /\ net # <<>> /\ net' = Tail(net)
    BY <1>6 DEF Receive
  <2>2. Len(net') = Len(net) - 1 /\ \A i \in 1 .. Len(net) - 1 : net'[i] = net[i + 1]
    BY <2>1, WholeBatch
  <2>3. \A i \in 1 .. Len(net) - 1 : i + 1 \in 1 .. Len(net)
    BY <1>1
  <2>4. QED
    BY <2>2, <2>3
<1>7. QED
  BY <1>2, <1>3, <1>4, <1>5, <1>6
     DEF Next, PrimaryStep, PrimaryHalts, StreamCut, StreamStep, LocateSegment, ReadSegment,
         SegmentExhausted, DamagedSegment, Advance, ConnectionBreaks, FollowerStep,
         Discover, OpenSymbol, OpenSymbolFails, Connect, AppendRecord, SyncAndApply, ApplyFails,
         StreamEnds, FollowerCloses, FollowerHalts, ReportProgress, streamVars, vars

(* The book and the batch being applied. *)
LEMMA BookFrom ==
    ASSUME TInv, Flow, [Next]_vars
    PROVE  /\ rep'.fresh \in {<<>>, rep.fresh} \/ (1 \in 1 .. Len(net) /\ rep'.fresh = net[1])
           /\ \/ rep'.book \in {<<>>, rep.book, rep.book \o rep.fresh}
              \/ rep.at = "open" /\ rep'.book = FL!Recover(fsegs)
<1>1. rep \in Replica /\ RepOK(rep)
  BY FollowerState
<1>2. CASE UNCHANGED rep
  BY <1>2
<1>3. CASE rep' = NewReplica
  BY <1>3, NewTyped
<1>4. CASE \E a : rep' = [rep EXCEPT !.at = a]
  BY <1>1, <1>4 DEF Replica
<1>5. CASE OpenSymbol
  <2>1. PICK R : R = FL!Recover(fsegs)
    OBVIOUS
  <2>2. F!Recover(fsegs) = R
    BY <2>1, FollowerReads
  <2>3. \/ UNCHANGED rep
        \/ rep' = [rep EXCEPT !.at = "connect", !.book = R, !.position = F!HighestSeq(R)]
    BY <1>5, <2>2 DEF OpenSymbol
  <2>4. rep'.fresh = rep.fresh /\ rep'.book \in {rep.book, R} /\ rep.at = "open"
    BY <1>1, <1>5, <2>3 DEF Replica, OpenSymbol
  <2>5. QED
    BY <2>1, <2>4
<1>6. CASE Receive
  <2>1. rep.at = "recv" /\ net # <<>>
    BY <1>6 DEF Receive
  <2>2. PICK x : x = Fresh(Head(net))
    OBVIOUS
  <2>3. x = net[1] /\ 1 \in 1 .. Len(net)
    BY <2>1, <2>2, WholeBatch
  <2>4. \E a : rep' = [rep EXCEPT !.fresh = x, !.todo = x, !.at = a]
    BY <1>6, <2>2 DEF Receive
  <2>5. rep'.fresh = x /\ rep'.book = rep.book
    BY <1>1, <2>4 DEF Replica
  <2>6. QED
    BY <2>3, <2>5
<1>7. CASE AppendRecord
  BY <1>7, AppendTyped
<1>8. CASE SyncAndApply
  BY <1>8, ApplyTyped DEF SyncAndApply
<1>9. CASE ApplyFails
  BY <1>9, ApplyFailsTyped
<1>10. QED
  BY <1>2, <1>3, <1>4, <1>5, <1>6, <1>7, <1>8, <1>9
     DEF Next, PrimaryStep, PrimaryHalts, StreamStep, LocateSegment, ReadSegment,
         SegmentExhausted, DamagedSegment, Advance, Send, TailOnly, ConnectionBreaks, FollowerStep,
         Discover, OpenSymbolFails, Connect, StreamEnds, FollowerCloses, FollowerHalts,
         ReportProgress, followerVars, vars
(* Unless the primary loses records, its log only grows. *)
LEMMA PrimaryLonger ==
    ASSUME FsyncNames, TInv, PrimaryExact, [Next]_vars, ~rewound'
    PROVE  /\ PL!Recover(segs) \in Seq(Recs) /\ PL!Recover(segs') \in Seq(Recs)
           /\ PL!IsPrefix(PL!Recover(segs), PL!Recover(segs'))
<1>1. PL!GInv /\ PL!SInv /\ PL!SegsOK(segs, ids) /\ PL!LaidOut(segs)
  BY DEF TInv, PrimaryExact, PL!GInv, PL!SInv
<1>2. PICK R : R = PL!Recover(segs)
  OBVIOUS
<1>3. R \in Seq(PL!Records)
  BY <1>1, <1>2, LogAssumption, PL!RecoverRecords
<1>4. PL!GInv'
  BY <1>1, PrimaryKeeps, PrimaryStays, PrimarySteps, LogAssumption, PL!HaltStep
     DEF Next, PrimaryStep, PrimaryHalts, StreamStep, LocateSegment, ReadSegment,
         SegmentExhausted, DamagedSegment, Advance, Send, TailOnly, ConnectionBreaks, FollowerStep,
         Discover, OpenSymbol, OpenSymbolFails, Connect, Receive, AppendRecord, SyncAndApply,
         ApplyFails, StreamEnds, FollowerCloses, FollowerHalts, FollowerOnly, ReportProgress, vars
<1>5. PL!Recover(segs') \in Seq(PL!Records)
  <2>1. PL!SegsOK(segs', ids')
    BY <1>4 DEF PL!GInv
  <2>2. QED
    BY <2>1, LogAssumption, PL!RecoverRecords
<1>6. CASE PrimaryStep
  <2>1. PL!Next /\ crashes' = crashes
    BY <1>6, PrimarySteps DEF PrimaryStep
  <2>2. PL!IsPrefix(PL!Recover(segs), PL!Recover(segs'))
    BY <1>1, <2>1, LogAssumption, PL!NothingRewound
  <2>3. QED
    BY <1>2, <1>3, <1>5, <2>2, SameRecords
<1>7. CASE PrimaryHalts
  <2>1. PL!Crash /\ ~(Len(PL!Recover(segs')) < Len(PL!Recover(segs)))
    BY <1>7, PrimarySteps, PrimaryReads DEF PrimaryHalts, PL!Halt
  <2>2. PICK k \in Len(PL!Durable(segs)) .. Len(R) : PL!Recover(segs') = SubSeq(R, 1, k)
    BY <1>1, <1>2, <2>1, LogAssumption, PL!CrashView
  <2>3. k \in 0 .. Len(R)
    <3>1. Len(PL!Durable(segs)) \in Nat
      BY <1>1, LogAssumption, PL!OpenLog
    <3>2. Len(R) \in Nat
      BY <1>3
    <3>3. QED
      BY <2>2, <3>1, <3>2
  <2>4. Len(SubSeq(R, 1, k)) = k
    BY <1>3, <2>3, LogAssumption, PL!Cut
  <2>5. k = Len(R)
    <3>1. Len(R) \in Nat /\ ~(k < Len(R))
      BY <1>2, <1>3, <2>1, <2>2, <2>4
    <3>2. QED
      BY <2>3, <3>1
  <2>6. SubSeq(R, 1, Len(R)) = R
    BY <1>3
  <2>7. PL!IsPrefix(R, R)
    BY <1>3, LogAssumption, PL!PrefixSelf
  <2>8. QED
    BY <1>2, <1>3, <1>5, <2>2, <2>5, <2>6, <2>7, SameRecords
<1>8. CASE UNCHANGED segs
  <2>1. PL!IsPrefix(R, R)
    BY <1>3, LogAssumption, PL!PrefixSelf
  <2>2. QED
    BY <1>2, <1>3, <1>5, <1>8, <2>1, SameRecords
<1>9. QED
  BY <1>6, <1>7, <1>8
     DEF Next, StreamStep, LocateSegment, ReadSegment,
         SegmentExhausted, DamagedSegment, Advance, Send, TailOnly, ConnectionBreaks, FollowerStep,
         Discover, OpenSymbol, OpenSymbolFails, Connect, Receive, AppendRecord, SyncAndApply,
         ApplyFails, StreamEnds, FollowerCloses, FollowerHalts, FollowerOnly, ReportProgress,
         primaryVars, vars

(* What the Tailer reads is in the primary's log. *)
LEMMA ReadKnown ==
    ASSUME TInv, PL!SInv, tail.at = "read", tail.off < Len(segs[tail.seg].recs)
    PROVE  LET rec == segs[tail.seg].recs[tail.off + 1]
           IN  rec \in Recs /\ PL!Known(PL!Recover(segs), rec)
<1>1. /\ tail.seg \in DOMAIN segs /\ tail.off + 1 \in 1 .. Len(segs[tail.seg].recs)
      /\ segs[tail.seg].recs[tail.off + 1] \in Recs
  BY RecordRead
<1>2. PL!GInv /\ PL!LaidOut(segs)
  BY DEF TInv, PL!SInv
<1>3. QED
  BY <1>1, <1>2, LogAssumption, PL!KnownRecord

(* Whatever moves on between the two logs is the primary's. *)
LEMMA TracedStream ==
    ASSUME TInv, Flow, PL!SInv, [Next]_vars, NEW R, R = PL!Recover(segs), NEW Q,
           \A s : AllKnown(R, s) => AllKnown(Q, s), Traced(R)
    PROVE  /\ AllKnown(Q, tail'.out) /\ AllKnown(R, rep'.fresh)
           /\ \A i \in 1 .. Len(net') : AllKnown(Q, net'[i])
<1>1. /\ AllKnown(R, rep.book) /\ AllKnown(R, rep.fresh) /\ AllKnown(R, tail.out)
      /\ \A i \in 1 .. Len(net) : AllKnown(R, net[i])
  BY DEF Traced
<1>2. AllKnown(R, <<>>)
  BY NoneKnown
<1>3. tail.out \in Seq(Recs)
  BY TailerFields DEF TInv, TailOK
<1>4. AllKnown(Q, tail'.out)
  <2>1. CASE tail'.out \in {<<>>, tail.out}
    BY <1>1, <1>2, <2>1
  <2>2. CASE /\ tail.at = "read" /\ tail.off < Len(segs[tail.seg].recs)
             /\ tail'.out = Append(tail.out, segs[tail.seg].recs[tail.off + 1])
    <3>1. PICK rec \in Recs : rec = segs[tail.seg].recs[tail.off + 1] /\ PL!Known(R, rec)
      BY <2>2, ReadKnown
    <3>2. AllKnown(R, Append(tail.out, rec))
      BY <1>1, <1>3, <3>1, KnownAppend
    <3>3. QED
      BY <2>2, <3>1, <3>2
  <2>3. QED
    BY <2>1, <2>2, OutFrom
<1>5. \A i \in 1 .. Len(net') : AllKnown(R, net'[i])
  BY <1>1, NetFrom
<1>6. AllKnown(R, rep'.fresh)
  BY <1>1, <1>2, BookFrom
<1>7. QED
  BY <1>4, <1>5, <1>6

LEMMA NextSame ==
    ASSUME Base, Base', FInv, FInv', Same, [Next]_vars PROVE Same'
<1>1. /\ TInv /\ TInv' /\ Flow /\ PrimaryExact
  BY DEF Base, WInv
<1>2. Sound' /\ ~rewound' => Sound /\ ~rewound
  BY RacedStays DEF Sound, Complete
<1>3. SUFFICES ASSUME Sound', ~rewound' PROVE KnownTo(PL!Recover(segs))'
  BY DEF Same
<1>4. FsyncNames /\ StoreOK /\ StoreOK' /\ PL!SInv /\ LogKept
  BY <1>1, <1>2, <1>3, NextFInv DEF FInv, Sound, Complete, PrimaryExact
<1>5. PICK R \in Seq(Recs) : R = PL!Recover(segs)
  BY <1>1, <1>3, <1>4, PrimaryLonger
<1>6. PICK Q \in Seq(Recs) : Q = PL!Recover(segs')
  BY <1>1, <1>3, <1>4, PrimaryLonger
<1>7. \A s : AllKnown(R, s) => AllKnown(Q, s)
  BY <1>1, <1>3, <1>4, <1>5, <1>6, PrimaryLonger, KnownLater
<1>8. /\ AllKnown(R, rep.book) /\ AllKnown(R, rep.fresh) /\ AllKnown(R, tail.out)
      /\ \A i \in 1 .. Len(net) : AllKnown(R, net[i])
      /\ AllKnown(R, FL!Recover(fsegs) \o fw.buf)
  BY <1>2, <1>3, <1>5 DEF Same, KnownTo, Traced
<1>9. AllKnown(R, <<>>)
  BY NoneKnown
<1>10. rep.book \in Seq(Recs) /\ rep.fresh \in Seq(Recs) /\ tail.out \in Seq(Recs)
  BY <1>1, FollowerState, TailerFields DEF TInv, TailOK
<1>11. /\ AllKnown(Q, tail'.out) /\ AllKnown(R, rep'.fresh)
       /\ \A i \in 1 .. Len(net') : AllKnown(Q, net'[i])
  BY <1>1, <1>4, <1>5, <1>6, <1>7, <1>8, TracedStream DEF Traced
<1>12. AllKnown(R, rep'.book)
  <2>1. AllKnown(R, rep.book \o rep.fresh)
    BY <1>8, <1>10, KnownConcat
  <2>2. AllKnown(R, FL!Recover(fsegs))
    <3>1. FL!Recover(fsegs) \in Seq(Recs) /\ fw.buf \in Seq(Recs)
      BY <1>1, StoreTypes
    <3>2. QED
      BY <1>8, <3>1, KnownConcat
  <2>3. QED
    BY <1>1, <1>8, <1>9, <2>1, <2>2, BookFrom
<1>13. PICK L : L = FL!Recover(fsegs') \o fw'.buf
  OBVIOUS
<1>14. /\ FL!Recover(fsegs') \in Seq(Recs) /\ fw'.buf \in Seq(Recs) /\ L \in Seq(Recs)
       /\ rep'.book \in Seq(Recs) /\ rep'.fresh \in Seq(Recs) /\ rep'.todo \in Seq(Recs)
  <2>1. (TInv => FL!Recover(fsegs) \in Seq(Recs) /\ fw.buf \in Seq(Recs))'
    BY StoreTypes, PTL
  <2>2. (TInv => rep.book \in Seq(Recs) /\ rep.fresh \in Seq(Recs) /\ rep.todo \in Seq(Recs))'
    BY FollowerState, PTL
  <2>3. QED
    BY <1>1, <1>13, <2>1, <2>2
<1>15. AllKnown(R, L)
  <2>1. CASE Running'
    <3>1. L \o rep'.todo = rep'.book \o rep'.fresh
      BY <1>4, <1>13, <2>1 DEF StoreOK
    <3>2. AllKnown(R, L \o rep'.todo)
      BY <1>11, <1>12, <1>14, <3>1, KnownConcat
    <3>3. QED
      BY <1>14, <3>2, KnownConcat
  <2>2. CASE ~Running'
    <3>1. PICK K : K = FL!Recover(fsegs) \o fw.buf
      OBVIOUS
    <3>2. K \in Seq(Recs)
      <4>1. FL!Recover(fsegs) \in Seq(Recs) /\ fw.buf \in Seq(Recs)
        BY <1>1, StoreTypes
      <4>2. QED
        BY <3>1, <4>1
    <3>3. FL!IsPrefix(L, K) /\ AllKnown(R, K)
      BY <1>4, <1>8, <1>13, <2>2, <3>1 DEF LogKept
    <3>4. QED
      BY <1>14, <3>2, <3>3, KnownPart
  <2>3. QED
    BY <2>1, <2>2
<1>16. AllKnown(Q, rep'.book) /\ AllKnown(Q, rep'.fresh) /\ AllKnown(Q, L)
  BY <1>7, <1>11, <1>12, <1>15
<1>17. QED
  BY <1>6, <1>11, <1>13, <1>16 DEF KnownTo, Traced

LEMMA NextReported ==
    ASSUME Base, Base', FInv, Reported, [Next]_vars PROVE Reported'
<1>1. TInv /\ Sound' => Sound
  BY RacedStays DEF Sound, Complete
<1>2. SUFFICES ASSUME Sound' PROVE progress' <= Len(FL!Durable(fsegs'))
  BY DEF Reported
<1>3. TInv /\ StoreOK /\ LogKept /\ progress <= Len(FL!Durable(fsegs))
  BY <1>1, <1>2, NextFInv DEF Base, FInv, Reported
<1>4. PICK d \in Nat : d = Len(FL!Durable(fsegs))
  BY <1>3, LogTypes DEF StoreOK
<1>5. PICK e \in Nat : e = Len(FL!Durable(fsegs'))
  <2>1. StoreOK'
    BY <1>2, NextFInv DEF FInv
  <2>2. (FL!GInv /\ FL!SInv => Len(FL!Durable(fsegs)) \in Nat)'
    BY LogTypes, PTL
  <2>3. QED
    BY <2>1, <2>2 DEF StoreOK
<1>6. d <= e /\ progress <= d /\ progress \in Int
  <2>1. progress \in None .. MaxRecords
    BY <1>3 DEF TInv, Counts
  <2>2. QED
    BY <1>3, <1>4, <1>5, <2>1, LogAssumption DEF LogKept, None
<1>7. CASE ReportProgress
  <2>1. PICK n : n = Len(rep.book)
    OBVIOUS
  <2>2. n <= d /\ n \in Nat /\ progress' = n
    BY <1>3, <1>4, <1>7, <2>1, BookElements, FollowerState DEF ReportProgress, StoreOK
  <2>3. n <= e
    BY <1>6, <2>2
  <2>4. QED
    BY <1>5, <2>2, <2>3
<1>8. CASE progress' \in {progress, None}
  <2>1. progress' <= e
    BY <1>6, <1>8 DEF None
  <2>2. QED
    BY <1>5, <2>1
<1>9. QED
  BY <1>7, <1>8
     DEF Next, PrimaryStep, PrimaryHalts, StreamStep, LocateSegment, ReadSegment,
         SegmentExhausted, DamagedSegment, Advance, Send, TailOnly, ConnectionBreaks, FollowerStep,
         Discover, OpenSymbol, OpenSymbolFails, Connect, Receive, AppendRecord, SyncAndApply,
         ApplyFails, StreamEnds, FollowerCloses, FollowerHalts, FollowerOnly, vars

LEMMA InitSame ==
    ASSUME Init PROVE Same /\ Reported
<1>1. /\ fsegs = <<>> /\ fw = FL!NoWriter /\ rep = NewReplica /\ tail = NoTailer
      /\ net = <<>> /\ progress = None
  BY FollowerReads DEF Init
<1>2. rep.book = <<>> /\ rep.fresh = <<>> /\ tail.out = <<>> /\ Len(net) = 0
  BY <1>1, NewTyped DEF NoTailer
<1>3. FL!Recover(fsegs) = <<>> /\ fw.buf = <<>>
  <2>1. DOMAIN fsegs = {}
    BY <1>1
  <2>2. QED
    BY <1>1, <2>1, LogAssumption, ReplicationAssumption, FL!RecoverOfNone, FL!NoWriterType
<1>4. FL!Recover(fsegs) \o fw.buf = <<>>
  BY <1>3
<1>5. Same
  BY <1>2, <1>4, NoneKnown DEF Same, KnownTo, Traced
<1>6. Reported
  <2>1. ASSUME Sound PROVE progress <= Len(FL!Durable(fsegs))
    <3>1. StoreOK
      BY <2>1, InitFInv DEF FInv
    <3>2. PICK d \in Nat : d = Len(FL!Durable(fsegs))
      BY <3>1, LogTypes DEF StoreOK
    <3>3. progress <= d
      BY <1>1 DEF None
    <3>4. QED
      BY <3>2, <3>3
  <2>2. QED
    BY <2>1 DEF Reported
<1>7. QED
  BY <1>5, <1>6

RInv == Base /\ FInv /\ Same /\ Reported

LEMMA AlwaysRInv == Spec => []RInv
<1>1. Init => RInv
  BY InitBase, InitFInv, InitSame DEF RInv
<1>2. RInv /\ [Next]_vars => RInv'
  BY NextBase, NextFInv, NextSame, NextReported DEF RInv
<1>3. QED
  BY <1>1, <1>2, PTL DEF Spec

(* Records that are all in the primary's log, numbered 1, 2, 3, ..., are the
   beginning of it. *)
LEMMA KnownBegin ==
    ASSUME NEW R \in Seq(Recs), NEW s \in Seq(Recs), AllKnown(R, s),
           \A k \in 1 .. Len(s) : s[k].seq = k
    PROVE  Len(s) <= Len(R) /\ \A k \in 1 .. Len(s) : s[k] = R[k]
<1>1. \A k \in 1 .. Len(s) : k \in 1 .. Len(R) /\ R[k] = s[k]
  BY DEF AllKnown, PL!Known
<1>2. PICK n \in Nat : n = Len(s)
  OBVIOUS
<1>3. PICK m \in Nat : m = Len(R)
  OBVIOUS
<1>4. n <= m
  <2>1. n # 0 => n \in 1 .. n
    OBVIOUS
  <2>2. n # 0 => n \in 1 .. m
    BY <1>1, <1>2, <1>3, <2>1
  <2>3. QED
    BY <2>2
<1>5. QED
  BY <1>1, <1>2, <1>3, <1>4

LEMMA BookIsPrefix ==
    ASSUME FsyncNames, RInv PROVE SamePrefix
<1>1. SUFFICES ASSUME ~raced, ~rewound, ~retried PROVE IsPrefix(rep.book, P!Recover(segs))
  BY DEF SamePrefix
<1>2. TInv /\ StoreOK /\ KnownTo(PL!Recover(segs)) /\ PL!SInv
  BY <1>1 DEF RInv, Base, FInv, Same, Sound, Complete, PrimaryExact
<1>3. PICK R : R = PL!Recover(segs)
  OBVIOUS
<1>4. R \in Seq(PL!Records) /\ P!Recover(segs) = R
  BY <1>2, <1>3, PrimaryReads, LogAssumption, PL!OpenLog DEF TInv, PL!SInv
<1>5. PICK b \in Seq(Recs) : b = rep.book
  BY <1>2, FollowerState
<1>6. AllKnown(R, b) /\ \A k \in 1 .. Len(b) : b[k].seq = k
  BY <1>2, <1>3, <1>5, BookElements DEF KnownTo, Traced
<1>7. Len(b) <= Len(R) /\ \A k \in 1 .. Len(b) : b[k] = R[k]
  BY <1>4, <1>6, SameRecords, KnownBegin
<1>8. PL!IsPrefix(b, R)
  BY <1>4, <1>7, SameRecords, LogAssumption, PL!PrefixElements
<1>9. QED
  BY <1>4, <1>5, <1>8 DEF IsPrefix, PL!IsPrefix

(* On a file system that makes a file's name durable with its data, the follower
   holds the beginning of the primary's log, record for record, however often
   either of them or the connection failed, unless the Tailer was overtaken by a
   rotation, the primary lost records it had shipped, or a batch was given up
   halfway. *)
THEOREM FollowsPrimary == FsyncNames => (Spec => []SamePrefix)
<1> SUFFICES ASSUME FsyncNames PROVE Spec => []SamePrefix
  OBVIOUS
<1>1. RInv => SamePrefix
  BY BookIsPrefix
<1>2. QED
  BY <1>1, AlwaysRInv, PTL

LEMMA ReportIsHonest ==
    ASSUME FsyncNames, RInv PROVE LagIsHonest
<1>1. SUFFICES ASSUME progress # None, ~raced, ~rewound, ~retried
               PROVE  /\ RecordsBehind \in 0 .. Len(P!Recover(segs))
                      /\ IsPrefix(SubSeq(P!Recover(segs), 1, Len(P!Recover(segs)) - RecordsBehind),
                                  F!Durable(fsegs))
  BY DEF LagIsHonest
<1>2. TInv /\ StoreOK /\ KnownTo(PL!Recover(segs)) /\ PL!SInv /\ progress <= Len(FL!Durable(fsegs))
  BY <1>1 DEF RInv, Base, FInv, Same, Reported, Sound, Complete, PrimaryExact
<1>3. PICK R : R = PL!Recover(segs)
  OBVIOUS
<1>4. R \in Seq(PL!Records) /\ P!Recover(segs) = R
  BY <1>2, <1>3, PrimaryReads, LogAssumption, PL!OpenLog DEF TInv, PL!SInv
<1>5. P!LastPosition(segs) = Len(R)
  BY <1>2, <1>3, PrimaryReads, LogAssumption, PL!LastIsLength DEF TInv, PL!SInv
<1>6. PICK t \in Seq(Recs) : t = FL!Recover(fsegs)
  BY <1>2, StoreTypes
<1>7. PICK d \in Seq(Recs) : d = FL!Durable(fsegs)
  BY <1>2, BookStored, SameRecords
<1>8. AllKnown(R, t)
  BY <1>2, <1>3, <1>6, StoreTypes, KnownConcat DEF KnownTo, Traced
<1>9. \A k \in 1 .. Len(t) : t[k].seq = k
  BY <1>2, <1>6, BookStored
<1>10. Len(t) <= Len(R) /\ \A k \in 1 .. Len(t) : t[k] = R[k]
  BY <1>4, <1>8, <1>9, SameRecords, KnownBegin
<1>11. Len(d) <= Len(t) /\ \A k \in 1 .. Len(d) : d[k] = t[k]
  <2>1. FL!IsPrefix(d, t)
    BY <1>2, <1>6, <1>7, BookStored
  <2>2. QED
    BY <2>1, SameRecords, LogAssumption, ReplicationAssumption, FL!PrefixElements
<1>12. PICK p \in Nat : p = progress /\ p <= Len(d)
  <2>1. progress \in None .. MaxRecords /\ MaxRecords \in Nat
    BY <1>2, LogAssumption DEF TInv, Counts
  <2>2. progress \in Nat
    BY <1>1, <2>1 DEF None
  <2>3. QED
    BY <1>2, <1>7, <2>2
<1>13. PICK n \in Nat, m \in Nat, l \in Nat : n = Len(R) /\ m = Len(t) /\ l = Len(d)
  BY <1>4
<1>14. p <= l /\ l <= m /\ m <= n
  BY <1>10, <1>11, <1>12, <1>13
<1>15. RecordsBehind = n - p
  BY <1>5, <1>12, <1>13 DEF RecordsBehind
<1>16. RecordsBehind \in 0 .. n /\ n - RecordsBehind = p /\ p \in 0 .. n
  BY <1>14, <1>15
<1>17. PICK s : s = SubSeq(R, 1, p)
  OBVIOUS
<1>18. s \in Seq(Recs) /\ Len(s) = p /\ \A k \in 1 .. p : s[k] = R[k]
  BY <1>4, <1>13, <1>16, <1>17, SameRecords, LogAssumption, PL!Cut
<1>19. \A k \in 1 .. p : k \in 1 .. l /\ k \in 1 .. m
  BY <1>14
<1>20. \A k \in 1 .. p : s[k] = d[k]
  BY <1>10, <1>11, <1>13, <1>18, <1>19
<1>21. FL!IsPrefix(s, d)
  BY <1>12, <1>18, <1>20, SameRecords, LogAssumption, ReplicationAssumption, FL!PrefixElements
<1>22. IsPrefix(s, F!Durable(fsegs))
  BY <1>7, <1>21, FollowerReads DEF IsPrefix, FL!IsPrefix
<1>23. QED
  BY <1>4, <1>13, <1>16, <1>17, <1>22

(* On such a file system, what ReplicationStatus does not count as behind is on
   the follower's disk and is the beginning of the primary's log, however old the
   follower's last report is and whatever either of them has gone through since;
   the count is never negative.  The exceptions are those of FollowsPrimary. *)
THEOREM LagHonest == FsyncNames => (Spec => []LagIsHonest)
<1> SUFFICES ASSUME FsyncNames PROVE Spec => []LagIsHonest
  OBVIOUS
<1>1. RInv => LagIsHonest
  BY ReportIsHonest
<1>2. QED
  BY <1>1, AlwaysRInv, PTL

-----------------------------------------------------------------------------
(* What is applied is stored, also by a follower that has given up a batch *)
(* halfway, as long as it has not restarted.                               *)

(* Record s of the log R is on the disk, in a segment that is named for it or for
   an earlier one: a rotation for a later record does not touch that segment. *)
Home(sg, R, s) ==
    /\ s \in 1 .. Len(R)
    /\ \E n \in DOMAIN sg :
         /\ n <= s /\ sg[n].named
         /\ \E k \in 1 .. sg[n].synced : sg[n].recs[k] = R[s]

AllHome(sg, R, m) == \A s \in 1 .. m : Home(sg, R, s)

(* It is in the segment being written, or held for it. *)
Pending(sg, wr, R, s) ==
    /\ s \in 1 .. Len(R) /\ wr.state = "open" /\ wr.cur <= s
    /\ FL!Among(R[s], sg[wr.cur].recs \o wr.buf)

(* What has been applied is on the disk, and what has been appended of the batch
   is there or in the segment being written.  When the Writer moves to a segment,
   everything below its name is on the disk. *)
Hold(R) ==
    /\ AllHome(fsegs, R, rep.position)
    /\ fw.state = "open" => AllHome(fsegs, R, fw.cur - 1)
    /\ \A s \in 1 .. FPos : Home(fsegs, R, s) \/ Pending(fsegs, fw, R, s)
    /\ fw.state # "none" /\ fw.step # "idle" =>
         /\ fw.state = "closed" /\ rep.at = "append" /\ fw.first = FPos + 1
         /\ AllHome(fsegs, R, FPos)
    /\ fw.state = "none" =>
         /\ DOMAIN fsegs \subseteq {1} /\ (fw.step # "idle" => fw.first = 1)
         /\ rep.position = 0 /\ rep.at \in {"start", "open", "stopped"}
    /\ rep.at \in {"start", "open"} => fw.state = "none"

LEMMA HomeLater ==
    ASSUME NEW R \in Seq(Recs), NEW Q \in Seq(Recs), PL!IsPrefix(R, Q), NEW sg, NEW s, Home(sg, R, s)
    PROVE  Home(sg, Q, s) /\ R[s] = Q[s] /\ s \in 1 .. Len(Q)
<1>1. Len(R) <= Len(Q) /\ (\A k \in 1 .. Len(R) : R[k] = Q[k]) /\ Len(R) \in Nat /\ Len(Q) \in Nat
  BY SameRecords, LogAssumption, PL!PrefixElements
<1>2. s \in 1 .. Len(R)
  BY DEF Home
<1>3. s \in 1 .. Len(Q) /\ R[s] = Q[s]
  BY <1>1, <1>2
<1>4. QED
  BY <1>3 DEF Home

LEMMA HomeExtended ==
    ASSUME NEW R, NEW sg, NEW sh, FL!FilesOf(Recs, MaxRecords, sg), FL!FilesOf(Recs, MaxRecords, sh),
           FL!Extended(Recs, sg, sh), NEW s, Home(sg, R, s)
    PROVE  Home(sh, R, s)
<1>1. PICK n \in DOMAIN sg : n <= s /\ sg[n].named /\ \E k \in 1 .. sg[n].synced : sg[n].recs[k] = R[s]
  BY DEF Home
<1>2. PICK k \in 1 .. sg[n].synced : sg[n].recs[k] = R[s]
  BY <1>1
<1>3. n \in DOMAIN sh /\ FL!Extends(Recs, sg[n], sh[n])
  BY DEF FL!Extended
<1>4. sg[n] \in FL!File(Recs) /\ sg[n].synced <= Len(sg[n].recs) /\ sh[n] \in FL!File(Recs)
  BY <1>3 DEF FL!FilesOf
<1>5. PICK a \in Seq(Recs), x \in Seq(Recs) : a = sg[n].recs /\ sh[n].recs = a \o x
  BY <1>3, <1>4, LogAssumption, ReplicationAssumption, FL!FileTypes DEF FL!Extends
<1>6. PICK b, c : b = sg[n].synced /\ c = sh[n].synced
  OBVIOUS
<1>7. b \in Nat \cup {-1} /\ c \in Nat \cup {-1}
  BY <1>4, <1>6, LogAssumption, ReplicationAssumption, FL!FileTypes
<1>8. b <= c /\ b <= Len(a)
  BY <1>3, <1>4, <1>5, <1>6 DEF FL!Extends
<1>9. k \in 1 .. c /\ k \in 1 .. Len(a)
  <2>1. k \in 1 .. b /\ Len(a) \in Nat
    BY <1>2, <1>6
  <2>2. QED
    BY <1>7, <1>8, <2>1
<1>10. (a \o x)[k] = a[k]
  BY <1>9
<1>11. k \in 1 .. sh[n].synced /\ sh[n].recs[k] = R[s]
  BY <1>2, <1>5, <1>6, <1>9, <1>10
<1>12. sh[n].named
  BY <1>1, <1>3 DEF FL!Extends
<1>13. QED
  BY <1>1, <1>3, <1>11, <1>12 DEF Home

LEMMA HomeElsewhere ==
    ASSUME NEW R, NEW sg, NEW sh, NEW f \in Nat, DOMAIN sg \subseteq DOMAIN sh,
           DOMAIN sg \subseteq Nat, \A m \in DOMAIN sg : m # f => sh[m] = sg[m],
           NEW s \in Nat, s < f, Home(sg, R, s)
    PROVE  Home(sh, R, s)
<1>1. PICK n \in DOMAIN sg : n <= s /\ sg[n].named /\ \E k \in 1 .. sg[n].synced : sg[n].recs[k] = R[s]
  BY DEF Home
<1>2. n # f /\ n \in DOMAIN sh
  BY <1>1
<1>3. QED
  BY <1>1, <1>2 DEF Home

(* The segment being written is synced. *)
LEMMA HomeSynced ==
    ASSUME NEW R, NEW sg, NEW sh, NEW wr, NEW s, Pending(sg, wr, R, s), wr.cur \in DOMAIN sh,
           sh[wr.cur].recs = sg[wr.cur].recs \o wr.buf, sh[wr.cur].synced = Len(sh[wr.cur].recs),
           sh[wr.cur].named
    PROVE  Home(sh, R, s)
BY DEF Home, Pending, FL!Among

LEMMA FollowerCount ==
    ASSUME TInv
    PROVE  /\ FPos \in Nat /\ rep.position \in Nat /\ rep.position <= FPos
           /\ rep.todo = <<>> => FPos = rep.position + Len(rep.fresh)
           /\ rep.fresh = rep.todo => FPos = rep.position
<1>1. PICK a \in Nat, b \in Nat, c \in Nat :
          a = rep.position /\ b = Len(rep.fresh) /\ c = Len(rep.todo) /\ c <= b
  BY FollowerState
<1>2. FPos = a + b - c
  BY <1>1 DEF FPos
<1>3. c <= b
  BY <1>1
<1>4. FPos \in Nat /\ a <= FPos /\ (c = 0 => FPos = a + b) /\ (b = c => FPos = a)
  BY <1>2, <1>3
<1>5. rep.todo = <<>> => c = 0
  BY <1>1
<1>6. QED
  BY <1>1, <1>4, <1>5

LEMMA StoreFiles ==
    ASSUME TInv
    PROVE  /\ FL!FilesOf(Recs, MaxRecords, fsegs) /\ DOMAIN fsegs \subseteq Nat
           /\ fw.cur \in Nat /\ fw.first \in Nat /\ fw.state \in FL!WriterStates
           /\ fw.state \in {"open", "latched"} => fw.cur \in DOMAIN fsegs
BY DEF TInv, FL!WalOK, FL!WalTyped, FL!FilesOf, FL!WriterOf

LEMMA PendingLater ==
    ASSUME NEW R \in Seq(Recs), NEW Q \in Seq(Recs), PL!IsPrefix(R, Q), NEW sg, NEW wr, NEW s,
           Pending(sg, wr, R, s)
    PROVE  Pending(sg, wr, Q, s)
<1>1. Len(R) <= Len(Q) /\ (\A k \in 1 .. Len(R) : R[k] = Q[k]) /\ Len(R) \in Nat /\ Len(Q) \in Nat
  BY SameRecords, LogAssumption, PL!PrefixElements
<1>2. s \in 1 .. Len(R)
  BY DEF Pending
<1>3. s \in 1 .. Len(Q) /\ R[s] = Q[s]
  BY <1>1, <1>2
<1>4. QED
  BY <1>3 DEF Pending

LEMMA HoldLater ==
    ASSUME NEW R \in Seq(Recs), NEW Q \in Seq(Recs), PL!IsPrefix(R, Q), Hold(R)
    PROVE  Hold(Q)
<1>1. \A s : Home(fsegs, R, s) => Home(fsegs, Q, s)
  BY HomeLater
<1>2. \A s : Pending(fsegs, fw, R, s) => Pending(fsegs, fw, Q, s)
  BY PendingLater
<1>3. \A m : AllHome(fsegs, R, m) => AllHome(fsegs, Q, m)
  BY <1>1 DEF AllHome
<1>4. QED
  BY <1>1, <1>2, <1>3 DEF Hold

LEMMA HoldIdle ==
    ASSUME NEW R, Hold(R), UNCHANGED <<fsegs, fw, rep>> PROVE Hold(R)'
<1>1. FPos' = FPos
  BY DEF FPos
<1>2. QED
  BY <1>1 DEF Hold

(* The follower goes from one batch to the next. *)
LEMMA HoldRests ==
    ASSUME TInv, TInv', NEW R, Hold(R), UNCHANGED <<fsegs, fw>>, rep.at # "append",
           rep'.position = rep.position, rep'.fresh = rep'.todo,
           fw.state = "none" => rep'.at \in {"start", "open", "stopped"},
           rep'.at \in {"start", "open"} => rep.at \in {"start", "open"}
    PROVE  Hold(R)'
<1>1. FPos = rep.position /\ FPos' = rep.position
  <2>1. (TInv => (rep.fresh = rep.todo => FPos = rep.position))'
    BY FollowerCount, PTL
  <2>2. QED
    BY <2>1, NoBatch
<1>2. fw.state # "none" => fw.step = "idle"
  BY DEF Hold
<1>3. QED
  BY <1>1, <1>2 DEF Hold

(* The follower's first start. *)
LEMMA HoldOpens ==
    ASSUME TInv, TInv', Ascends, fcrashes = 0, NEW R, Hold(R), OpenSymbol PROVE Hold(R)'
<1>1. rep.at = "open" /\ fw.state = "none" /\ rep.position = 0 /\ DOMAIN fsegs \subseteq {1}
      /\ (fw.step # "idle" => fw.first = 1)
  BY DEF OpenSymbol, Hold
<1>2. FPos = 0
  BY <1>1, NoBatch
<1>3. CASE UNCHANGED rep /\ (FL!OpenWriterOnNothing \/ FL!OpenSegmentStep)
  <2>1. fw'.state = "none" /\ DOMAIN fsegs' \subseteq {1} /\ fw'.first = 1
    <3>1. CASE FL!OpenWriterOnNothing
      BY <1>1, <3>1, FollowerState, LogAssumption, ReplicationAssumption, FL!OnNothingOf
    <3>2. CASE FL!CreateFile
      BY <1>1, <3>2, FollowerState, LogAssumption, ReplicationAssumption, FL!CreateFileOf
    <3>3. CASE FL!WriteHeader
      BY <1>1, <3>3, FollowerState, LogAssumption, ReplicationAssumption, FL!WriteHeaderOf
    <3>4. QED
      BY <1>3, <3>1, <3>2, <3>3 DEF FL!OpenSegmentStep
  <2>2. FPos' = 0 /\ rep'.position = 0 /\ rep'.at = "open"
    BY <1>1, <1>2, <1>3 DEF FPos
  <2>3. QED
    BY <2>1, <2>2 DEF Hold, AllHome
<1>4. CASE /\ FL!OpenWriterOnNewest \/ FL!FirstSegmentOpened
           /\ rep' = [rep EXCEPT !.at = "connect", !.book = F!Recover(fsegs),
                                 !.position = F!HighestSeq(F!Recover(fsegs))]
  <2>1. F!HighestSeq(F!Recover(fsegs)) = 0
    BY <1>1, NothingStored DEF Ascends
  <2>2. PICK b : b = F!Recover(fsegs)
    OBVIOUS
  <2>3. rep' = [rep EXCEPT !.at = "connect", !.book = b, !.position = 0]
    BY <1>4, <2>1, <2>2
  <2>4. rep'.at = "connect" /\ rep'.position = 0
    BY <2>3, FollowerState DEF Replica
  <2>5. FPos' = 0
    <3>1. (TInv /\ rep.at # "append" => FPos = rep.position)'
      BY NoBatch, PTL
    <3>2. QED
      BY <2>4, <3>1
  <2>6. fw'.state = "open" /\ fw'.step = "idle" /\ fw'.cur = 1
    <3>1. CASE FL!FirstSegmentOpened
      BY <1>1, <3>1, FollowerState, LogAssumption, ReplicationAssumption, FL!FirstOpenedOf
    <3>2. CASE FL!OpenWriterOnNewest
      <4>1. fw'.state = "open" /\ fw'.step = "idle" /\ fsegs # <<>> /\ fw = FL!NoWriter
        BY <3>2, FollowerState, Numbered, LogAssumption, ReplicationAssumption, FL!OnNewestOf
      <4>2. PICK n : n = FL!Max(DOMAIN fsegs)
        OBVIOUS
      <4>3. n \in DOMAIN fsegs
        BY <4>1, <4>2, StoreFiles, LogAssumption, ReplicationAssumption, FL!NewestOf
      <4>4. PICK a, c : fw' = [fw EXCEPT !.state = "open", !.cur = n, !.size = a, !.last = c]
        BY <3>2, <4>2 DEF FL!OpenWriterOnNewest
      <4>5. fw'.cur = n
        BY <4>1, <4>4 DEF FL!NoWriter
      <4>6. QED
        BY <1>1, <4>1, <4>3, <4>5
    <3>3. QED
      BY <1>4, <3>1, <3>2
  <2>7. QED
    BY <2>4, <2>5, <2>6 DEF Hold, AllHome
<1>5. QED
  BY <1>3, <1>4, FollowerOpens DEF OpenSymbol

LEMMA HoldOpenFails ==
    ASSUME TInv, TInv', NEW R, Hold(R), OpenSymbolFails PROVE Hold(R)'
<1>1. rep.at = "open" /\ fw.state = "none" /\ rep.position = 0 /\ DOMAIN fsegs \subseteq {1}
      /\ (fw.step # "idle" => fw.first = 1) /\ rep' = [rep EXCEPT !.at = "stopped"] /\ RepOK(rep)
  BY FollowerState DEF OpenSymbolFails, Hold
<1>2. rep'.at = "stopped" /\ rep'.position = 0
  BY <1>1, Moves
<1>3. FPos' = 0
  <2>1. (TInv /\ rep.at # "append" => FPos = rep.position)'
    BY NoBatch, PTL
  <2>2. QED
    BY <1>2, <2>1
<1>4. fw'.state = "none" /\ DOMAIN fsegs' \subseteq {1} /\ (fw'.step # "idle" => fw'.first = 1)
  <2>1. CASE UNCHANGED <<fsegs, fw>>
    BY <1>1, <2>1
  <2>2. CASE FL!OpenWriterFails
    BY <1>1, <2>2 DEF FL!OpenWriterFails
  <2>3. CASE FL!OpenSegmentFails
    BY <1>1, <2>3, FollowerState, LogAssumption, ReplicationAssumption, FL!OpenSegmentFailsOf
  <2>4. QED
    BY <2>1, <2>2, <2>3, FollowerOpens DEF OpenSymbolFails
<1>5. QED
  BY <1>2, <1>3, <1>4 DEF Hold, AllHome

(* The record appended next, of a batch whose records are all in the log R. *)
LEMMA NextKnown ==
    ASSUME TInv, Flow, Complete, NEW R \in Seq(Recs), AllKnown(R, rep.fresh), rep.at = "append",
           rep.todo # <<>>
    PROVE  /\ Head(rep.todo) \in Recs /\ Head(rep.todo).seq = FPos + 1 /\ FPos \in Nat
           /\ FPos + 1 \in 1 .. Len(R) /\ R[FPos + 1] = Head(rep.todo)
           /\ Len(Tail(rep.todo)) = Len(rep.todo) - 1
<1>1. /\ Head(rep.todo) \in Recs /\ Head(rep.todo).seq = FPos + 1 /\ FPos \in Nat
      /\ Len(Tail(rep.todo)) = Len(rep.todo) - 1
  BY NextToStore
<1>2. PICK t \in Seq(Recs) : t = rep.todo
  BY FollowerState
<1>3. PICK s \in Seq(Recs) : s = rep.fresh
  BY FollowerState
<1>4. Remains(t, s)
  BY <1>2, <1>3 DEF TInv, RepOK
<1>5. /\ Len(t) \in Nat \ {0} /\ Len(t) <= Len(s) /\ Len(s) \in Nat
      /\ Head(t) = s[Len(s) - Len(t) + 1]
  BY <1>2, <1>4, RemainsTail
<1>6. PICK k : k = Len(s) - Len(t) + 1
  OBVIOUS
<1>7. k \in 1 .. Len(s)
  <2>1. PICK n \in Nat, m \in Nat : n = Len(s) /\ m = Len(t)
    BY <1>5
  <2>2. k = n - m + 1 /\ 1 <= m /\ m <= n
    BY <1>5, <1>6, <2>1
  <2>3. k \in 1 .. n
    BY <2>2
  <2>4. QED
    BY <2>1, <2>3
<1>8. PL!Known(R, Head(t))
  BY <1>3, <1>5, <1>6, <1>7 DEF AllKnown
<1>9. QED
  BY <1>1, <1>2, <1>8 DEF PL!Known

LEMMA HomesExtended ==
    ASSUME TInv, TInv', NEW R, FL!Extended(Recs, fsegs, fsegs')
    PROVE  /\ \A s : Home(fsegs, R, s) => Home(fsegs', R, s)
           /\ \A m : AllHome(fsegs, R, m) => AllHome(fsegs', R, m)
<1>1. FL!FilesOf(Recs, MaxRecords, fsegs) /\ FL!FilesOf(Recs, MaxRecords, fsegs')
  BY DEF TInv, FL!WalOK, FL!WalTyped
<1>2. \A s : Home(fsegs, R, s) => Home(fsegs', R, s)
  BY <1>1, HomeExtended
<1>3. QED
  BY <1>2 DEF AllHome

(* A rotation begins: all that was appended is on the disk. *)
LEMMA HoldRotates ==
    ASSUME TInv, TInv', FsyncNames, NEW R, Hold(R), rep.at = "append", UNCHANGED rep,
           NEW rec \in Recs, rec.seq = FPos + 1, FL!Rotate(rec)
    PROVE  Hold(R)'
<1>1. FPos' = FPos /\ FPos \in Nat /\ rep.position \in Nat /\ rep.position <= FPos
  BY FollowerCount DEF FPos
<1>2. /\ FL!Extended(Recs, fsegs, fsegs') /\ DOMAIN fsegs' = DOMAIN fsegs
      /\ fw'.state = "closed" /\ fw'.step = "create" /\ fw'.first = FPos + 1
      /\ fw.state = "open" =>
           /\ fw.cur \in DOMAIN fsegs /\ fsegs'[fw.cur].recs = fsegs[fw.cur].recs \o fw.buf
           /\ fsegs'[fw.cur].synced = Len(fsegs'[fw.cur].recs) /\ fsegs'[fw.cur].named
  BY FollowerState, Numbered, LogAssumption, ReplicationAssumption, FL!RotateOf
<1>3. \A s : Home(fsegs, R, s) => Home(fsegs', R, s)
  BY <1>2, HomesExtended
<1>4. ASSUME NEW s \in 1 .. FPos PROVE Home(fsegs', R, s)
  <2>1. CASE Home(fsegs, R, s)
    BY <1>3, <2>1
  <2>2. CASE Pending(fsegs, fw, R, s)
    <3>1. fw.state = "open"
      BY <2>2 DEF Pending
    <3>2. QED
      BY <1>2, <2>2, <3>1, HomeSynced
  <2>3. QED
    BY <2>1, <2>2 DEF Hold
<1>5. AllHome(fsegs', R, FPos) /\ AllHome(fsegs', R, rep.position)
  <2>1. \A s \in 1 .. rep.position : s \in 1 .. FPos
    BY <1>1
  <2>2. QED
    BY <1>4, <2>1 DEF AllHome
<1>6. QED
  BY <1>1, <1>2, <1>4, <1>5 DEF Hold

(* The next segment is created: it is named for a record that is not applied. *)
LEMMA HoldCreates ==
    ASSUME TInv, TInv', NEW R, Hold(R), rep.at = "append", UNCHANGED rep, FL!OpenSegmentStep
    PROVE  Hold(R)'
<1>1. FPos' = FPos /\ FPos \in Nat /\ rep.position \in Nat /\ rep.position <= FPos
  BY FollowerCount DEF FPos
<1>2. fw.step # "idle" /\ fw'.state = fw.state /\ fw'.first = fw.first
  BY FollowerState, LogAssumption, ReplicationAssumption, FL!CreateFileOf, FL!WriteHeaderOf
     DEF FL!OpenSegmentStep
<1>3. fw.state = "closed" /\ fw.first = FPos + 1 /\ AllHome(fsegs, R, FPos)
  BY <1>2 DEF Hold
<1>4. AllHome(fsegs', R, FPos)
  <2>1. CASE FL!WriteHeader
    <3>1. FL!Extended(Recs, fsegs, fsegs')
      BY <2>1, FollowerState, LogAssumption, ReplicationAssumption, FL!WriteHeaderOf
    <3>2. QED
      BY <1>3, <3>1, HomesExtended
  <2>2. CASE FL!CreateFile
    <3>1. /\ DOMAIN fsegs' = DOMAIN fsegs \cup {fw.first}
          /\ \A m \in DOMAIN fsegs : m # fw.first => fsegs'[m] = fsegs[m]
      BY <2>2, FollowerState, LogAssumption, ReplicationAssumption, FL!CreateFileOf
    <3>2. ASSUME NEW s \in 1 .. FPos PROVE Home(fsegs', R, s)
      <4>1. s \in Nat /\ s < fw.first /\ fw.first \in Nat /\ Home(fsegs, R, s)
        BY <1>1, <1>3 DEF AllHome
      <4>2. DOMAIN fsegs \subseteq DOMAIN fsegs' /\ DOMAIN fsegs \subseteq Nat
        BY <3>1, StoreFiles
      <4>3. QED
        BY <3>1, <4>1, <4>2, HomeElsewhere
    <3>3. QED
      BY <3>2 DEF AllHome
  <2>3. QED
    BY <2>1, <2>2 DEF FL!OpenSegmentStep
<1>5. AllHome(fsegs', R, rep.position) /\ \A s \in 1 .. FPos : Home(fsegs', R, s)
  <2>1. \A s \in 1 .. rep.position : s \in 1 .. FPos
    BY <1>1
  <2>2. QED
    BY <1>4, <2>1 DEF AllHome
<1>6. QED
  BY <1>1, <1>2, <1>3, <1>4, <1>5 DEF Hold

(* A record is appended: behind all others, or to a segment named for a later one,
   when it is on the disk from an earlier attempt. *)
LEMMA HoldAdds ==
    ASSUME TInv, TInv', NEW R \in Seq(Recs), Hold(R), rep.at = "append", rep'.at = "append",
           rep'.position = rep.position, FPos' = FPos + 1, NEW rec \in Recs, FPos + 1 \in 1 .. Len(R),
           R[FPos + 1] = rec, FL!AppendFits(rec) \/ FL!AppendRotated(rec)
    PROVE  Hold(R)'
<1>1. FPos \in Nat /\ rep.position \in Nat
  BY FollowerCount
<1>2. PICK y \in Seq(Recs) : fsegs'[fw'.cur].recs \o fw'.buf = Append(y, rec)
  <2>1. CASE FL!AppendFits(rec)
    <3>1. PICK a, b : a = fsegs[fw.cur].recs /\ b = fw.buf
      OBVIOUS
    <3>2. a \in Seq(Recs) /\ b \in Seq(Recs)
      <4>1. fw.cur \in DOMAIN fsegs
        BY <2>1, StoreFiles DEF FL!AppendFits
      <4>2. fsegs[fw.cur] \in FL!File(Recs)
        BY <4>1, StoreFiles DEF FL!FilesOf
      <4>3. QED
        BY <3>1, <4>2, StoreTypes, LogAssumption, ReplicationAssumption, FL!FileTypes
    <3>3. fsegs'[fw'.cur].recs \o fw'.buf = Append(a \o b, rec)
      BY <2>1, <3>1, FollowerState, Numbered, LogAssumption, ReplicationAssumption, FL!AppendFitsOf
    <3>4. a \o b \in Seq(Recs)
      BY <3>2
    <3>5. QED
      BY <3>3, <3>4
  <2>2. CASE FL!AppendRotated(rec)
    <3>1. fsegs'[fw'.cur].recs \o fw'.buf = Append(<<>> \o fw.buf, rec)
      BY <2>2, FollowerState, Numbered, LogAssumption, ReplicationAssumption, FL!AppendRotatedOf
    <3>2. <<>> \o fw.buf \in Seq(Recs)
      BY StoreTypes
    <3>3. QED
      BY <3>1, <3>2
  <2>3. QED
    BY <2>1, <2>2
<1>3. /\ FL!Extended(Recs, fsegs, fsegs') /\ fw'.state = "open" /\ fw'.step = "idle"
  BY FollowerState, Numbered, LogAssumption, ReplicationAssumption, FL!AppendFitsOf,
     FL!AppendRotatedOf
<1>4. /\ \A s : Home(fsegs, R, s) => Home(fsegs', R, s)
      /\ \A m : AllHome(fsegs, R, m) => AllHome(fsegs', R, m)
  BY <1>3, HomesExtended
<1>5. AllHome(fsegs', R, rep.position)
  BY <1>4 DEF Hold
<1>6. AllHome(fsegs', R, fw'.cur - 1)
  <2>1. CASE FL!AppendFits(rec)
    <3>1. fw.state = "open" /\ fw'.cur = fw.cur
      BY <2>1, FollowerState, Numbered, LogAssumption, ReplicationAssumption, FL!AppendFitsOf
    <3>2. QED
      BY <1>4, <3>1 DEF Hold
  <2>2. CASE FL!AppendRotated(rec)
    <3>1. fw.step # "idle" /\ fw.state = "closed" /\ fw'.cur = fw.first
      BY <2>2, FollowerState, Numbered, LogAssumption, ReplicationAssumption, FL!AppendRotatedOf
         DEF FL!AppendRotated
    <3>2. fw.first = FPos + 1 /\ AllHome(fsegs, R, FPos)
      BY <3>1 DEF Hold
    <3>3. fw'.cur - 1 = FPos
      BY <1>1, <3>1, <3>2
    <3>4. QED
      BY <1>4, <3>2, <3>3
  <2>3. QED
    BY <2>1, <2>2
<1>7. ASSUME NEW s \in 1 .. FPos PROVE Home(fsegs', R, s) \/ Pending(fsegs', fw', R, s)
  <2>1. CASE Home(fsegs, R, s)
    BY <1>4, <2>1
  <2>2. CASE Pending(fsegs, fw, R, s)
    <3>1. fw.state = "open" /\ fw.cur <= s /\ s \in 1 .. Len(R)
      BY <2>2 DEF Pending
    <3>2. FL!AppendFits(rec)
      BY <3>1 DEF FL!AppendRotated
    <3>3. /\ fw'.cur = fw.cur
          /\ fsegs'[fw.cur].recs \o fw'.buf = Append(fsegs[fw.cur].recs \o fw.buf, rec)
      BY <3>2, FollowerState, Numbered, LogAssumption, ReplicationAssumption, FL!AppendFitsOf
    <3>4. PICK z : z = fsegs[fw.cur].recs \o fw.buf
      OBVIOUS
    <3>5. z \in Seq(Recs)
      <4>1. fw.cur \in DOMAIN fsegs
        BY <3>1, StoreFiles
      <4>2. fsegs[fw.cur].recs \in Seq(Recs)
        BY <4>1, StoreFiles, LogAssumption, ReplicationAssumption, FL!FileTypes DEF FL!FilesOf
      <4>3. QED
        BY <3>4, <4>2, StoreTypes
    <3>6. PICK j \in 1 .. Len(z) : z[j] = R[s]
      BY <2>2, <3>4 DEF Pending, FL!Among
    <3>7. j \in 1 .. Len(Append(z, rec)) /\ Append(z, rec)[j] = R[s]
      BY <3>5, <3>6
    <3>8. FL!Among(R[s], Append(z, rec))
      BY <3>7 DEF FL!Among
    <3>9. QED
      BY <1>3, <3>1, <3>3, <3>4, <3>8 DEF Pending
  <2>3. QED
    BY <2>1, <2>2 DEF Hold
<1>8. Home(fsegs', R, FPos + 1) \/ Pending(fsegs', fw', R, FPos + 1)
  <2>1. PICK c \in Nat : c = fw'.cur
    <3>1. (TInv => fw.cur \in Nat)'
      BY StoreFiles, PTL
    <3>2. QED
      BY <3>1
  <2>2. CASE c <= FPos + 1
    <3>1. Len(Append(y, rec)) \in 1 .. Len(Append(y, rec)) /\ Append(y, rec)[Len(Append(y, rec))] = rec
      OBVIOUS
    <3>2. FL!Among(rec, Append(y, rec))
      BY <3>1 DEF FL!Among
    <3>3. QED
      BY <1>2, <1>3, <2>1, <2>2, <3>2 DEF Pending
  <2>3. CASE ~(c <= FPos + 1)
    <3>1. FPos + 1 \in 1 .. c - 1
      BY <1>1, <2>1, <2>3
    <3>2. QED
      BY <1>6, <2>1, <3>1 DEF AllHome
  <2>4. QED
    BY <2>2, <2>3
<1>9. \A s \in 1 .. FPos + 1 : s \in 1 .. FPos \/ s = FPos + 1
  BY <1>1
<1>10. \A s \in 1 .. FPos' : Home(fsegs', R, s) \/ Pending(fsegs', fw', R, s)
  BY <1>7, <1>8, <1>9
<1>11. QED
  BY <1>3, <1>5, <1>6, <1>10 DEF Hold

LEMMA HoldAppends ==
    ASSUME TInv, TInv', Flow, Complete, NEW R \in Seq(Recs), AllKnown(R, rep.fresh), Hold(R),
           AppendRecord
    PROVE  Hold(R)'
<1>1. rep.at = "append" /\ rep.todo # <<>> /\ FsyncNames
  BY DEF AppendRecord, Complete
<1>2. PICK rec \in Recs : /\ rec = Head(rep.todo) /\ rec.seq = FPos + 1 /\ FPos + 1 \in 1 .. Len(R)
                          /\ R[FPos + 1] = rec
  BY <1>1, NextKnown
<1>3. CASE UNCHANGED rep /\ FL!Rotate(rec)
  BY <1>1, <1>2, <1>3, HoldRotates
<1>4. CASE UNCHANGED rep /\ FL!OpenSegmentStep
  BY <1>1, <1>4, HoldCreates
<1>5. CASE rep' = [rep EXCEPT !.todo = Tail(@)] /\ (FL!AppendFits(rec) \/ FL!AppendRotated(rec))
  <2>1. rep'.position = rep.position /\ rep'.fresh = rep.fresh /\ rep'.at = "append"
    BY AppendTyped
  <2>2. rep'.todo = Tail(rep.todo)
    BY <1>5, FollowerState DEF Replica
  <2>3. Len(Tail(rep.todo)) = Len(rep.todo) - 1
    BY <1>1, NextKnown
  <2>4. PICK a \in Nat, b \in Nat, c \in Nat :
            a = rep.position /\ b = Len(rep.fresh) /\ c = Len(rep.todo)
    BY FollowerState
  <2>5. FPos' = a + b - (c - 1) /\ FPos = a + b - c
    BY <2>1, <2>2, <2>3, <2>4 DEF FPos
  <2>6. FPos' = FPos + 1
    BY <2>5
  <2>7. QED
    BY <1>1, <1>2, <1>5, <2>1, <2>6, HoldAdds
<1>6. QED
  BY <1>2, <1>3, <1>4, <1>5, FollowerWrites, FollowerOpens DEF AppendRecord

(* The batch is synced and applied. *)
LEMMA HoldApplies ==
    ASSUME TInv, TInv', Flow, Complete, NEW R, Hold(R), SyncAndApply PROVE Hold(R)'
<1>1. rep.at = "append" /\ rep.todo = <<>> /\ FL!Sync /\ rep' = Applied /\ FsyncNames
  BY FollowerWrites DEF SyncAndApply, Complete
<1>2. /\ rep'.at = "recv" /\ rep'.position = rep.fresh[Len(rep.fresh)].seq
      /\ rep'.fresh = <<>> /\ rep'.todo = <<>> /\ Len(rep.fresh) \in 1 .. Len(rep.fresh)
  BY <1>1, ApplyTyped
<1>3. rep'.position = FPos /\ FPos' = FPos
  <2>1. PICK hi : Chunk(rep.fresh, rep.position, hi, Complete)
    BY DEF Flow, FlowOf
  <2>2. rep'.position = rep.position + Len(rep.fresh)
    BY <1>2, <2>1 DEF Chunk
  <2>3. FPos = rep.position + Len(rep.fresh)
    BY <1>1, FollowerCount
  <2>4. (TInv => (rep.fresh = rep.todo => FPos = rep.position))'
    BY FollowerCount, PTL
  <2>5. QED
    BY <1>2, <2>2, <2>3, <2>4
<1>4. /\ FL!Extended(Recs, fsegs, fsegs') /\ DOMAIN fsegs' = DOMAIN fsegs
      /\ fw.state = "open" /\ fw'.state = "open" /\ fw'.step = "idle" /\ fw'.cur = fw.cur
      /\ fw.cur \in DOMAIN fsegs /\ fsegs'[fw.cur].recs = fsegs[fw.cur].recs \o fw.buf
      /\ fsegs'[fw.cur].synced = Len(fsegs'[fw.cur].recs) /\ fsegs'[fw.cur].named
  BY <1>1, FollowerState, LogAssumption, ReplicationAssumption, FL!SyncOf
<1>5. /\ \A s : Home(fsegs, R, s) => Home(fsegs', R, s)
      /\ \A m : AllHome(fsegs, R, m) => AllHome(fsegs', R, m)
  BY <1>4, HomesExtended
<1>6. ASSUME NEW s \in 1 .. FPos PROVE Home(fsegs', R, s)
  <2>1. CASE Home(fsegs, R, s)
    BY <1>5, <2>1
  <2>2. CASE Pending(fsegs, fw, R, s)
    BY <1>4, <2>2, HomeSynced
  <2>3. QED
    BY <2>1, <2>2 DEF Hold
<1>7. AllHome(fsegs', R, FPos) /\ AllHome(fsegs', R, fw'.cur - 1)
  BY <1>4, <1>5, <1>6 DEF AllHome, Hold
<1>8. QED
  BY <1>2, <1>3, <1>4, <1>6, <1>7 DEF Hold

(* A batch is given up, or the log is closed. *)
LEMMA HoldStops ==
    ASSUME TInv, TInv', NEW R, Hold(R), FL!Extended(Recs, fsegs, fsegs'), fw'.step = "idle",
           fw'.state # "none", fw'.state = "open" => fw.state = "open" /\ fw'.cur = fw.cur,
           rep'.position = rep.position, rep'.fresh = <<>>, rep'.todo = <<>>,
           rep'.at \notin {"start", "open"}
    PROVE  Hold(R)'
<1>1. FPos' = rep.position
  <2>1. (TInv => (rep.fresh = rep.todo => FPos = rep.position))'
    BY FollowerCount, PTL
  <2>2. QED
    BY <2>1
<1>2. \A m : AllHome(fsegs, R, m) => AllHome(fsegs', R, m)
  BY HomesExtended
<1>3. AllHome(fsegs', R, rep.position)
  BY <1>2 DEF Hold
<1>4. \A s \in 1 .. FPos' : Home(fsegs', R, s)
  BY <1>1, <1>3 DEF AllHome
<1>5. fw'.state = "open" => AllHome(fsegs', R, fw'.cur - 1)
  BY <1>2 DEF Hold
<1>6. QED
  BY <1>3, <1>4, <1>5 DEF Hold

LEMMA HoldFails ==
    ASSUME TInv, TInv', Flow, Complete, NEW R \in Seq(Recs), AllKnown(R, rep.fresh), Hold(R),
           ApplyFails
    PROVE  Hold(R)'
<1>1. /\ rep'.at = "connect" /\ rep'.fresh = <<>> /\ rep'.todo = <<>>
      /\ rep'.position = rep.position /\ rep.at = "append" /\ fw.state # "none"
  BY ApplyFailsTyped DEF ApplyFails, Hold
<1>2. ASSUME FL!Extended(Recs, fsegs, fsegs'), fw'.step = "idle",
             fw'.state # "none", fw'.state = "open" => fw.state = "open" /\ fw'.cur = fw.cur
      PROVE  Hold(R)'
  BY <1>1, <1>2, HoldStops
<1>3. CASE FL!SyncFails
  BY <1>2, <1>3, FollowerState, LogAssumption, ReplicationAssumption, FL!SyncFailsOf
<1>4. CASE FL!OpenSegmentFails
  <2>1. /\ FL!Extended(Recs, fsegs, fsegs') /\ fw'.state = fw.state /\ fw'.step = "idle"
        /\ fw'.cur = fw.cur
    BY <1>4, FollowerState, LogAssumption, ReplicationAssumption, FL!OpenSegmentFailsOf
  <2>2. QED
    BY <1>1, <1>2, <2>1
<1>5. CASE FL!RotateFails
  <2>1. /\ FL!Extended(Recs, fsegs, fsegs') /\ fw'.state = "closed" /\ fw'.step = "idle"
    BY <1>5, FollowerState, LogAssumption, ReplicationAssumption, FL!CloseOf DEF FL!RotateFails
  <2>2. QED
    BY <1>2, <2>1
<1>6. CASE rep.todo # <<>> /\ FL!AppendFails(Head(rep.todo))
  <2>1. PICK rec \in Recs : rec = Head(rep.todo)
    BY <1>1, <1>6, NextKnown
  <2>2. FL!AppendFails(rec)
    BY <1>6, <2>1
  <2>3. QED
    BY <1>2, <2>2, FollowerState, LogAssumption, ReplicationAssumption, FL!AppendFailsOf
<1>7. QED
  BY <1>3, <1>4, <1>5, <1>6, FollowerFails, FollowerOpens DEF ApplyFails

LEMMA HoldCloses ==
    ASSUME TInv, TInv', NEW R, Hold(R), FollowerCloses PROVE Hold(R)'
<1>1. /\ rep.at \in {"connect", "recv", "stopped"} /\ FL!Close
      /\ rep' = [rep EXCEPT !.at = "closed"] /\ RepOK(rep)
  BY FollowerEnds, FollowerState DEF FollowerCloses
<1>2. /\ rep'.at = "closed" /\ rep'.position = rep.position
      /\ rep'.fresh = <<>> /\ rep'.todo = <<>>
  BY <1>1, Moves
<1>3. FL!Extended(Recs, fsegs, fsegs') /\ fw'.state = "closed" /\ fw'.step = "idle"
  BY <1>1, FollowerState, LogAssumption, ReplicationAssumption, FL!CloseOf DEF FL!Close
<1>4. QED
  BY <1>2, <1>3, HoldStops

LEMMA HoldReceives ==
    ASSUME TInv, TInv', Flow, NEW R, Hold(R), Discover \/ Connect \/ Receive \/ StreamEnds
    PROVE  Hold(R)'
<1>1. UNCHANGED <<fsegs, fw>> /\ RepOK(rep) /\ rep \in Replica
  BY FollowerState DEF Discover, Connect, Receive, StreamEnds
<1>2. CASE Discover
  <2>1. rep.at = "start" /\ rep' = [rep EXCEPT !.at = "open"]
    BY <1>2 DEF Discover
  <2>2. /\ rep'.at = "open" /\ rep'.position = rep.position
        /\ rep'.fresh = <<>> /\ rep'.todo = <<>>
    BY <1>1, <2>1, Moves
  <2>3. QED
    BY <1>1, <2>1, <2>2, HoldRests
<1>3. CASE Connect
  <2>1. rep.at = "connect" /\ rep' = [rep EXCEPT !.at = "recv"]
    BY <1>3 DEF Connect
  <2>2. /\ rep'.at = "recv" /\ rep'.position = rep.position
        /\ rep'.fresh = <<>> /\ rep'.todo = <<>>
    BY <1>1, <2>1, Moves
  <2>3. fw.state # "none"
    BY <2>1 DEF Hold
  <2>4. QED
    BY <1>1, <2>1, <2>2, <2>3, HoldRests
<1>4. CASE Receive
  <2>1. rep.at = "recv"
    BY <1>4 DEF Receive
  <2>2. fw.state # "none"
    BY <2>1 DEF Hold
  <2>3. PICK x : x = Fresh(Head(net))
    OBVIOUS
  <2>4. PICK a \in {"recv", "append"} : a = IF x = <<>> THEN "recv" ELSE "append"
    OBVIOUS
  <2>5. rep' = [rep EXCEPT !.fresh = x, !.todo = x, !.at = a]
    BY <1>4, <2>3, <2>4 DEF Receive
  <2>6. rep'.at = a /\ rep'.position = rep.position /\ rep'.fresh = rep'.todo
    BY <1>1, <2>5 DEF Replica
  <2>7. QED
    BY <1>1, <2>1, <2>2, <2>4, <2>6, HoldRests
<1>5. CASE StreamEnds
  <2>1. PICK a \in {"stopped", "connect"} : rep.at = "recv" /\ rep' = [rep EXCEPT !.at = a]
    BY <1>5 DEF StreamEnds
  <2>2. /\ rep'.at = a /\ rep'.position = rep.position
        /\ rep'.fresh = <<>> /\ rep'.todo = <<>>
    BY <1>1, <2>1, Moves
  <2>3. fw.state # "none"
    BY <2>1 DEF Hold
  <2>4. QED
    BY <1>1, <2>1, <2>2, <2>3, HoldRests
<1>6. QED
  BY <1>2, <1>3, <1>4, <1>5

-----------------------------------------------------------------------------
(* The follower has not restarted, and what it was sent is still in the    *)
(* primary's log.                                                          *)

Unrestarted == Complete /\ ~rewound /\ fcrashes = 0

HInv == Unrestarted => Traced(PL!Recover(segs)) /\ Hold(PL!Recover(segs))

LEMMA StillUnrestarted ==
    ASSUME TInv, [Next]_vars, Unrestarted'
    PROVE  Unrestarted /\ ~FollowerHalts
<1>1. fcrashes \in Nat
  <2>1. fcrashes \in 0 .. MaxFollowerCrashes
    BY FollowerState
  <2>2. QED
    BY <2>1, ReplicationAssumption
<1>2. fcrashes' = fcrashes \/ fcrashes' = fcrashes + 1
  BY DEF Next, PrimaryStep, PrimaryHalts, StreamStep, LocateSegment, ReadSegment,
         SegmentExhausted, DamagedSegment, Advance, Send, TailOnly, ConnectionBreaks, FollowerStep,
         Discover, OpenSymbol, OpenSymbolFails, Connect, Receive, AppendRecord, SyncAndApply,
         ApplyFails, StreamEnds, FollowerCloses, FollowerHalts, ReportProgress, vars,
         followerVars
<1>3. fcrashes' = 0 /\ fcrashes = 0
  BY <1>2, <1>1 DEF Unrestarted
<1>4. ~FollowerHalts
  BY <1>3 DEF FollowerHalts
<1>5. QED
  BY <1>3, <1>4, RacedStays DEF Unrestarted, Complete

LEMMA NextHold ==
    ASSUME TInv, TInv', Flow, Ascends, Complete, fcrashes = 0, [Next]_vars, ~FollowerHalts,
           NEW R \in Seq(Recs), AllKnown(R, rep.fresh), Hold(R)
    PROVE  Hold(R)'
<1>1. CASE OpenSymbol
  BY <1>1, HoldOpens
<1>2. CASE OpenSymbolFails
  BY <1>2, HoldOpenFails
<1>3. CASE Discover \/ Connect \/ Receive \/ StreamEnds
  BY <1>3, HoldReceives
<1>4. CASE AppendRecord
  BY <1>4, HoldAppends
<1>5. CASE SyncAndApply
  BY <1>5, HoldApplies
<1>6. CASE ApplyFails
  BY <1>6, HoldFails
<1>7. CASE FollowerCloses
  BY <1>7, HoldCloses
<1>8. CASE PrimaryStep \/ PrimaryHalts \/ StreamStep \/ ConnectionBreaks \/ ReportProgress
           \/ UNCHANGED vars
  <2>1. UNCHANGED <<fsegs, fw, rep>>
    BY <1>8
       DEF PrimaryStep, PrimaryHalts, StreamStep, LocateSegment, ReadSegment,
           SegmentExhausted, DamagedSegment, Advance, Send, TailOnly, ConnectionBreaks,
           ReportProgress, vars, followerVars
  <2>2. QED
    BY <2>1, HoldIdle
<1>9. QED
  BY <1>1, <1>2, <1>3, <1>4, <1>5, <1>6, <1>7, <1>8 DEF Next, FollowerStep

LEMMA NextHInv ==
    ASSUME Base, Base', HInv, [Next]_vars PROVE HInv'
<1>1. TInv /\ TInv' /\ Flow /\ PrimaryExact /\ Ascends
  BY DEF Base, WInv
<1>2. SUFFICES ASSUME Unrestarted'
               PROVE  Traced(PL!Recover(segs))' /\ Hold(PL!Recover(segs))'
  BY DEF HInv
<1>3. Unrestarted /\ ~FollowerHalts
  BY <1>1, <1>2, StillUnrestarted
<1>4. FsyncNames /\ PL!SInv /\ ~rewound' /\ Complete /\ fcrashes = 0
  BY <1>1, <1>2, <1>3 DEF Unrestarted, Complete, PrimaryExact
<1>5. PICK R \in Seq(Recs) : R = PL!Recover(segs)
  BY <1>1, <1>4, PrimaryLonger
<1>6. PICK Q \in Seq(Recs) : Q = PL!Recover(segs')
  BY <1>1, <1>4, PrimaryLonger
<1>7. PL!IsPrefix(R, Q)
  BY <1>1, <1>4, <1>5, <1>6, PrimaryLonger
<1>8. \A s : AllKnown(R, s) => AllKnown(Q, s)
  BY <1>7, KnownLater
<1>9. Traced(R) /\ Hold(R)
  BY <1>3, <1>5 DEF HInv
<1>10. AllKnown(R, rep.book) /\ AllKnown(R, rep.fresh)
  BY <1>9 DEF Traced
<1>11. /\ AllKnown(Q, tail'.out) /\ AllKnown(R, rep'.fresh)
       /\ \A i \in 1 .. Len(net') : AllKnown(Q, net'[i])
  BY <1>1, <1>4, <1>5, <1>8, <1>9, TracedStream
<1>12. AllKnown(R, rep'.book)
  <2>1. AllKnown(R, <<>>)
    BY NoneKnown
  <2>2. AllKnown(R, rep.book \o rep.fresh)
    BY <1>1, <1>10, FollowerState, KnownConcat
  <2>3. rep.at = "open" => FL!Recover(fsegs) = <<>>
    BY <1>1, <1>4, NothingStored, FollowerReads DEF Ascends
  <2>4. QED
    BY <1>1, <1>10, <2>1, <2>2, <2>3, BookFrom
<1>13. Traced(PL!Recover(segs))'
  BY <1>6, <1>8, <1>11, <1>12 DEF Traced
<1>14. Hold(R)'
  BY <1>1, <1>3, <1>4, <1>9, <1>10, NextHold
<1>15. Hold(Q)'
  <2>1. \A s : Home(fsegs', R, s) => Home(fsegs', Q, s)
    BY <1>7, HomeLater
  <2>2. \A s : Pending(fsegs', fw', R, s) => Pending(fsegs', fw', Q, s)
    BY <1>7, PendingLater
  <2>3. \A m : AllHome(fsegs', R, m) => AllHome(fsegs', Q, m)
    BY <2>1 DEF AllHome
  <2>4. QED
    BY <1>14, <2>1, <2>2, <2>3 DEF Hold
<1>16. QED
  BY <1>6, <1>13, <1>15 DEF Hold

LEMMA InitHInv ==
    ASSUME Init PROVE HInv
<1>1. /\ fsegs = <<>> /\ fw = FL!NoWriter /\ rep = NewReplica /\ tail = NoTailer /\ net = <<>>
  BY FollowerReads DEF Init
<1>2. rep.book = <<>> /\ rep.fresh = <<>> /\ tail.out = <<>> /\ Len(net) = 0
      /\ rep.at = "start" /\ rep.position = 0 /\ rep.todo = <<>>
  BY <1>1, NewTyped DEF NoTailer, NewReplica
<1>3. fw.state = "none" /\ fw.step = "idle" /\ DOMAIN fsegs = {}
  BY <1>1 DEF FL!NoWriter
<1>4. FPos = 0
  BY <1>2 DEF FPos
<1>5. ASSUME NEW R PROVE Traced(R) /\ Hold(R)
  <2>1. Traced(R)
    BY <1>2, NoneKnown DEF Traced
  <2>2. Hold(R)
    BY <1>2, <1>3, <1>4 DEF Hold, AllHome
  <2>3. QED
    BY <2>1, <2>2
<1>6. QED
  BY <1>5 DEF HInv

LEMMA AlwaysHInv == Spec => [](Base /\ FInv /\ HInv)
<1>1. Init => Base /\ FInv /\ HInv
  BY InitBase, InitFInv, InitHInv
<1>2. Base /\ FInv /\ HInv /\ [Next]_vars => (Base /\ FInv /\ HInv)'
  BY NextBase, NextFInv, NextHInv
<1>3. QED
  BY <1>1, <1>2, PTL DEF Spec

LEMMA BookIsStored ==
    ASSUME FsyncNames, Base, FInv, HInv PROVE AppliedIsStored
<1>1. TInv /\ Ascends /\ rep.book \in Seq(Recs) /\ rep.position \in Nat
  BY FollowerState DEF Base, WInv
<1>2. PICK stored : stored = FL!Durable(fsegs)
  OBVIOUS
<1>3. F!Durable(fsegs) = stored
  BY <1>2, FollowerReads
<1>4. ASSUME ~raced, ~retried PROVE IsPrefix(rep.book, stored)
  <2>1. StoreOK
    BY <1>4 DEF FInv, Sound, Complete
  <2>2. FL!IsPrefix(rep.book, stored)
    BY <1>1, <1>2, <2>1, BookStored
  <2>3. QED
    BY <2>2 DEF IsPrefix, FL!IsPrefix
<1>5. ASSUME ~raced, ~rewound, fcrashes = 0, NEW k \in 1 .. Len(rep.book)
      PROVE  rep.book[k] \in ToSet(stored)
  <2>1. PICK R : R = PL!Recover(segs)
    OBVIOUS
  <2>2. AllKnown(R, rep.book) /\ AllHome(fsegs, R, rep.position)
    BY <1>5, <2>1 DEF HInv, Unrestarted, Complete, Traced, Hold
  <2>3. PICK x : x = rep.book[k]
    OBVIOUS
  <2>4. PICK s : s = x.seq
    OBVIOUS
  <2>5. s \in 1 .. Len(R) /\ R[s] = x
    BY <1>5, <2>2, <2>3, <2>4 DEF AllKnown, PL!Known
  <2>6. s \in 1 .. rep.position
    <3>1. Chunk(rep.book, 0, rep.position, FALSE)
      BY <1>1, <1>5 DEF Ascends
    <3>2. 0 < s /\ s <= rep.position
      BY <1>5, <2>3, <2>4, <3>1 DEF Chunk
    <3>3. x \in Recs
      BY <1>1, <1>5, <2>3
    <3>4. s \in Nat
      BY <2>4, <3>3, RecordFields
    <3>5. QED
      BY <1>1, <3>2, <3>4
  <2>7. PICK n \in DOMAIN fsegs : fsegs[n].named /\ \E j \in 1 .. fsegs[n].synced : fsegs[n].recs[j] = R[s]
    BY <2>2, <2>6 DEF AllHome, Home
  <2>8. PICK j \in 1 .. fsegs[n].synced : fsegs[n].recs[j] = x
    BY <2>5, <2>7
  <2>9. /\ DOMAIN fsegs \subseteq 1 .. MaxRecords /\ MaxRecords \in Nat
        /\ \A m \in DOMAIN fsegs : fsegs[m] \in FL!File(Recs) /\ fsegs[m].synced <= Len(fsegs[m].recs)
    BY <1>1, StoreFiles, LogAssumption DEF FL!FilesOf
  <2>10. FL!Among(x, stored) /\ stored \in Seq(Recs)
    BY <1>2, <2>7, <2>8, <2>9, LogAssumption, ReplicationAssumption, FL!DurableHas
  <2>11. QED
    BY <2>3, <2>10 DEF FL!Among, ToSet
<1>6. ASSUME ~raced, ~rewound, fcrashes = 0 PROVE ToSet(rep.book) \subseteq ToSet(stored)
  BY <1>1, <1>5, <1>6 DEF ToSet
<1>7. QED
  BY <1>3, <1>4, <1>6 DEF AppliedIsStored

(* On a file system that makes a file's name durable with its data, no crash of the
   follower loses a record that it has applied, wherever in a rotation it strikes:
   what is left of its log begins with what it had applied, in that order.  A
   follower that has given up a batch halfway and takes it again may write records
   to a segment that is named for a later one and is truncated next; yet, until it
   restarts, all it has applied is on its disk, as long as no record was passed
   over and the primary kept those it had shipped. *)
THEOREM AppliedStored == FsyncNames => (Spec => []AppliedIsStored)
<1> SUFFICES ASSUME FsyncNames PROVE Spec => []AppliedIsStored
  OBVIOUS
<1>1. Base /\ FInv /\ HInv => AppliedIsStored
  BY BookIsStored
<1>2. QED
  BY <1>1, AlwaysHInv, PTL

=============================================================================
