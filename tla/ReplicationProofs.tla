------------------------ MODULE ReplicationProofs ---------------------------
(***************************************************************************)
(* What each step of module Replication does to the types of its parts and *)
(* to the order of the batches under way, for every size of the logs,      *)
(* batches and network, and any number of faults and crashes.              *)
(***************************************************************************)
EXTENDS Replication, SequenceTheorems, TLAPS

-----------------------------------------------------------------------------
(* Types, whatever has happened.                                           *)

Recs == [seq : 1 .. MaxRecords, id : 1 .. MaxRecords]

Tailer ==
    [at : {"none", "locate", "read", "advance", "send"}, after : 0 .. MaxRecords,
     seg : 0 .. MaxRecords, off : 0 .. MaxRecords, out : Seq(Recs)]

(* The Tailer reads a file that is there, up to some record of it. *)
TailOK(sg, x) ==
    /\ x \in Tailer
    /\ Len(x.out) <= BatchCap /\ (x.at # "send" => Len(x.out) < BatchCap)
    /\ x.at \in {"read", "advance", "send"} =>
         x.seg \in DOMAIN sg /\ x.off <= Len(sg[x.seg].recs)

NetOK(x) == x \in Seq(Seq(Recs)) /\ Len(x) <= NetCap

Replica ==
    [at : {"start", "open", "connect", "recv", "append", "stopped", "closed"},
     position : 0 .. MaxRecords, book : Seq(Recs), fresh : Seq(Recs), todo : Seq(Recs)]

(* What is left to append is the end of the batch being applied. *)
Remains(todo, fresh) ==
    /\ Len(todo) <= Len(fresh)
    /\ \A k \in 1 .. Len(todo) : todo[k] = fresh[Len(fresh) - Len(todo) + k]

RepOK(x) ==
    /\ x \in Replica
    /\ Remains(x.todo, x.fresh)
    /\ (x.at = "append") <=> (x.fresh # <<>>)

Counts ==
    /\ ending \in {"", "broken", "dataloss"} /\ progress \in None .. MaxRecords
    /\ ffaults \in 0 .. MaxFollowerFaults /\ fcrashes \in 0 .. MaxFollowerCrashes
    /\ raced \in BOOLEAN /\ rewound \in BOOLEAN /\ retried \in BOOLEAN

-----------------------------------------------------------------------------
(* What is under way between the logs.                                     *)

(* Records above lo and up to hi, in ascending order; all of them if exact. *)
Chunk(s, lo, hi, exact) ==
    /\ lo <= hi
    /\ \A k \in 1 .. Len(s) : lo < s[k].seq /\ s[k].seq <= hi
    /\ \A j \in 1 .. Len(s) : \A k \in 1 .. Len(s) : j < k => s[j].seq < s[k].seq
    /\ exact => hi = lo + Len(s) /\ \A k \in 1 .. Len(s) : s[k].seq = lo + k

(* The batch being applied, those in flight and the one being collected follow
   one another, from the follower's position to the Tailer's. *)
FlowOf(rp, nt, tl, exact) ==
    \E b \in [1 .. Len(nt) + 1 -> 0 .. MaxRecords] :
        /\ Chunk(rp.fresh, rp.position, b[1], exact)
        /\ \A i \in 1 .. Len(nt) : Chunk(nt[i], b[i], b[i + 1], exact)
        /\ tl.at # "none" => Chunk(tl.out, b[Len(nt) + 1], tl.after, exact)

Complete == FsyncNames /\ ~raced

Flow == FlowOf(rep, net, tail, Complete)

(* The Tailer is not beyond the record it wants next. *)
Reach ==
    Complete /\ tail.at \in {"read", "advance", "send"} => tail.seg + tail.off <= tail.after + 1

Quiet == rep.at \in {"start", "open"} => tail = NoTailer /\ net = <<>>

(* The follower's book, before its first restart. *)
Ascends ==
    fcrashes = 0 =>
        /\ Chunk(rep.book, 0, rep.position, FALSE)
        /\ rep.at \in {"start", "open"} => \A n \in DOMAIN fsegs : fsegs[n].recs = <<>>

WInv == Flow /\ Reach /\ Quiet /\ Ascends

-----------------------------------------------------------------------------
(* The Tailer and the follower.                                            *)

LEMMA TailerFields ==
    ASSUME NEW x \in Tailer
    PROVE  /\ x.at \in {"none", "locate", "read", "advance", "send"}
           /\ x.after \in 0 .. MaxRecords /\ x.seg \in 0 .. MaxRecords /\ x.off \in 0 .. MaxRecords
           /\ x.after \in Nat /\ x.seg \in Nat /\ x.off \in Nat
           /\ x.out \in Seq(Recs) /\ Len(x.out) \in Nat
BY LogAssumption DEF Tailer

LEMMA ReplicaFields ==
    ASSUME NEW x \in Replica
    PROVE  /\ x.at \in {"start", "open", "connect", "recv", "append", "stopped", "closed"}
           /\ x.position \in 0 .. MaxRecords /\ x.position \in Nat
           /\ x.book \in Seq(Recs) /\ x.fresh \in Seq(Recs) /\ x.todo \in Seq(Recs)
           /\ Len(x.book) \in Nat /\ Len(x.fresh) \in Nat /\ Len(x.todo) \in Nat
BY LogAssumption DEF Replica

LEMMA RecordFields ==
    ASSUME NEW r \in Recs PROVE r.seq \in 1 .. MaxRecords /\ r.seq \in Nat
BY LogAssumption DEF Recs

(* The follower goes on without a batch. *)
LEMMA Moves ==
    ASSUME NEW x, RepOK(x), x.at # "append", NEW y,
           NEW a \in {"start", "open", "connect", "recv", "stopped", "closed"},
           y = [x EXCEPT !.at = a]
    PROVE  /\ RepOK(y) /\ y.at = a /\ y.position = x.position /\ y.book = x.book
           /\ y.fresh = x.fresh /\ y.todo = x.todo /\ x.fresh = <<>> /\ x.todo = <<>>
<1>1. x \in Replica /\ x.fresh = <<>>
  BY DEF RepOK
<1>2. /\ y \in Replica /\ y.at = a /\ y.position = x.position /\ y.book = x.book
      /\ y.fresh = x.fresh /\ y.todo = x.todo
  BY <1>1 DEF Replica
<1>3. x.todo = <<>>
  <2>1. x.todo \in Seq(Recs) /\ Len(x.todo) <= Len(x.fresh) /\ Len(<<>>) = 0
    BY <1>1, ReplicaFields DEF RepOK, Remains
  <2>2. Len(x.todo) \in Nat /\ Len(x.todo) <= 0
    BY <1>1, <2>1
  <2>3. QED
    BY <2>1, <2>2, EmptySeq
<1>4. QED
  BY <1>1, <1>2, <1>3 DEF RepOK

LEMMA NothingRemains == Remains(<<>>, <<>>)
<1>1. Len(<<>>) = 0
  OBVIOUS
<1>2. QED
  BY <1>1 DEF Remains

LEMMA RemainsAll ==
    ASSUME NEW s \in Seq(Recs) PROVE Remains(s, s)
<1>1. Len(s) \in Nat
  OBVIOUS
<1>2. \A k \in 1 .. Len(s) : Len(s) - Len(s) + k = k
  BY <1>1
<1>3. QED
  BY <1>1, <1>2 DEF Remains

(* One record less remains. *)
LEMMA RemainsTail ==
    ASSUME NEW t \in Seq(Recs), NEW s \in Seq(Recs), Remains(t, s), t # <<>>
    PROVE  /\ Head(t) \in Recs /\ Tail(t) \in Seq(Recs) /\ Len(Tail(t)) = Len(t) - 1
           /\ Remains(Tail(t), s) /\ Len(t) \in Nat \ {0} /\ Len(t) <= Len(s) /\ Len(s) \in Nat
           /\ Head(t) = s[Len(s) - Len(t) + 1]
<1>1. Len(t) \in Nat \ {0} /\ Len(t) <= Len(s) /\ Len(s) \in Nat
  BY EmptySeq DEF Remains
<1>2. /\ Head(t) = t[1] /\ Head(t) \in Recs /\ Tail(t) \in Seq(Recs) /\ Len(Tail(t)) = Len(t) - 1
      /\ \A i \in 1 .. Len(t) - 1 : Tail(t)[i] = t[i + 1]
  BY <1>1
<1>3. Head(t) = s[Len(s) - Len(t) + 1]
  BY <1>1, <1>2 DEF Remains
<1>4. \A i \in 1 .. Len(t) - 1 : i + 1 \in 1 .. Len(t)
        /\ Len(s) - Len(t) + (i + 1) = Len(s) - (Len(t) - 1) + i
  BY <1>1
<1>5. \A i \in 1 .. Len(t) - 1 : t[i + 1] = s[Len(s) - Len(t) + (i + 1)]
  BY <1>4 DEF Remains
<1>6. Len(t) - 1 <= Len(s)
  BY <1>1
<1>7. Remains(Tail(t), s)
  BY <1>2, <1>4, <1>5, <1>6 DEF Remains
<1>8. QED
  BY <1>1, <1>2, <1>3, <1>7

LEMMA NewTyped == RepOK(NewReplica) /\ NewReplica.at = "start" /\ NewReplica.book = <<>>
                  /\ NewReplica.position = 0 /\ NewReplica.fresh = <<>> /\ NewReplica.todo = <<>>
<1>1. <<>> \in Seq(Recs) /\ 0 \in 0 .. MaxRecords
  BY LogAssumption
<1>2. /\ NewReplica \in Replica /\ NewReplica.at = "start" /\ NewReplica.book = <<>>
      /\ NewReplica.position = 0 /\ NewReplica.fresh = <<>> /\ NewReplica.todo = <<>>
  BY <1>1 DEF NewReplica, Replica
<1>3. QED
  BY <1>2, NothingRemains DEF RepOK

LEMMA NoNet == NetOK(<<>>)
BY ReplicationAssumption DEF NetOK

-----------------------------------------------------------------------------
(* Batches.                                                                *)

LEMMA ChunkWeaker ==
    ASSUME NEW s, NEW lo, NEW hi, NEW e, NEW d, d => e, Chunk(s, lo, hi, e)
    PROVE  Chunk(s, lo, hi, d)
BY DEF Chunk

LEMMA ChunkNone ==
    ASSUME NEW n \in Nat, NEW e PROVE Chunk(<<>>, n, n, e)
<1>1. Len(<<>>) = 0 /\ n <= n /\ n = n + 0
  OBVIOUS
<1>2. QED
  BY <1>1 DEF Chunk

LEMMA ChunkAppend ==
    ASSUME NEW s \in Seq(Recs), NEW lo \in Nat, NEW hi \in Nat, NEW e, Chunk(s, lo, hi, e),
           NEW r \in Recs, hi < r.seq, e => r.seq = hi + 1
    PROVE  Chunk(Append(s, r), lo, r.seq, e)
<1>1. PICK t : t = Append(s, r)
  OBVIOUS
<1>2. /\ t \in Seq(Recs) /\ Len(t) = Len(s) + 1 /\ t[Len(s) + 1] = r /\ Len(s) \in Nat
      /\ \A k \in 1 .. Len(s) : t[k] = s[k]
  BY <1>1
<1>3. r.seq \in Nat /\ \A k \in 1 .. Len(s) : s[k].seq \in Nat
  <2>1. \A k \in 1 .. Len(s) : s[k] \in Recs
    OBVIOUS
  <2>2. QED
    BY <2>1, RecordFields
<1>4. /\ lo <= hi
      /\ \A k \in 1 .. Len(s) : lo < s[k].seq /\ s[k].seq <= hi
      /\ \A j \in 1 .. Len(s) : \A k \in 1 .. Len(s) : j < k => s[j].seq < s[k].seq
      /\ e => hi = lo + Len(s) /\ \A k \in 1 .. Len(s) : s[k].seq = lo + k
  BY DEF Chunk
<1>5. \A k \in 1 .. Len(t) : k \in 1 .. Len(s) \/ k = Len(s) + 1
  BY <1>2
<1>6. lo <= r.seq /\ \A k \in 1 .. Len(t) : lo < t[k].seq /\ t[k].seq <= r.seq
  <2>1. ASSUME NEW k \in 1 .. Len(t) PROVE lo < t[k].seq /\ t[k].seq <= r.seq
    <3>1. CASE k \in 1 .. Len(s)
      BY <1>2, <1>3, <1>4, <3>1
    <3>2. CASE k = Len(s) + 1
      BY <1>2, <1>3, <1>4, <3>2
    <3>3. QED
      BY <1>5, <3>1, <3>2
  <2>2. QED
    BY <1>3, <1>4, <2>1
<1>7. ASSUME NEW j \in 1 .. Len(t), NEW k \in 1 .. Len(t), j < k PROVE t[j].seq < t[k].seq
  <2>1. j \in 1 .. Len(s)
    BY <1>2, <1>7
  <2>2. CASE k \in 1 .. Len(s)
    BY <1>2, <1>4, <1>7, <2>1, <2>2
  <2>3. CASE k = Len(s) + 1
    BY <1>2, <1>3, <1>4, <2>1, <2>3
  <2>4. QED
    BY <1>5, <2>2, <2>3
<1>8. ASSUME e PROVE r.seq = lo + Len(t) /\ \A k \in 1 .. Len(t) : t[k].seq = lo + k
  <2>1. r.seq = lo + (Len(s) + 1)
    BY <1>2, <1>4, <1>8
  <2>2. ASSUME NEW k \in 1 .. Len(t) PROVE t[k].seq = lo + k
    <3>1. CASE k \in 1 .. Len(s)
      BY <1>2, <1>4, <1>8, <3>1
    <3>2. CASE k = Len(s) + 1
      BY <1>2, <2>1, <3>2
    <3>3. QED
      BY <1>5, <3>1, <3>2
  <2>3. QED
    BY <1>2, <2>1, <2>2
<1>9. Chunk(t, lo, r.seq, e)
  BY <1>6, <1>7, <1>8 DEF Chunk
<1>10. QED
  BY <1>1, <1>9

LEMMA ChunkLast ==
    ASSUME NEW s \in Seq(Recs), NEW lo \in Nat, NEW hi \in Nat, NEW e, Chunk(s, lo, hi, e),
           Len(s) \in 1 .. Len(s)
    PROVE  /\ s[Len(s)].seq \in Nat /\ s[Len(s)].seq <= hi /\ Chunk(s, lo, s[Len(s)].seq, e)
           /\ e => s[Len(s)].seq = hi
<1>1. PICK m : m = s[Len(s)].seq
  OBVIOUS
<1>2. \A k \in 1 .. Len(s) : s[k].seq \in Nat
  <2>1. \A k \in 1 .. Len(s) : s[k] \in Recs
    OBVIOUS
  <2>2. QED
    BY <2>1, RecordFields
<1>3. m \in Nat /\ lo < m /\ m <= hi
  BY <1>1, <1>2 DEF Chunk
<1>4. ASSUME NEW k \in 1 .. Len(s) PROVE lo < s[k].seq /\ s[k].seq <= m
  <2>1. Len(s) \in Nat /\ (k = Len(s) \/ k < Len(s))
    OBVIOUS
  <2>2. lo < s[k].seq
    BY DEF Chunk
  <2>3. CASE k = Len(s)
    BY <1>1, <1>3, <2>2, <2>3
  <2>4. CASE k < Len(s)
    <3>1. s[k].seq < m
      BY <1>1, <2>4 DEF Chunk
    <3>2. QED
      BY <1>2, <1>3, <2>2, <3>1
  <2>5. QED
    BY <2>1, <2>3, <2>4
<1>5. e => m = hi
  BY <1>1 DEF Chunk
<1>6. Chunk(s, lo, m, e)
  <2>1. lo <= m
    BY <1>3
  <2>2. QED
    BY <1>4, <1>5, <2>1 DEF Chunk
<1>7. QED
  BY <1>1, <1>3, <1>5, <1>6

LEMMA ChunkJoin ==
    ASSUME NEW s \in Seq(Recs), NEW t \in Seq(Recs), NEW lo \in Nat, NEW m \in Nat, NEW hi \in Nat,
           Chunk(s, lo, m, FALSE), Chunk(t, m, hi, FALSE)
    PROVE  Chunk(s \o t, lo, hi, FALSE)
<1>1. PICK u : u = s \o t
  OBVIOUS
<1>2. /\ u \in Seq(Recs) /\ Len(u) = Len(s) + Len(t) /\ Len(s) \in Nat /\ Len(t) \in Nat
      /\ \A k \in 1 .. Len(s) : u[k] = s[k]
      /\ \A k \in 1 .. Len(t) : u[Len(s) + k] = t[k]
  BY <1>1
<1>3. /\ \A k \in 1 .. Len(s) : s[k].seq \in Nat
      /\ \A k \in 1 .. Len(t) : t[k].seq \in Nat
  <2>1. (\A k \in 1 .. Len(s) : s[k] \in Recs) /\ \A k \in 1 .. Len(t) : t[k] \in Recs
    OBVIOUS
  <2>2. QED
    BY <2>1, RecordFields
<1>4. /\ lo <= m /\ m <= hi
      /\ \A k \in 1 .. Len(s) : lo < s[k].seq /\ s[k].seq <= m
      /\ \A k \in 1 .. Len(t) : m < t[k].seq /\ t[k].seq <= hi
      /\ \A j \in 1 .. Len(s) : \A k \in 1 .. Len(s) : j < k => s[j].seq < s[k].seq
      /\ \A j \in 1 .. Len(t) : \A k \in 1 .. Len(t) : j < k => t[j].seq < t[k].seq
  BY DEF Chunk
<1>5. ASSUME NEW k \in 1 .. Len(u)
      PROVE  \/ k \in 1 .. Len(s) /\ u[k] = s[k]
             \/ \E i \in 1 .. Len(t) : k = Len(s) + i /\ u[k] = t[i]
  <2>1. CASE k <= Len(s)
    BY <1>2, <2>1
  <2>2. CASE ~(k <= Len(s))
    <3>1. k - Len(s) \in 1 .. Len(t) /\ k = Len(s) + (k - Len(s))
      BY <1>2, <2>2
    <3>2. u[Len(s) + (k - Len(s))] = t[k - Len(s)]
      BY <1>2, <3>1
    <3>3. QED
      BY <3>1, <3>2
  <2>3. QED
    BY <2>1, <2>2
<1>6. ASSUME NEW k \in 1 .. Len(u) PROVE lo < u[k].seq /\ u[k].seq <= hi
  <2>1. CASE k \in 1 .. Len(s) /\ u[k] = s[k]
    BY <1>3, <1>4, <2>1
  <2>2. CASE \E i \in 1 .. Len(t) : k = Len(s) + i /\ u[k] = t[i]
    BY <1>3, <1>4, <2>2
  <2>3. QED
    BY <1>5, <2>1, <2>2
<1>7. ASSUME NEW j \in 1 .. Len(u), NEW k \in 1 .. Len(u), j < k PROVE u[j].seq < u[k].seq
  <2>1. CASE j \in 1 .. Len(s) /\ u[j] = s[j]
    <3>1. CASE k \in 1 .. Len(s) /\ u[k] = s[k]
      BY <1>4, <1>7, <2>1, <3>1
    <3>2. CASE \E i \in 1 .. Len(t) : k = Len(s) + i /\ u[k] = t[i]
      BY <1>3, <1>4, <2>1, <3>2
    <3>3. QED
      BY <1>5, <3>1, <3>2
  <2>2. CASE \E i \in 1 .. Len(t) : j = Len(s) + i /\ u[j] = t[i]
    <3>1. PICK i \in 1 .. Len(t) : j = Len(s) + i /\ u[j] = t[i]
      BY <2>2
    <3>2. ~(k \in 1 .. Len(s))
      BY <1>2, <1>7, <3>1
    <3>3. PICK l \in 1 .. Len(t) : k = Len(s) + l /\ u[k] = t[l]
      BY <1>5, <3>2
    <3>4. i < l
      BY <1>2, <1>7, <3>1, <3>3
    <3>5. QED
      BY <1>4, <3>1, <3>3, <3>4
  <2>3. QED
    BY <1>5, <2>1, <2>2
<1>8. lo <= hi
  BY <1>4
<1>9. Chunk(u, lo, hi, FALSE)
  BY <1>6, <1>7, <1>8 DEF Chunk
<1>10. QED
  BY <1>1, <1>9

LEMMA ChunkLower ==
    ASSUME NEW s \in Seq(Recs), NEW lo \in Nat, NEW m \in Nat, NEW hi \in Nat, NEW e,
           Chunk(<<>>, lo, m, e), Chunk(s, m, hi, e)
    PROVE  Chunk(s, lo, hi, e)
<1>1. lo <= m /\ (e => m = lo)
  <2>1. Len(<<>>) = 0
    OBVIOUS
  <2>2. lo <= m /\ (e => m = lo + Len(<<>>))
    BY DEF Chunk
  <2>3. QED
    BY <2>1, <2>2
<1>2. CASE m = lo
  BY <1>2
<1>3. CASE m # lo
  <2>1. ~e
    BY <1>1, <1>3
  <2>2. \A k \in 1 .. Len(s) : s[k].seq \in Nat
    <3>1. \A k \in 1 .. Len(s) : s[k] \in Recs
      OBVIOUS
    <3>2. QED
      BY <3>1, RecordFields
  <2>3. lo <= hi
    BY <1>1 DEF Chunk
  <2>4. \A k \in 1 .. Len(s) : lo < s[k].seq /\ s[k].seq <= hi
    BY <1>1, <2>2 DEF Chunk
  <2>5. QED
    BY <2>1, <2>3, <2>4 DEF Chunk
<1>4. QED
  BY <1>2, <1>3

(* Nothing is left of a batch once it is applied. *)
LEMMA ChunkDone ==
    ASSUME NEW m \in Nat, NEW hi \in Nat, NEW e, m <= hi, e => m = hi
    PROVE  Chunk(<<>>, m, hi, e)
<1>1. Len(<<>>) = 0 /\ (e => hi = m + 0)
  OBVIOUS
<1>2. QED
  BY <1>1 DEF Chunk

-----------------------------------------------------------------------------
(* What each step makes of the batches under way.                          *)

LEMMA FlowWeaker ==
    ASSUME NEW rp, NEW nt, NEW tl, NEW e, NEW d, d => e, FlowOf(rp, nt, tl, e)
    PROVE  FlowOf(rp, nt, tl, d)
<1>1. PICK b \in [1 .. Len(nt) + 1 -> 0 .. MaxRecords] :
        /\ Chunk(rp.fresh, rp.position, b[1], e)
        /\ \A i \in 1 .. Len(nt) : Chunk(nt[i], b[i], b[i + 1], e)
        /\ tl.at # "none" => Chunk(tl.out, b[Len(nt) + 1], tl.after, e)
  BY DEF FlowOf
<1>2. /\ Chunk(rp.fresh, rp.position, b[1], d)
      /\ \A i \in 1 .. Len(nt) : Chunk(nt[i], b[i], b[i + 1], d)
      /\ tl.at # "none" => Chunk(tl.out, b[Len(nt) + 1], tl.after, d)
  BY <1>1, ChunkWeaker
<1>3. QED
  BY <1>2 DEF FlowOf

(* The batches do not depend on anything else. *)
LEMMA FlowSame ==
    ASSUME NEW rp, NEW nt, NEW tl, NEW e, FlowOf(rp, nt, tl, e),
           NEW rq, rq.fresh = rp.fresh, rq.position = rp.position, NEW tm,
           tm.at # "none" => tl.at # "none" /\ tm.out = tl.out /\ tm.after = tl.after
    PROVE  FlowOf(rq, nt, tm, e)
<1>1. PICK b \in [1 .. Len(nt) + 1 -> 0 .. MaxRecords] :
        /\ Chunk(rp.fresh, rp.position, b[1], e)
        /\ \A i \in 1 .. Len(nt) : Chunk(nt[i], b[i], b[i + 1], e)
        /\ tl.at # "none" => Chunk(tl.out, b[Len(nt) + 1], tl.after, e)
  BY DEF FlowOf
<1>2. /\ Chunk(rq.fresh, rq.position, b[1], e)
      /\ \A i \in 1 .. Len(nt) : Chunk(nt[i], b[i], b[i + 1], e)
      /\ tm.at # "none" => Chunk(tm.out, b[Len(nt) + 1], tm.after, e)
  BY <1>1
<1>3. QED
  BY <1>2 DEF FlowOf

LEMMA FlowStart ==
    ASSUME NEW rp, rp.fresh = <<>>, rp.position \in 0 .. MaxRecords, NEW tl,
           tl.at # "none" => tl.out = <<>> /\ tl.after = rp.position, NEW e
    PROVE  FlowOf(rp, <<>>, tl, e)
<1>1. PICK p \in 0 .. MaxRecords : p = rp.position
  OBVIOUS
<1>2. PICK b : b = [i \in 1 .. Len(<<>>) + 1 |-> p]
  OBVIOUS
<1>3. Len(<<>>) = 0 /\ p \in Nat /\ 1 \in 1 .. 1
  BY LogAssumption
<1>4. b \in [1 .. Len(<<>>) + 1 -> 0 .. MaxRecords] /\ b[1] = p /\ b[Len(<<>>) + 1] = p
  BY <1>2, <1>3
<1>5. Chunk(<<>>, p, p, e)
  BY <1>3, ChunkNone
<1>6. \A i \in 1 .. Len(<<>>) : Chunk(<<>>[i], b[i], b[i + 1], e)
  BY <1>3
<1>7. QED
  BY <1>1, <1>4, <1>5, <1>6 DEF FlowOf

LEMMA FlowCut ==
    ASSUME NEW rp, NEW nt \in Seq(Seq(Recs)), NEW tl, NEW e, FlowOf(rp, nt, tl, e),
           NEW n \in 0 .. Len(nt), NEW tm, tm.at = "none"
    PROVE  FlowOf(rp, SubSeq(nt, 1, n), tm, e)
<1>1. PICK b \in [1 .. Len(nt) + 1 -> 0 .. MaxRecords] :
        /\ Chunk(rp.fresh, rp.position, b[1], e)
        /\ \A i \in 1 .. Len(nt) : Chunk(nt[i], b[i], b[i + 1], e)
  BY DEF FlowOf
<1>2. Len(nt) \in Nat /\ n \in Nat /\ \A i \in 1 .. n : nt[i] \in Seq(Recs) /\ i \in 1 .. Len(nt)
  OBVIOUS
<1>3. PICK s : s = SubSeq(nt, 1, n)
  OBVIOUS
<1>4. s \in Seq(Seq(Recs)) /\ Len(s) = n /\ \A i \in 1 .. n : s[i] = nt[i]
  BY <1>2, <1>3, SubSeqProperties
<1>5. PICK c : c = [i \in 1 .. n + 1 |-> b[i]]
  OBVIOUS
<1>6. \A i \in 1 .. n + 1 : i \in 1 .. Len(nt) + 1
  BY <1>2
<1>7. c \in [1 .. n + 1 -> 0 .. MaxRecords] /\ \A i \in 1 .. n + 1 : c[i] = b[i]
  BY <1>1, <1>5, <1>6
<1>8. 1 \in 1 .. n + 1 /\ \A i \in 1 .. n : i \in 1 .. n + 1 /\ i + 1 \in 1 .. n + 1
  BY <1>2
<1>9. /\ Chunk(rp.fresh, rp.position, c[1], e)
      /\ \A i \in 1 .. Len(s) : Chunk(s[i], c[i], c[i + 1], e)
  BY <1>1, <1>2, <1>4, <1>7, <1>8
<1>10. FlowOf(rp, s, tm, e)
  BY <1>4, <1>7, <1>9 DEF FlowOf
<1>11. QED
  BY <1>3, <1>10

LEMMA FlowRead ==
    ASSUME NEW rp, NEW nt \in Seq(Seq(Recs)), NEW tl, NEW e, FlowOf(rp, nt, tl, e), tl.at # "none",
           tl.out \in Seq(Recs), tl.after \in Nat, NEW r \in Recs, tl.after < r.seq,
           e => r.seq = tl.after + 1, NEW tm, tm.out = Append(tl.out, r), tm.after = r.seq
    PROVE  FlowOf(rp, nt, tm, e)
<1>1. PICK b \in [1 .. Len(nt) + 1 -> 0 .. MaxRecords] :
        /\ Chunk(rp.fresh, rp.position, b[1], e)
        /\ \A i \in 1 .. Len(nt) : Chunk(nt[i], b[i], b[i + 1], e)
        /\ Chunk(tl.out, b[Len(nt) + 1], tl.after, e)
  BY DEF FlowOf
<1>2. PICK lo : lo = b[Len(nt) + 1]
  OBVIOUS
<1>3. lo \in Nat
  <2>1. Len(nt) + 1 \in 1 .. Len(nt) + 1
    OBVIOUS
  <2>2. lo \in 0 .. MaxRecords
    BY <1>2, <2>1
  <2>3. QED
    BY <2>2, LogAssumption
<1>4. PICK out \in Seq(Recs) : out = tl.out
  OBVIOUS
<1>5. PICK hi \in Nat : hi = tl.after
  OBVIOUS
<1>6. Chunk(out, lo, hi, e) /\ hi < r.seq /\ (e => r.seq = hi + 1)
  BY <1>1, <1>2, <1>4, <1>5
<1>7. Chunk(Append(out, r), lo, r.seq, e)
  BY <1>3, <1>6, ChunkAppend
<1>8. Chunk(tm.out, b[Len(nt) + 1], tm.after, e)
  BY <1>2, <1>4, <1>7
<1>9. QED
  BY <1>1, <1>8 DEF FlowOf

LEMMA FlowSend ==
    ASSUME NEW rp, NEW nt \in Seq(Seq(Recs)), NEW tl, NEW e, FlowOf(rp, nt, tl, e), tl.at # "none",
           tl.out \in Seq(Recs), tl.after \in 0 .. MaxRecords,
           NEW tm, tm.out = <<>>, tm.after = tl.after
    PROVE  FlowOf(rp, Append(nt, tl.out), tm, e)
<1>1. PICK b \in [1 .. Len(nt) + 1 -> 0 .. MaxRecords] :
        /\ Chunk(rp.fresh, rp.position, b[1], e)
        /\ \A i \in 1 .. Len(nt) : Chunk(nt[i], b[i], b[i + 1], e)
        /\ Chunk(tl.out, b[Len(nt) + 1], tl.after, e)
  BY DEF FlowOf
<1>2. PICK N \in Nat : N = Len(nt)
  OBVIOUS
<1>3. PICK s : s = Append(nt, tl.out)
  OBVIOUS
<1>4. Len(s) = N + 1 /\ s[N + 1] = tl.out /\ \A i \in 1 .. N : s[i] = nt[i]
  BY <1>2, <1>3
<1>5. PICK a \in 0 .. MaxRecords : a = tl.after
  OBVIOUS
<1>6. PICK c : c = [i \in 1 .. (N + 1) + 1 |-> IF i = (N + 1) + 1 THEN a ELSE b[i]]
  OBVIOUS
<1>7. \A i \in 1 .. (N + 1) + 1 : i # (N + 1) + 1 => i \in 1 .. N + 1
  OBVIOUS
<1>8. c \in [1 .. (N + 1) + 1 -> 0 .. MaxRecords] /\ c[(N + 1) + 1] = a
  BY <1>1, <1>2, <1>6, <1>7
<1>9. \A i \in 1 .. N + 1 : c[i] = b[i]
  BY <1>6
<1>10. /\ 1 \in 1 .. N + 1 /\ N + 1 \in 1 .. N + 1
       /\ \A i \in 1 .. N : i \in 1 .. N + 1 /\ i + 1 \in 1 .. N + 1
  OBVIOUS
<1>11. Chunk(rp.fresh, rp.position, c[1], e)
  BY <1>1, <1>9, <1>10
<1>12. ASSUME NEW i \in 1 .. N + 1 PROVE Chunk(s[i], c[i], c[i + 1], e)
  <2>1. CASE i = N + 1
    BY <1>1, <1>2, <1>4, <1>5, <1>8, <1>9, <1>10, <2>1
  <2>2. CASE i # N + 1
    <3>1. i \in 1 .. N
      BY <2>2
    <3>2. QED
      BY <1>1, <1>2, <1>4, <1>9, <1>10, <3>1
  <2>3. QED
    BY <2>1, <2>2
<1>13. a \in Nat
  BY LogAssumption
<1>14. Chunk(tm.out, c[(N + 1) + 1], tm.after, e)
  BY <1>5, <1>8, <1>13, ChunkNone
<1>15. FlowOf(rp, s, tm, e)
  BY <1>4, <1>8, <1>11, <1>12, <1>14 DEF FlowOf
<1>16. QED
  BY <1>3, <1>15

LEMMA FlowReceive ==
    ASSUME NEW rp, NEW nt \in Seq(Seq(Recs)), NEW tl, NEW e, FlowOf(rp, nt, tl, e), nt # <<>>,
           rp.fresh = <<>>, rp.position \in Nat,
           NEW rq, rq.fresh = nt[1], rq.position = rp.position
    PROVE  FlowOf(rq, Tail(nt), tl, e)
<1>1. PICK b \in [1 .. Len(nt) + 1 -> 0 .. MaxRecords] :
        /\ Chunk(rp.fresh, rp.position, b[1], e)
        /\ \A i \in 1 .. Len(nt) : Chunk(nt[i], b[i], b[i + 1], e)
        /\ tl.at # "none" => Chunk(tl.out, b[Len(nt) + 1], tl.after, e)
  BY DEF FlowOf
<1>2. Len(nt) \in Nat \ {0}
  BY EmptySeq
<1>3. PICK N \in Nat : N = Len(nt) - 1
  <2>1. Len(nt) - 1 \in Nat
    BY <1>2
  <2>2. QED
    BY <2>1
<1>4. PICK s : s = Tail(nt)
  OBVIOUS
<1>5. Len(nt) = N + 1 /\ Len(s) = N /\ \A i \in 1 .. N : s[i] = nt[i + 1]
  BY <1>2, <1>3, <1>4
<1>6. PICK c : c = [i \in 1 .. N + 1 |-> b[i + 1]]
  OBVIOUS
<1>7. \A i \in 1 .. N + 1 : i + 1 \in 1 .. Len(nt) + 1
  BY <1>5
<1>8. c \in [1 .. N + 1 -> 0 .. MaxRecords] /\ \A i \in 1 .. N + 1 : c[i] = b[i + 1]
  BY <1>1, <1>6, <1>7
<1>9. /\ 1 \in 1 .. N + 1 /\ N + 1 \in 1 .. N + 1 /\ 1 \in 1 .. Len(nt)
      /\ \A i \in 1 .. N : i \in 1 .. N + 1 /\ i + 1 \in 1 .. N + 1 /\ i + 1 \in 1 .. Len(nt)
  BY <1>5
<1>10. \A i \in 1 .. N : Chunk(s[i], c[i], c[i + 1], e)
  BY <1>1, <1>5, <1>8, <1>9
<1>11. tl.at # "none" => Chunk(tl.out, c[N + 1], tl.after, e)
  BY <1>1, <1>5, <1>8, <1>9
<1>12. Chunk(rq.fresh, rq.position, c[1], e)
  <2>1. PICK t \in Seq(Recs) : t = nt[1]
    BY <1>9
  <2>2. 1 \in 1 .. Len(nt) + 1 /\ 1 + 1 \in 1 .. Len(nt) + 1
    BY <1>5
  <2>3. b[1] \in 0 .. MaxRecords /\ b[1 + 1] \in 0 .. MaxRecords
    BY <1>1, <2>2
  <2>4. PICK m \in Nat : m = b[1]
    BY <2>3, LogAssumption
  <2>5. PICK hi \in Nat : hi = b[1 + 1]
    BY <2>3, LogAssumption
  <2>6. Chunk(<<>>, rp.position, m, e) /\ Chunk(t, m, hi, e)
    BY <1>1, <1>9, <2>1, <2>4, <2>5
  <2>7. Chunk(t, rp.position, hi, e)
    BY <2>6, ChunkLower
  <2>8. QED
    BY <1>8, <1>9, <2>1, <2>5, <2>7
<1>13. FlowOf(rq, s, tl, e)
  BY <1>5, <1>8, <1>10, <1>11, <1>12 DEF FlowOf
<1>14. QED
  BY <1>4, <1>13

LEMMA FlowApply ==
    ASSUME NEW rp, NEW nt \in Seq(Seq(Recs)), NEW tl, NEW e, FlowOf(rp, nt, tl, e),
           rp.fresh \in Seq(Recs), Len(rp.fresh) \in 1 .. Len(rp.fresh), rp.position \in Nat,
           NEW rq, rq.fresh = <<>>, rq.position = rp.fresh[Len(rp.fresh)].seq
    PROVE  FlowOf(rq, nt, tl, e) /\ Chunk(rp.fresh, rp.position, rq.position, e)
<1>1. PICK b \in [1 .. Len(nt) + 1 -> 0 .. MaxRecords] :
        /\ Chunk(rp.fresh, rp.position, b[1], e)
        /\ \A i \in 1 .. Len(nt) : Chunk(nt[i], b[i], b[i + 1], e)
        /\ tl.at # "none" => Chunk(tl.out, b[Len(nt) + 1], tl.after, e)
  BY DEF FlowOf
<1>2. 1 \in 1 .. Len(nt) + 1
  OBVIOUS
<1>3. PICK hi \in Nat : hi = b[1]
  BY <1>1, <1>2, LogAssumption
<1>4. PICK s \in Seq(Recs) : s = rp.fresh
  OBVIOUS
<1>5. PICK lo \in Nat : lo = rp.position
  OBVIOUS
<1>6. Chunk(s, lo, hi, e) /\ Len(s) \in 1 .. Len(s)
  BY <1>1, <1>3, <1>4, <1>5
<1>7. PICK m : m = s[Len(s)].seq
  OBVIOUS
<1>8. m \in Nat /\ m <= hi /\ Chunk(s, lo, m, e) /\ (e => m = hi)
  BY <1>6, <1>7, ChunkLast
<1>9. Chunk(<<>>, m, hi, e)
  BY <1>8, ChunkDone
<1>10. Chunk(rq.fresh, rq.position, b[1], e)
  BY <1>3, <1>4, <1>7, <1>9
<1>11. FlowOf(rq, nt, tl, e)
  BY <1>1, <1>10 DEF FlowOf
<1>12. QED
  BY <1>4, <1>5, <1>7, <1>8, <1>11

(* A follower without a stream. *)
LEMMA FlowQuiet ==
    ASSUME RepOK(rep'), rep'.fresh = <<>>, tail' = NoTailer, net' = <<>>, NEW e
    PROVE  FlowOf(rep', net', tail', e)
<1>1. rep'.position \in 0 .. MaxRecords
  BY ReplicaFields DEF RepOK
<1>2. tail'.at = "none"
  BY DEF NoTailer
<1>3. QED
  BY <1>1, <1>2, FlowStart

(* A record that is passed over stays so. *)
LEMMA RacedStays ==
    ASSUME [Next]_vars PROVE (raced => raced') /\ (retried => retried') /\ (rewound => rewound')
<1>1. CASE PrimaryStep \/ UNCHANGED vars \/ ReportProgress
  BY <1>1 DEF PrimaryStep, ReportProgress, vars, streamVars, followerVars
<1>2. CASE PrimaryHalts
  BY <1>2 DEF PrimaryHalts, followerVars
<1>3. CASE StreamStep
  <2>1. retried' = retried /\ rewound' = rewound
    BY <1>3 DEF StreamStep, LocateSegment, ReadSegment, SegmentExhausted, DamagedSegment, Advance,
                Send, TailOnly, followerVars
  <2>2. CASE ~Advance
    BY <1>3, <2>1, <2>2 DEF StreamStep, LocateSegment, ReadSegment, SegmentExhausted, DamagedSegment,
                            Send
  <2>3. CASE Advance
    BY <2>1, <2>3, Zenon DEF Advance
  <2>4. QED
    BY <2>2, <2>3
<1>4. CASE ConnectionBreaks
  BY <1>4 DEF ConnectionBreaks
<1>5. CASE FollowerStep
  <2>1. raced' = raced /\ rewound' = rewound /\ (ApplyFails \/ retried' = retried)
    BY <1>5 DEF FollowerStep, Discover, OpenSymbol, OpenSymbolFails, Connect, Receive, AppendRecord,
                SyncAndApply, ApplyFails, StreamEnds, FollowerOnly, streamVars
  <2>2. QED
    BY <2>1 DEF ApplyFails
<1>6. CASE FollowerCloses \/ FollowerHalts
  BY <1>6 DEF FollowerCloses, FollowerHalts, FollowerOnly
<1>7. QED
  BY <1>1, <1>2, <1>3, <1>4, <1>5, <1>6 DEF Next

-----------------------------------------------------------------------------
(* The primary's log.                                                      *)

PL == INSTANCE LogProofs

(* The primary's log, on a file system that makes names durable. *)
PrimaryExact == FsyncNames => PL!SInv

(* The two instances of a definition of module Log are the same. *)
LEMMA PrimaryReads ==
    /\ P!TypeOK = PL!TypeOK /\ P!Refused = PL!Refused
    /\ \A sg :
         /\ P!Recover(sg) = PL!Recover(sg)
         /\ P!LastPosition(sg) = PL!LastPosition(sg)
         /\ P!Readable(sg) = PL!Readable(sg)
         /\ P!HighestSeq(sg) = PL!HighestSeq(sg)
BY DEF P!TypeOK, PL!TypeOK, P!Refused, PL!Refused, P!Recover, PL!Recover,
       P!LastPosition, PL!LastPosition, P!Readable, PL!Readable, P!HighestSeq,
       PL!HighestSeq, P!Records, PL!Records, P!WriterStates, PL!WriterStates,
       P!WriterSteps, PL!WriterSteps, P!NoWriter, PL!NoWriter, P!InOrder, PL!InOrder,
       P!Max, PL!Max

LEMMA PrimarySteps ==
    /\ P!Init = PL!Init /\ P!Next = PL!Next /\ P!Halt = PL!Halt
BY DEF P!Init, PL!Init, P!Next, PL!Next, P!Halt, PL!Halt, P!NoWriter, PL!NoWriter,
       P!AppendRecord, PL!AppendRecord, P!RotateStep, PL!RotateStep, P!Commit,
       PL!Commit, P!CommitFails, PL!CommitFails, P!Shutdown, PL!Shutdown, P!Restart,
       PL!Restart, P!RestartFails, PL!RestartFails, P!RestartRefused,
       PL!RestartRefused, P!Finished, PL!Finished, P!Crash, PL!Crash, P!AppendFits,
       PL!AppendFits, P!NextRecord, PL!NextRecord, P!AppendRotated, PL!AppendRotated,
       P!Rotate, PL!Rotate, P!OpenSegmentStep, PL!OpenSegmentStep, P!ownerVars,
       PL!ownerVars, P!Sync, PL!Sync, P!Recover, PL!Recover, P!AppendFails,
       PL!AppendFails, P!RotateFails, PL!RotateFails, P!SyncFails, PL!SyncFails,
       P!OpenSegmentFails, PL!OpenSegmentFails, P!Close, PL!Close,
       P!OpenWriterOnNewest, PL!OpenWriterOnNewest, P!FirstSegmentOpened,
       PL!FirstSegmentOpened, P!Opened, PL!Opened, P!OpenWriterOnNothing,
       PL!OpenWriterOnNothing, P!OpenWriterFails, PL!OpenWriterFails, P!Refused,
       PL!Refused, P!vars, PL!vars, P!Images, PL!Images, P!Rotates, PL!Rotates, P!Put,
       PL!Put, P!Named, PL!Named, P!OnNewSegment, PL!OnNewSegment, P!CloseOK,
       PL!CloseOK, P!Closed, PL!Closed, P!CreateFile, PL!CreateFile, P!WriteHeader,
       PL!WriteHeader, P!Fsynced, PL!Fsynced, P!Flushed, PL!Flushed, P!InOrder,
       PL!InOrder, P!walVars, PL!walVars, P!FlushPart, PL!FlushPart, P!CloseFails,
       PL!CloseFails, P!Readable, PL!Readable, P!Max, PL!Max, P!FsyncedFile,
       PL!FsyncedFile, P!Truncated, PL!Truncated, P!LastPosition, PL!LastPosition,
       P!ResumeFrom, PL!ResumeFrom, P!CutAt, PL!CutAt, P!NewFile, PL!NewFile,
       P!Written, PL!Written, P!HighestSeq, PL!HighestSeq

LEMMA PrimaryKeeps ==
    ASSUME PL!GInv, P!Next PROVE PL!GInv'
BY LogAssumption, PrimarySteps, PL!NextGInv

LEMMA PrimaryStays ==
    ASSUME PL!GInv, UNCHANGED primaryVars PROVE PL!GInv'
BY LogAssumption, PL!NextGInv DEF primaryVars, PL!vars, PL!walVars, PL!ownerVars

LEMMA SameMax == (\A S : Max(S) = PL!Max(S)) /\ \A S : Min(S) = PL!Min(S)
BY DEF Max, PL!Max, Min, PL!Min

(* What the Tailer has read stays where it is while the files only grow. *)
LEMMA TailStays ==
    ASSUME NEW sg, NEW sh, NEW x, TailOK(sg, x), PL!Extended(Recs, sg, sh),
           \A n \in DOMAIN sg : sg[n].recs \in Seq(Recs)
    PROVE  TailOK(sh, x)
<1>1. SUFFICES ASSUME x.at \in {"read", "advance", "send"}
               PROVE  x.seg \in DOMAIN sh /\ x.off <= Len(sh[x.seg].recs)
  BY DEF TailOK
<1>2. PICK n : n = x.seg
  OBVIOUS
<1>3. n \in DOMAIN sg /\ x.off <= Len(sg[n].recs) /\ x.off \in Nat
  BY <1>1, <1>2, TailerFields DEF TailOK
<1>4. n \in DOMAIN sh /\ \E y \in Seq(Recs) : sh[n].recs = sg[n].recs \o y
  BY <1>3 DEF PL!Extended, PL!Extends
<1>5. PICK y \in Seq(Recs) : sh[n].recs = sg[n].recs \o y
  BY <1>4
<1>6. sg[n].recs \in Seq(Recs)
  BY <1>3
<1>7. Len(sg[n].recs) <= Len(sh[n].recs) /\ Len(sg[n].recs) \in Nat /\ Len(sh[n].recs) \in Nat
  BY <1>5, <1>6
<1>8. QED
  BY <1>2, <1>3, <1>4, <1>7

(* What apply keeps of a batch, one record after another. *)
Keeps(batch, low, f) ==
    f = [k \in 0 .. Len(batch) |->
           IF k = 0 THEN <<>>
           ELSE IF batch[k].seq > low THEN Append(f[k - 1], batch[k]) ELSE f[k - 1]]

(* Of a batch that is all above the follower's position, it skips nothing. *)
LEMMA FreshAll ==
    ASSUME NEW batch \in Seq(Recs), \A k \in 1 .. Len(batch) : batch[k].seq > rep.position
    PROVE  Fresh(batch) = batch
<1> DEFINE N == Len(batch)
           low == rep.position
           whole == [k \in 0 .. N |-> SubSeq(batch, 1, k)]
<1>1. N \in Nat
  OBVIOUS
<1>2. SubSeq(batch, 1, 0) = <<>> /\ SubSeq(batch, 1, N) = batch
  BY SubSeqEmpty, SubSeqFull
<1>3. ASSUME NEW k \in 1 .. N PROVE Append(SubSeq(batch, 1, k - 1), batch[k]) = SubSeq(batch, 1, k)
  <2>1. 1 \in 1 .. N /\ k \in 1 .. N /\ k - 1 \in 0 .. N /\ k - 1 \in Int /\ 1 \in Int
    BY <1>1
  <2>2. SubSeq(batch, 1, k) = SubSeq(batch, 1, k - 1) \o <<batch[k]>>
    BY <2>1, SubSeqRecursiveSecond
  <2>3. PICK s : s = SubSeq(batch, 1, k - 1)
    OBVIOUS
  <2>4. \A i \in 1 .. k - 1 : batch[i] \in Recs
    BY <1>1, <2>1
  <2>5. s \in Seq(Recs) /\ batch[k] \in Recs
    BY <2>1, <2>3, <2>4, SubSeqProperties
  <2>6. s \o <<batch[k]>> = Append(s, batch[k])
    BY <2>5
  <2>7. QED
    BY <2>2, <2>3, <2>6
<1>4. Keeps(batch, low, whole)
  <2>1. ASSUME NEW k \in 0 .. N
        PROVE  whole[k] = IF k = 0 THEN <<>>
                          ELSE IF batch[k].seq > low THEN Append(whole[k - 1], batch[k])
                               ELSE whole[k - 1]
    <3>1. CASE k = 0
      BY <1>2, <3>1
    <3>2. CASE k # 0
      <4>1. k \in 1 .. N /\ k - 1 \in 0 .. N
        BY <1>1, <3>2
      <4>2. batch[k].seq > low /\ whole[k - 1] = SubSeq(batch, 1, k - 1)
        BY <4>1
      <4>3. QED
        BY <1>3, <3>2, <4>1, <4>2
    <3>3. QED
      BY <3>1, <3>2
  <2>2. QED
    BY <2>1 DEF Keeps
<1>5. ASSUME NEW f, Keeps(batch, low, f) PROVE f[N] = batch
  <2> DEFINE G == { k \in Nat : k <= N => f[k] = SubSeq(batch, 1, k) }
  <2>1. 0 \in G
    BY <1>1, <1>2, <1>5 DEF Keeps
  <2>2. ASSUME NEW k \in G PROVE k + 1 \in G
    <3>1. k \in Nat
      OBVIOUS
    <3>2. SUFFICES ASSUME k + 1 <= N PROVE f[k + 1] = SubSeq(batch, 1, k + 1)
      BY <3>1
    <3>3. k + 1 \in 1 .. N /\ k + 1 \in 0 .. N /\ k + 1 # 0 /\ (k + 1) - 1 = k /\ k <= N
      BY <1>1, <3>1, <3>2
    <3>4. f[k] = SubSeq(batch, 1, k)
      BY <3>3
    <3>5. batch[k + 1].seq > low
      BY <3>3
    <3>6. f[k + 1] = Append(f[k], batch[k + 1])
      BY <1>5, <3>3, <3>5 DEF Keeps
    <3>7. Append(SubSeq(batch, 1, k), batch[k + 1]) = SubSeq(batch, 1, k + 1)
      BY <1>3, <3>3
    <3>8. QED
      BY <3>4, <3>6, <3>7
  <2>3. G \in SUBSET Nat /\ \A n \in G : n + 1 \in G
    BY <2>2
  <2> HIDE DEF G
  <2>4. N \in G
    BY <1>1, <2>1, <2>3, LogAssumption, PL!AllNumbers
  <2>5. QED
    BY <1>1, <1>2, <2>4 DEF G
<1>6. Fresh(batch) = (CHOOSE f : Keeps(batch, low, f))[N]
  BY DEF Fresh, Keeps
<1> HIDE DEF whole
<1>7. Keeps(batch, low, CHOOSE f : Keeps(batch, low, f))
  BY <1>4
<1>8. QED
  BY <1>5, <1>6, <1>7

-----------------------------------------------------------------------------
(* The follower's log: a replica keeps its log as a sequencer does, with   *)
(* the batch it applies in place of the next records.                      *)

FNode == IF fw.state = "none" THEN "down" ELSE IF rep.at = "closed" THEN "stopped" ELSE "up"
FPos == rep.position + Len(rep.fresh) - Len(rep.todo)

FL == INSTANCE LogProofs WITH
        segs <- fsegs, w <- fw, node <- FNode, pos <- FPos, book <- rep.book,
        ids <- MaxRecords, faults <- ffaults, crashes <- fcrashes,
        MaxFaults <- MaxFollowerFaults, MaxCrashes <- MaxFollowerCrashes

TInv ==
    /\ PL!GInv /\ FL!WalOK(Recs, MaxRecords)
    /\ TailOK(segs, tail) /\ NetOK(net) /\ RepOK(rep) /\ Counts

(* The two instances of a definition of module Wal are the same. *)
LEMMA FollowerReads ==
    /\ F!NoWriter = FL!NoWriter /\ F!WriterStates = FL!WriterStates
    /\ F!WriterSteps = FL!WriterSteps
    /\ \A sg :
         /\ F!Recover(sg) = FL!Recover(sg)
         /\ F!HighestSeq(sg) = FL!HighestSeq(sg)
         /\ F!Durable(sg) = FL!Durable(sg)
BY DEF F!NoWriter, FL!NoWriter, F!WriterStates, FL!WriterStates, F!WriterSteps,
       FL!WriterSteps, F!Recover, FL!Recover, F!HighestSeq, FL!HighestSeq, F!Durable,
       FL!Durable, F!InOrder, FL!InOrder, F!Max, FL!Max

LEMMA FollowerOpens ==
    /\ F!OpenWriterOnNewest = FL!OpenWriterOnNewest
    /\ F!FirstSegmentOpened = FL!FirstSegmentOpened
    /\ F!OpenWriterOnNothing = FL!OpenWriterOnNothing
    /\ F!OpenSegmentStep = FL!OpenSegmentStep /\ F!OpenWriterFails = FL!OpenWriterFails
    /\ F!OpenSegmentFails = FL!OpenSegmentFails
BY DEF F!OpenWriterOnNewest, FL!OpenWriterOnNewest, F!FirstSegmentOpened,
       FL!FirstSegmentOpened, F!OpenWriterOnNothing, FL!OpenWriterOnNothing,
       F!OpenSegmentStep, FL!OpenSegmentStep, F!OpenWriterFails, FL!OpenWriterFails,
       F!OpenSegmentFails, FL!OpenSegmentFails, F!NoWriter, FL!NoWriter, F!Readable,
       FL!Readable, F!Max, FL!Max, F!FsyncedFile, FL!FsyncedFile, F!Truncated,
       FL!Truncated, F!LastPosition, FL!LastPosition, F!Named, FL!Named,
       F!OnNewSegment, FL!OnNewSegment, F!CreateFile, FL!CreateFile, F!WriteHeader,
       FL!WriteHeader, F!HighestSeq, FL!HighestSeq, F!NewFile, FL!NewFile

LEMMA FollowerWrites ==
    /\ F!Sync = FL!Sync
    /\ \A rec :
         /\ F!AppendFits(rec) = FL!AppendFits(rec)
         /\ F!AppendRotated(rec) = FL!AppendRotated(rec)
         /\ F!Rotate(rec) = FL!Rotate(rec)
BY DEF F!Sync, FL!Sync, F!AppendFits, FL!AppendFits, F!AppendRotated,
       FL!AppendRotated, F!Rotate, FL!Rotate, F!Fsynced, FL!Fsynced, F!Flushed,
       FL!Flushed, F!Rotates, FL!Rotates, F!Put, FL!Put, F!Named, FL!Named,
       F!OnNewSegment, FL!OnNewSegment, F!CloseOK, FL!CloseOK, F!Closed, FL!Closed,
       F!FsyncedFile, FL!FsyncedFile, F!Written, FL!Written, F!Max, FL!Max

LEMMA FollowerFails ==
    /\ F!RotateFails = FL!RotateFails /\ F!SyncFails = FL!SyncFails
    /\ \A rec :
         /\ F!AppendFails(rec) = FL!AppendFails(rec)
BY DEF F!RotateFails, FL!RotateFails, F!SyncFails, FL!SyncFails, F!AppendFails,
       FL!AppendFails, F!Rotates, FL!Rotates, F!CloseFails, FL!CloseFails, F!Closed,
       FL!Closed, F!walVars, FL!walVars, F!FlushPart, FL!FlushPart, F!Flushed,
       FL!Flushed, F!Fsynced, FL!Fsynced, F!Written, FL!Written, F!FsyncedFile,
       FL!FsyncedFile

LEMMA FollowerEnds ==
    /\ F!Close = FL!Close /\ F!Crash = FL!Crash
BY DEF F!Close, FL!Close, F!Crash, FL!Crash, F!CloseOK, FL!CloseOK, F!CloseFails,
       FL!CloseFails, F!Closed, FL!Closed, F!Images, FL!Images, F!NoWriter,
       FL!NoWriter, F!Fsynced, FL!Fsynced, F!Flushed, FL!Flushed, F!FlushPart,
       FL!FlushPart, F!CutAt, FL!CutAt, F!Max, FL!Max, F!NewFile, FL!NewFile,
       F!FsyncedFile, FL!FsyncedFile, F!Written, FL!Written

LEMMA SameRecords == P!Records = Recs /\ PL!Records = Recs /\ FL!Records = Recs
BY DEF P!Records, PL!Records, FL!Records, Recs

-----------------------------------------------------------------------------
(* Types.                                                                  *)

(* A call of the follower's Writer. *)
WriterCall ==
    \/ \E rec \in Recs : \/ FL!AppendFits(rec) \/ FL!AppendRotated(rec)
                         \/ FL!Rotate(rec) \/ FL!AppendFails(rec)
    \/ FL!OpenSegmentStep \/ FL!OpenSegmentFails \/ FL!RotateFails
    \/ FL!Sync \/ FL!SyncFails \/ FL!Close \/ FL!Crash
    \/ FL!OpenWriterOnNewest \/ FL!FirstSegmentOpened \/ FL!OpenWriterOnNothing
    \/ FL!OpenWriterFails

LEMMA Numbered == FL!NumberedTo(Recs, MaxRecords) /\ PL!NumberedTo(Recs, MaxRecords)
BY DEF FL!NumberedTo, PL!NumberedTo, Recs

LEMMA WalKeeps ==
    ASSUME FL!WalOK(Recs, MaxRecords), WriterCall
    PROVE  FL!WalOK(Recs, MaxRecords)'
<1>1. MaxRecords \in Nat \ {0} /\ MaxRecords \in Nat /\ FL!NumberedTo(Recs, MaxRecords)
  BY LogAssumption, Numbered
<1>2. ASSUME NEW rec \in Recs,
             \/ FL!AppendFits(rec) \/ FL!AppendRotated(rec) \/ FL!Rotate(rec)
             \/ FL!AppendFails(rec)
      PROVE  FL!WalOK(Recs, MaxRecords)'
  <2>1. CASE FL!AppendFits(rec)
    BY <1>1, <2>1, LogAssumption, ReplicationAssumption, FL!AppendFitsOf
  <2>2. CASE FL!AppendRotated(rec)
    BY <1>1, <2>2, LogAssumption, ReplicationAssumption, FL!AppendRotatedOf
  <2>3. CASE FL!Rotate(rec)
    BY <1>1, <2>3, LogAssumption, ReplicationAssumption, FL!RotateOf
  <2>4. CASE FL!AppendFails(rec)
    BY <1>1, <2>4, LogAssumption, ReplicationAssumption, FL!AppendFailsOf
  <2>5. QED
    BY <1>2, <2>1, <2>2, <2>3, <2>4
<1>3. CASE FL!OpenSegmentStep
  BY <1>1, <1>3, LogAssumption, ReplicationAssumption, FL!CreateFileOf, FL!WriteHeaderOf
     DEF FL!OpenSegmentStep
<1>4. CASE FL!OpenSegmentFails
  BY <1>1, <1>4, LogAssumption, ReplicationAssumption, FL!OpenSegmentFailsOf
<1>5. CASE FL!RotateFails \/ FL!Close
  BY <1>1, <1>5, LogAssumption, ReplicationAssumption, FL!CloseOf DEF FL!RotateFails, FL!Close
<1>6. CASE FL!Sync \/ FL!SyncFails
  BY <1>1, <1>6, LogAssumption, ReplicationAssumption, FL!SyncOf, FL!SyncFailsOf
<1>7. CASE FL!Crash
  BY <1>1, <1>7, LogAssumption, ReplicationAssumption, FL!CrashOf
<1>8. CASE FL!OpenWriterOnNewest \/ FL!FirstSegmentOpened
  BY <1>1, <1>8, LogAssumption, ReplicationAssumption, FL!OnNewestOf, FL!FirstOpenedOf
<1>9. CASE FL!OpenWriterOnNothing \/ FL!OpenWriterFails
  BY <1>1, <1>9, LogAssumption, ReplicationAssumption, FL!OnNothingOf, FL!OpenFailsOf
<1>10. QED
  BY <1>2, <1>3, <1>4, <1>5, <1>6, <1>7, <1>8, <1>9 DEF WriterCall

LEMMA WalStays ==
    ASSUME FL!WalOK(Recs, MaxRecords), UNCHANGED <<fsegs, fw>>
    PROVE  FL!WalOK(Recs, MaxRecords)'
BY DEF FL!WalOK

(* The primary's files as the Tailer sees them. *)
LEMMA PrimaryFile ==
    ASSUME PL!GInv, NEW n \in DOMAIN segs
    PROVE  /\ n \in 1 .. MaxRecords /\ segs[n].recs \in Seq(Recs)
           /\ Len(segs[n].recs) \in 0 .. MaxRecords
<1>1. /\ PL!FileOK(n, segs[n], ids) /\ segs[n] \in PL!File(Recs) /\ n \in 1 .. MaxRecords
      /\ ids \in 0 .. MaxRecords
  BY SameRecords DEF PL!GInv, PL!SegsOK, PL!Typed
<1>2. segs[n].recs \in Seq(Recs)
  BY <1>1 DEF PL!File
<1>3. n + Len(segs[n].recs) <= ids + 1
  BY <1>1 DEF PL!FileOK
<1>4. QED
  BY <1>1, <1>2, <1>3, LogAssumption

LEMMA SegmentFound ==
    ASSUME PL!GInv, segs # <<>>, NEW want \in Nat
    PROVE  /\ SegmentOf(want) \in DOMAIN segs
           /\ (\E n \in DOMAIN segs : n <= want) => SegmentOf(want) <= want
<1>1. PICK D : D = DOMAIN segs
  OBVIOUS
<1>2. D \in SUBSET Nat /\ \A n \in D : n <= MaxRecords
  BY <1>1, PrimaryFile, LogAssumption
<1>3. D # {}
  BY <1>1, LogAssumption, PL!SomeSegments DEF PL!GInv
<1>4. PICK B : B = { n \in D : n <= want }
  OBVIOUS
<1>5. SegmentOf(want) = IF B = {} THEN Min(D) ELSE Max(B)
  BY <1>1, <1>4 DEF SegmentOf
<1>6. CASE B = {}
  <2>1. PL!Min(D) \in D
    BY <1>2, <1>3, LogAssumption, PL!MinProperties
  <2>2. QED
    BY <1>1, <1>4, <1>5, <1>6, <2>1, SameMax
<1>7. CASE B # {}
  <2>1. B \in SUBSET Nat /\ \A n \in B : n <= want
    BY <1>2, <1>4
  <2>2. PL!Max(B) \in B
    BY <1>7, <2>1, LogAssumption, PL!MaxProperties
  <2>3. SegmentOf(want) \in B
    BY <1>5, <1>7, <2>2, SameMax
  <2>4. QED
    BY <1>1, <1>4, <2>3
<1>8. QED
  BY <1>6, <1>7

LEMMA NextFound ==
    ASSUME PL!GInv, \E n \in DOMAIN segs : n > tail.seg
    PROVE  /\ NextSegment \in DOMAIN segs /\ NextSegment > tail.seg
           /\ \A n \in DOMAIN segs : n > tail.seg => NextSegment <= n
<1>1. PICK B : B = { n \in DOMAIN segs : n > tail.seg }
  OBVIOUS
<1>2. B \in SUBSET Nat /\ B # {}
  BY <1>1, PrimaryFile, LogAssumption
<1>3. PL!Min(B) \in B /\ \A n \in B : PL!Min(B) <= n
  BY <1>2, LogAssumption, PL!MinProperties
<1>4. NextSegment = PL!Min(B)
  BY <1>1, SameMax DEF NextSegment
<1>5. QED
  BY <1>1, <1>3, <1>4

LEMMA Rest ==
    ASSUME TInv
    PROVE  NoTailer \in Tailer /\ NoTailer.at = "none" /\ NoTailer.out = <<>>
           /\ TailOK(segs, NoTailer) /\ \A sg : TailOK(sg, NoTailer)
<1>1. <<>> \in Seq(Recs) /\ 0 \in 0 .. MaxRecords /\ Len(<<>>) = 0
  BY LogAssumption
<1>2. NoTailer \in Tailer /\ NoTailer.at = "none" /\ NoTailer.out = <<>>
  BY <1>1 DEF NoTailer, Tailer
<1>3. 0 < BatchCap /\ 0 <= BatchCap
  BY ReplicationAssumption
<1>4. QED
  BY <1>1, <1>2, <1>3 DEF TailOK

LEMMA LocateTyped ==
    ASSUME TInv, LocateSegment PROVE TailOK(segs', tail')
<1>1. /\ tail.at = "locate" /\ segs # <<>> /\ segs' = segs
      /\ tail' = [tail EXCEPT !.at = "read", !.off = 0, !.seg = SegmentOf(tail.after + 1)]
  BY DEF LocateSegment, TailOnly, primaryVars
<1>2. /\ tail \in Tailer /\ Len(tail.out) < BatchCap /\ tail.after \in Nat /\ tail.after + 1 \in Nat
      /\ Len(tail.out) \in Nat
  BY <1>1, TailerFields DEF TInv, TailOK
<1>3. PICK n : n = SegmentOf(tail.after + 1)
  OBVIOUS
<1>4. n \in DOMAIN segs /\ n \in 1 .. MaxRecords /\ Len(segs[n].recs) \in 0 .. MaxRecords
  <2>1. PICK want \in Nat : want = tail.after + 1
    BY <1>2
  <2>2. n \in DOMAIN segs
    BY <1>1, <1>3, <2>1, SegmentFound DEF TInv
  <2>3. QED
    BY <2>2, PrimaryFile DEF TInv
<1>5. 0 \in 0 .. MaxRecords /\ n \in 0 .. MaxRecords /\ 0 <= Len(segs[n].recs)
  BY <1>4, LogAssumption
<1>6. /\ tail' \in Tailer /\ tail'.at = "read" /\ tail'.off = 0 /\ tail'.seg = n
      /\ tail'.out = tail.out
  BY <1>1, <1>2, <1>3, <1>5 DEF Tailer
<1>7. Len(tail.out) <= BatchCap
  BY <1>2, ReplicationAssumption
<1>8. QED
  BY <1>1, <1>2, <1>4, <1>5, <1>6, <1>7 DEF TailOK

(* The record read next. *)
LEMMA RecordRead ==
    ASSUME TInv, tail.at = "read", tail.off < Len(segs[tail.seg].recs)
    PROVE  /\ tail.seg \in DOMAIN segs /\ tail.off + 1 \in 1 .. Len(segs[tail.seg].recs)
           /\ tail.off + 1 \in 0 .. MaxRecords
           /\ segs[tail.seg].recs[tail.off + 1] \in Recs
<1>1. tail.seg \in DOMAIN segs /\ tail.off \in Nat
  BY TailerFields DEF TInv, TailOK
<1>2. segs[tail.seg].recs \in Seq(Recs) /\ Len(segs[tail.seg].recs) \in 0 .. MaxRecords
  BY <1>1, PrimaryFile DEF TInv
<1>3. tail.off + 1 \in 1 .. Len(segs[tail.seg].recs) /\ tail.off + 1 \in 0 .. MaxRecords
  BY <1>1, <1>2, LogAssumption
<1>4. QED
  BY <1>1, <1>2, <1>3

LEMMA ReadTyped ==
    ASSUME TInv, ReadSegment PROVE TailOK(segs', tail')
<1>1. /\ tail.at = "read" /\ tail.off < Len(segs[tail.seg].recs) /\ segs' = segs
      /\ tail' = IF segs[tail.seg].recs[tail.off + 1].seq <= tail.after
                 THEN [tail EXCEPT !.off = @ + 1]
                 ELSE [tail EXCEPT !.off = @ + 1, !.after = segs[tail.seg].recs[tail.off + 1].seq,
                         !.out = Append(tail.out, segs[tail.seg].recs[tail.off + 1]),
                         !.at = IF Len(Append(tail.out, segs[tail.seg].recs[tail.off + 1])) = BatchCap
                                THEN "send" ELSE "read"]
  BY DEF ReadSegment, TailOnly, primaryVars
<1>2. /\ tail.seg \in DOMAIN segs /\ tail.off + 1 \in 1 .. Len(segs[tail.seg].recs)
      /\ tail.off + 1 \in 0 .. MaxRecords
      /\ segs[tail.seg].recs[tail.off + 1] \in Recs
  BY <1>1, RecordRead
<1>3. /\ tail \in Tailer /\ Len(tail.out) < BatchCap /\ tail.out \in Seq(Recs)
      /\ Len(tail.out) \in Nat /\ tail.off + 1 <= Len(segs[tail.seg].recs)
  BY <1>1, <1>2, TailerFields DEF TInv, TailOK
<1>4. PICK rec \in Recs : rec = segs[tail.seg].recs[tail.off + 1]
  BY <1>2
<1>5. CASE rec.seq <= tail.after
  <2>1. tail' = [tail EXCEPT !.off = tail.off + 1]
    BY <1>1, <1>4, <1>5
  <2>2. /\ tail' \in Tailer /\ tail'.off = tail.off + 1 /\ tail'.at = "read"
        /\ tail'.seg = tail.seg /\ tail'.out = tail.out
    BY <1>1, <1>2, <1>3, <2>1 DEF Tailer
  <2>3. Len(tail.out) <= BatchCap
    BY <1>3, ReplicationAssumption
  <2>4. QED
    BY <1>1, <1>2, <1>3, <2>2, <2>3 DEF TailOK
<1>6. CASE ~(rec.seq <= tail.after)
  <2>1. PICK out : out = Append(tail.out, rec)
    OBVIOUS
  <2>2. out \in Seq(Recs) /\ Len(out) = Len(tail.out) + 1
    BY <1>3, <2>1
  <2>3. PICK a : a = IF Len(out) = BatchCap THEN "send" ELSE "read"
    OBVIOUS
  <2>4. tail' = [tail EXCEPT !.off = tail.off + 1, !.after = rec.seq, !.out = out, !.at = a]
    BY <1>1, <1>4, <1>6, <2>1, <2>3
  <2>5. rec.seq \in 0 .. MaxRecords /\ a \in {"read", "send"}
    BY <2>3, RecordFields, LogAssumption
  <2>6. /\ tail' \in Tailer /\ tail'.off = tail.off + 1 /\ tail'.at = a
        /\ tail'.seg = tail.seg /\ tail'.out = out
    BY <1>2, <1>3, <2>2, <2>4, <2>5 DEF Tailer
  <2>7. Len(out) <= BatchCap /\ (a # "send" => Len(out) < BatchCap)
    BY <1>3, <2>2, <2>3, ReplicationAssumption
  <2>8. QED
    BY <1>1, <1>2, <1>3, <2>6, <2>7 DEF TailOK
<1>7. QED
  BY <1>5, <1>6

LEMMA AdvanceTyped ==
    ASSUME TInv, SegmentExhausted \/ Advance PROVE TailOK(segs', tail') /\ raced' \in BOOLEAN
<1>1. segs' = segs /\ tail \in Tailer /\ TailOK(segs, tail) /\ raced \in BOOLEAN
  BY DEF SegmentExhausted, Advance, TailOnly, primaryVars, TInv, TailOK, Counts
<1>2. ASSUME NEW a \in {"read", "advance", "send"}, tail.at \in {"read", "advance"},
             tail' = [tail EXCEPT !.at = a]
      PROVE  TailOK(segs', tail')
  <2>1. tail' \in Tailer /\ tail'.at = a /\ tail'.seg = tail.seg /\ tail'.off = tail.off
        /\ tail'.out = tail.out
    BY <1>1, <1>2 DEF Tailer
  <2>2. QED
    BY <1>1, <1>2, <2>1 DEF TailOK
<1>3. CASE SegmentExhausted
  BY <1>1, <1>2, <1>3 DEF SegmentExhausted
<1>4. CASE Advance /\ \E n \in DOMAIN segs : n > tail.seg
  <2>1. PICK n : n = NextSegment
    OBVIOUS
  <2>2. n \in DOMAIN segs
    BY <1>4, <2>1, NextFound DEF TInv
  <2>3. n \in 1 .. MaxRecords /\ Len(segs[n].recs) \in 0 .. MaxRecords
    BY <2>2, PrimaryFile DEF TInv
  <2>4. n \in 0 .. MaxRecords /\ 0 \in 0 .. MaxRecords /\ 0 <= Len(segs[n].recs)
    BY <2>3, LogAssumption
  <2>5. tail' = [tail EXCEPT !.seg = n, !.off = 0, !.at = "read"] /\ tail.at = "advance"
        /\ raced' = (raced \/ tail.off < Len(segs[tail.seg].recs))
    BY <1>4, <2>1 DEF Advance
  <2>6. tail' \in Tailer /\ tail'.at = "read" /\ tail'.seg = n /\ tail'.off = 0
        /\ tail'.out = tail.out
    BY <1>1, <2>4, <2>5 DEF Tailer
  <2>7. TailOK(segs', tail')
    BY <1>1, <2>2, <2>4, <2>5, <2>6 DEF TailOK
  <2>8. QED
    BY <2>5, <2>7
<1>5. CASE Advance /\ ~\E n \in DOMAIN segs : n > tail.seg
  BY <1>1, <1>2, <1>5 DEF Advance
<1>6. QED
  BY <1>3, <1>4, <1>5

LEMMA SendTyped ==
    ASSUME TInv, Send PROVE TailOK(segs', tail') /\ NetOK(net')
<1>1. /\ tail.at = "send" /\ Len(net) < NetCap /\ net' = Append(net, tail.out)
      /\ tail' = [tail EXCEPT !.out = <<>>, !.at = "read"] /\ segs' = segs
  BY DEF Send, TailOnly, primaryVars
<1>2. tail \in Tailer /\ tail.out \in Seq(Recs) /\ net \in Seq(Seq(Recs))
      /\ tail.seg \in DOMAIN segs /\ tail.off <= Len(segs[tail.seg].recs)
  BY <1>1, TailerFields DEF TInv, TailOK, NetOK
<1>3. NetOK(net')
  <2>1. net' \in Seq(Seq(Recs)) /\ Len(net') = Len(net) + 1 /\ Len(net) \in Nat
    BY <1>1, <1>2
  <2>2. QED
    BY <1>1, <2>1, ReplicationAssumption DEF NetOK
<1>4. <<>> \in Seq(Recs) /\ Len(<<>>) = 0 /\ 0 < BatchCap /\ 0 <= BatchCap
  BY ReplicationAssumption
<1>5. tail' \in Tailer /\ tail'.at = "read" /\ tail'.seg = tail.seg /\ tail'.off = tail.off
      /\ tail'.out = <<>>
  BY <1>1, <1>2, <1>4 DEF Tailer
<1>6. QED
  BY <1>1, <1>2, <1>3, <1>4, <1>5 DEF TailOK

LEMMA CutTyped ==
    ASSUME TInv, StreamCut PROVE TailOK(segs', tail') /\ NetOK(net')
<1>1. tail' = NoTailer
  BY DEF StreamCut
<1>2. PICK n \in 0 .. Len(net) : net' = SubSeq(net, 1, n)
  BY DEF StreamCut
<1>3. net \in Seq(Seq(Recs)) /\ Len(net) \in Nat /\ Len(net) <= NetCap
  BY DEF TInv, NetOK
<1>4. n \in Nat /\ \A i \in 1 .. n : net[i] \in Seq(Recs)
  BY <1>3
<1>5. net' \in Seq(Seq(Recs)) /\ Len(net') = n
  BY <1>2, <1>3, <1>4, SubSeqProperties
<1>6. n <= NetCap
  BY <1>3, ReplicationAssumption
<1>7. QED
  BY <1>1, <1>5, <1>6, Rest DEF NetOK

(* The book is what the follower's log holds. *)
LEMMA LogRead ==
    ASSUME TInv
    PROVE  /\ FL!Recover(fsegs) \in Seq(Recs) /\ F!Recover(fsegs) = FL!Recover(fsegs)
           /\ F!HighestSeq(F!Recover(fsegs)) = FL!HighestSeq(FL!Recover(fsegs))
           /\ FL!HighestSeq(FL!Recover(fsegs)) \in 0 .. MaxRecords
<1>1. FL!FilesOf(Recs, MaxRecords, fsegs) /\ MaxRecords \in Nat
  BY LogAssumption DEF TInv, FL!WalOK, FL!WalTyped
<1>2. DOMAIN fsegs \subseteq 1 .. MaxRecords /\ \A n \in DOMAIN fsegs : fsegs[n] \in FL!File(Recs)
  BY <1>1 DEF FL!FilesOf
<1>3. FL!Recover(fsegs) \in Seq(Recs)
  BY <1>1, <1>2, LogAssumption, ReplicationAssumption, FL!RecoverType
<1>4. FL!HighestSeq(FL!Recover(fsegs)) \in 0 .. MaxRecords
  BY <1>1, <1>3, Numbered, LogAssumption, ReplicationAssumption, FL!HighestOf
<1>5. QED
  BY <1>3, <1>4, FollowerReads

LEMMA OpenTyped ==
    ASSUME TInv, OpenSymbol PROVE RepOK(rep') /\ WriterCall
<1>1. rep.at = "open" /\ RepOK(rep) /\ rep \in Replica
  BY DEF OpenSymbol, TInv, RepOK
<1>2. CASE UNCHANGED rep /\ (F!OpenWriterOnNothing \/ F!OpenSegmentStep)
  BY <1>1, <1>2, FollowerOpens DEF WriterCall
<1>3. CASE /\ F!OpenWriterOnNewest \/ F!FirstSegmentOpened
           /\ rep' = [rep EXCEPT !.at = "connect", !.book = F!Recover(fsegs),
                                 !.position = F!HighestSeq(F!Recover(fsegs))]
  <2>1. PICK R \in Seq(Recs) : R = F!Recover(fsegs)
    BY LogRead
  <2>2. PICK h \in 0 .. MaxRecords : h = F!HighestSeq(F!Recover(fsegs))
    BY LogRead
  <2>3. rep' = [rep EXCEPT !.at = "connect", !.book = R, !.position = h]
    BY <1>3, <2>1, <2>2
  <2>4. rep' \in Replica /\ rep'.fresh = rep.fresh /\ rep'.todo = rep.todo /\ rep'.at = "connect"
    BY <1>1, <2>3 DEF Replica
  <2>5. RepOK(rep')
    BY <1>1, <2>4 DEF RepOK
  <2>6. QED
    BY <1>3, <2>5, FollowerOpens DEF WriterCall
<1>4. QED
  BY <1>2, <1>3 DEF OpenSymbol

LEMMA OpenFailsTyped ==
    ASSUME TInv, OpenSymbolFails
    PROVE  /\ RepOK(rep') /\ ffaults' \in 0 .. MaxFollowerFaults
           /\ WriterCall \/ UNCHANGED <<fsegs, fw>>
<1>1. rep.at = "open" /\ rep' = [rep EXCEPT !.at = "stopped"] /\ RepOK(rep)
      /\ ffaults \in 0 .. MaxFollowerFaults
  BY DEF OpenSymbolFails, TInv, Counts
<1>2. RepOK(rep')
  BY <1>1, Moves
<1>3. WriterCall \/ UNCHANGED <<fsegs, fw>>
  BY FollowerOpens DEF OpenSymbolFails, WriterCall
<1>4. ffaults' \in 0 .. MaxFollowerFaults
  BY <1>1, ReplicationAssumption DEF OpenSymbolFails
<1>5. QED
  BY <1>2, <1>3, <1>4

(* All of a batch is new to the follower. *)
LEMMA WholeBatch ==
    ASSUME TInv, Flow, rep.at = "recv", net # <<>>
    PROVE  /\ Head(net) = net[1] /\ net[1] \in Seq(Recs) /\ Fresh(Head(net)) = net[1]
           /\ Tail(net) \in Seq(Seq(Recs)) /\ Len(Tail(net)) = Len(net) - 1
           /\ 1 \in 1 .. Len(net) /\ Len(net) \in Nat
           /\ \A i \in 1 .. Len(net) - 1 : Tail(net)[i] = net[i + 1]
<1>1. net \in Seq(Seq(Recs)) /\ Len(net) \in Nat \ {0} /\ Len(net) \in Nat /\ 1 \in 1 .. Len(net)
  <2>1. net \in Seq(Seq(Recs))
    BY DEF TInv, NetOK
  <2>2. Len(net) \in Nat \ {0}
    BY <2>1, EmptySeq
  <2>3. QED
    BY <2>1, <2>2
<1>2. /\ Head(net) = net[1] /\ net[1] \in Seq(Recs)
      /\ Tail(net) \in Seq(Seq(Recs)) /\ Len(Tail(net)) = Len(net) - 1
      /\ \A i \in 1 .. Len(net) - 1 : Tail(net)[i] = net[i + 1]
  BY <1>1
<1>3. PICK s \in Seq(Recs) : s = net[1]
  BY <1>2
<1>4. PICK b \in [1 .. Len(net) + 1 -> 0 .. MaxRecords] :
        /\ Chunk(rep.fresh, rep.position, b[1], Complete)
        /\ \A i \in 1 .. Len(net) : Chunk(net[i], b[i], b[i + 1], Complete)
  BY DEF Flow, FlowOf
<1>5. rep.position <= b[1] /\ \A k \in 1 .. Len(s) : b[1] < s[k].seq
  BY <1>1, <1>3, <1>4 DEF Chunk
<1>6. rep.position \in Nat /\ b[1] \in Nat
  <2>1. 1 \in 1 .. Len(net) + 1
    BY <1>1
  <2>2. b[1] \in 0 .. MaxRecords
    BY <1>4, <2>1
  <2>3. QED
    BY <2>2, ReplicaFields, LogAssumption DEF TInv, RepOK
<1>7. \A k \in 1 .. Len(s) : s[k].seq > rep.position
  <2>1. SUFFICES ASSUME NEW k \in 1 .. Len(s) PROVE s[k].seq > rep.position
    OBVIOUS
  <2>2. s[k] \in Recs
    BY <1>3
  <2>3. s[k].seq \in Nat /\ b[1] < s[k].seq
    BY <1>5, <2>2, RecordFields
  <2>4. QED
    BY <1>5, <1>6, <2>3
<1>8. Fresh(s) = s
  BY <1>7, FreshAll
<1>9. QED
  BY <1>1, <1>2, <1>3, <1>8

LEMMA ReceiveTyped ==
    ASSUME TInv, Flow, Receive PROVE RepOK(rep') /\ NetOK(net')
<1>1. rep.at = "recv" /\ net # <<>> /\ net' = Tail(net) /\ rep \in Replica /\ Len(net) <= NetCap
      /\ rep' = [rep EXCEPT !.fresh = Fresh(Head(net)), !.todo = Fresh(Head(net)),
                          !.at = IF Fresh(Head(net)) = <<>> THEN "recv" ELSE "append"]
  BY DEF Receive, TInv, RepOK, NetOK
<1>2. /\ net[1] \in Seq(Recs) /\ Fresh(Head(net)) = net[1] /\ Len(net) \in Nat
      /\ Tail(net) \in Seq(Seq(Recs)) /\ Len(Tail(net)) = Len(net) - 1
  BY <1>1, WholeBatch
<1>3. NetOK(net')
  BY <1>1, <1>2, ReplicationAssumption DEF NetOK
<1>4. PICK s \in Seq(Recs) : s = net[1]
  BY <1>2
<1>5. PICK a \in {"recv", "append"} : a = IF s = <<>> THEN "recv" ELSE "append"
  OBVIOUS
<1>6. rep' = [rep EXCEPT !.fresh = s, !.todo = s, !.at = a]
  BY <1>1, <1>2, <1>4, <1>5
<1>7. rep' \in Replica /\ rep'.fresh = s /\ rep'.todo = s /\ rep'.at = a
  BY <1>1, <1>6 DEF Replica
<1>8. Remains(s, s)
  BY RemainsAll
<1>9. QED
  BY <1>3, <1>5, <1>7, <1>8 DEF RepOK

LEMMA AppendTyped ==
    ASSUME TInv, AppendRecord
    PROVE  /\ RepOK(rep') /\ WriterCall /\ rep'.position = rep.position /\ rep'.book = rep.book
           /\ rep'.fresh = rep.fresh /\ rep'.at = "append"
<1>1. rep.at = "append" /\ rep.todo # <<>> /\ RepOK(rep) /\ rep \in Replica
  BY DEF AppendRecord, TInv, RepOK
<1>2. PICK t \in Seq(Recs) : t = rep.todo
  BY <1>1, ReplicaFields
<1>3. PICK s \in Seq(Recs) : s = rep.fresh
  BY <1>1, ReplicaFields
<1>4. Remains(t, s) /\ s # <<>> /\ t # <<>>
  BY <1>1, <1>2, <1>3 DEF RepOK
<1>5. Head(t) \in Recs /\ Tail(t) \in Seq(Recs) /\ Remains(Tail(t), s)
  BY <1>4, RemainsTail
<1>6. WriterCall
  BY <1>2, <1>5, FollowerWrites, FollowerOpens DEF AppendRecord, WriterCall
<1>7. CASE UNCHANGED rep
  BY <1>1, <1>6, <1>7
<1>8. CASE rep' = [rep EXCEPT !.todo = Tail(@)]
  <2>1. PICK u \in Seq(Recs) : u = Tail(t)
    BY <1>5
  <2>2. rep' = [rep EXCEPT !.todo = u]
    BY <1>2, <1>8, <2>1
  <2>3. /\ rep' \in Replica /\ rep'.todo = u /\ rep'.position = rep.position /\ rep'.book = rep.book
        /\ rep'.fresh = rep.fresh /\ rep'.at = "append"
    BY <1>1, <2>2 DEF Replica
  <2>4. RepOK(rep')
    BY <1>3, <1>4, <1>5, <2>1, <2>3 DEF RepOK
  <2>5. QED
    BY <1>6, <2>3, <2>4
<1>9. QED
  BY <1>7, <1>8 DEF AppendRecord

LEMMA ApplyTyped ==
    ASSUME TInv, rep.at = "append", rep.todo = <<>>, rep' = Applied
    PROVE  /\ RepOK(rep') /\ rep'.at = "recv" /\ rep'.book = rep.book \o rep.fresh
           /\ rep'.position = rep.fresh[Len(rep.fresh)].seq
           /\ rep'.fresh = <<>> /\ rep'.todo = <<>>
           /\ rep.fresh \in Seq(Recs) /\ Len(rep.fresh) \in 1 .. Len(rep.fresh)
<1>1. RepOK(rep) /\ rep \in Replica /\ rep.fresh # <<>>
  BY DEF TInv, RepOK
<1>2. rep.fresh \in Seq(Recs) /\ rep.book \in Seq(Recs)
  BY <1>1, ReplicaFields
<1>3. Len(rep.fresh) \in 1 .. Len(rep.fresh)
  BY <1>1, <1>2, EmptySeq
<1>4. PICK r \in Recs : r = rep.fresh[Len(rep.fresh)]
  BY <1>2, <1>3
<1>5. PICK p \in 0 .. MaxRecords : p = r.seq
  BY RecordFields, LogAssumption
<1>6. PICK b : b = rep.book \o rep.fresh
  OBVIOUS
<1>7. b \in Seq(Recs)
  BY <1>2, <1>6
<1>8. <<>> \in Seq(Recs)
  OBVIOUS
<1>9. rep' = [rep EXCEPT !.at = "recv", !.book = b, !.position = p, !.fresh = <<>>]
  BY <1>4, <1>5, <1>6 DEF Applied, Last
<1>10. /\ rep' \in Replica /\ rep'.at = "recv" /\ rep'.book = b /\ rep'.position = p
      /\ rep'.fresh = <<>> /\ rep'.todo = rep.todo
  BY <1>1, <1>8, <1>9, <1>7 DEF Replica
<1>11. RepOK(rep')
  BY <1>10, NothingRemains DEF RepOK
<1>12. QED
  BY <1>2, <1>3, <1>4, <1>5, <1>6, <1>10, <1>11

LEMMA ApplyFailsTyped ==
    ASSUME TInv, ApplyFails
    PROVE  /\ RepOK(rep') /\ WriterCall /\ ffaults' \in 0 .. MaxFollowerFaults
           /\ rep'.at = "connect" /\ rep'.fresh = <<>> /\ rep'.todo = <<>>
           /\ rep'.position = rep.position /\ rep'.book = rep.book
<1>1. /\ rep.at = "append" /\ rep \in Replica
      /\ rep' = [rep EXCEPT !.at = "connect", !.fresh = <<>>, !.todo = <<>>]
  BY DEF ApplyFails, TInv, RepOK
<1>2. <<>> \in Seq(Recs)
  OBVIOUS
<1>3. /\ rep' \in Replica /\ rep'.at = "connect" /\ rep'.fresh = <<>> /\ rep'.todo = <<>>
      /\ rep'.position = rep.position /\ rep'.book = rep.book
  BY <1>1, <1>2 DEF Replica
<1>4. RepOK(rep')
  BY <1>3, NothingRemains DEF RepOK
<1>5. WriterCall
  <2>1. CASE rep.todo = <<>>
    BY <2>1, FollowerFails DEF ApplyFails, WriterCall
  <2>2. CASE rep.todo # <<>>
    <3>1. rep.todo \in Seq(Recs)
      BY <1>1, ReplicaFields
    <3>2. Head(rep.todo) \in Recs
      BY <2>2, <3>1, HeadTailProperties
    <3>3. QED
      BY <2>2, <3>2, FollowerFails, FollowerOpens DEF ApplyFails, WriterCall
  <2>3. QED
    BY <2>1, <2>2
<1>6. ffaults' \in 0 .. MaxFollowerFaults
  <2>1. ffaults \in 0 .. MaxFollowerFaults /\ MaxFollowerFaults \in Nat
    BY ReplicationAssumption DEF TInv, Counts
  <2>2. ffaults' = ffaults \/ (ffaults < MaxFollowerFaults /\ ffaults' = ffaults + 1)
    BY DEF ApplyFails
  <2>3. QED
    BY <2>1, <2>2
<1>7. QED
  BY <1>3, <1>4, <1>5, <1>6

LEMMA ConnectTyped ==
    ASSUME TInv, Connect
    PROVE  TailOK(segs', tail') /\ NetOK(net') /\ RepOK(rep')
<1>1. /\ rep.at = "connect" /\ rep \in Replica /\ RepOK(rep) /\ net' = <<>>
      /\ tail' = NewTailer(rep.position) /\ rep' = [rep EXCEPT !.at = "recv"]
  BY DEF Connect, TInv, RepOK
<1>2. <<>> \in Seq(Recs) /\ 0 \in 0 .. MaxRecords /\ Len(<<>>) = 0 /\ 0 < BatchCap /\ 0 <= BatchCap
  BY LogAssumption, ReplicationAssumption
<1>3. PICK p \in 0 .. MaxRecords : p = rep.position
  BY <1>1, ReplicaFields
<1>4. tail' \in Tailer /\ tail'.at = "locate" /\ tail'.out = <<>>
  BY <1>1, <1>2, <1>3 DEF NewTailer, Tailer
<1>5. TailOK(segs', tail')
  BY <1>2, <1>4 DEF TailOK
<1>6. NetOK(net')
  BY <1>1, <1>2, ReplicationAssumption DEF NetOK
<1>7. RepOK(rep')
  BY <1>1, Moves
<1>8. QED
  BY <1>5, <1>6, <1>7

(* Where a step leaves a part alone, it stays as it is. *)
LEMMA TypedParts ==
    ASSUME TInv
    PROVE  /\ UNCHANGED <<segs, tail>> => TailOK(segs', tail')
           /\ UNCHANGED net => NetOK(net')
           /\ UNCHANGED rep => RepOK(rep')
           /\ UNCHANGED <<ending, progress, ffaults, fcrashes, raced, rewound, retried>> => Counts'
           /\ tail' = NoTailer => TailOK(segs', tail')
           /\ net' = <<>> => NetOK(net')
<1>1. TailOK(segs, tail) /\ NetOK(net) /\ RepOK(rep) /\ Counts
  BY DEF TInv
<1>2. UNCHANGED <<ending, progress, ffaults, fcrashes, raced, rewound, retried>> => Counts'
  BY <1>1 DEF Counts
<1>3. QED
  BY <1>1, <1>2, Rest, NoNet

LEMMA PrimaryTyped ==
    ASSUME TInv, PrimaryStep \/ PrimaryHalts PROVE TInv'
<1>1. CASE PrimaryStep
  <2>1. /\ P!Next /\ crashes' = crashes
        /\ UNCHANGED <<tail, net, ending, raced, fsegs, fw, rep, ffaults, fcrashes, retried,
                       progress, rewound>>
    BY <1>1 DEF PrimaryStep, streamVars, followerVars
  <2>2. PL!GInv' /\ FL!WalOK(Recs, MaxRecords)'
    BY <2>1, PrimaryKeeps, WalStays DEF TInv
  <2>3. PL!Extended(Recs, segs, segs')
    BY <2>1, SameRecords, PrimarySteps, LogAssumption, PL!Grows DEF TInv
  <2>4. TailOK(segs, tail) /\ \A n \in DOMAIN segs : segs[n].recs \in Seq(Recs)
    BY PrimaryFile DEF TInv
  <2>5. TailOK(segs', tail')
    BY <2>1, <2>3, <2>4, TailStays
  <2>6. NetOK(net') /\ RepOK(rep') /\ Counts'
    BY <2>1, TypedParts
  <2>7. QED
    BY <2>2, <2>5, <2>6 DEF TInv
<1>2. CASE PrimaryHalts
  <2>1. /\ P!Halt
        /\ StreamCut \/ (tail = NoTailer /\ UNCHANGED <<tail, net, ending>>)
        /\ progress' = None
        /\ rewound' = (rewound \/ Len(P!Recover(segs')) < Len(P!Recover(segs)))
        /\ UNCHANGED <<fsegs, fw, rep, ffaults, fcrashes, retried, raced>>
    BY <1>2 DEF PrimaryHalts, followerVars
  <2>2. PL!GInv'
    BY <2>1, PrimarySteps, LogAssumption, PL!HaltStep DEF TInv
  <2>3. FL!WalOK(Recs, MaxRecords)' /\ RepOK(rep')
    BY <2>1, WalStays, TypedParts DEF TInv
  <2>4. TailOK(segs', tail') /\ NetOK(net') /\ ending' \in {"", "broken", "dataloss"}
    <3>1. CASE StreamCut
      BY <3>1, CutTyped DEF StreamCut
    <3>2. CASE tail = NoTailer /\ UNCHANGED <<tail, net, ending>>
      BY <3>2, TypedParts DEF TInv, Counts
    <3>3. QED
      BY <2>1, <3>1, <3>2
  <2>5. progress' \in None .. MaxRecords /\ rewound' \in BOOLEAN
    BY <2>1, LogAssumption DEF None
  <2>6. Counts'
    BY <2>1, <2>4, <2>5 DEF TInv, Counts
  <2>7. QED
    BY <2>2, <2>3, <2>4, <2>6 DEF TInv
<1>3. QED
  BY <1>1, <1>2

LEMMA StreamTyped ==
    ASSUME TInv, StreamStep \/ ConnectionBreaks PROVE TInv'
<1>1. CASE StreamStep
  <2>1. /\ UNCHANGED primaryVars
        /\ UNCHANGED <<fsegs, fw, rep, ffaults, fcrashes, retried, progress, rewound>>
    BY <1>1 DEF StreamStep, LocateSegment, ReadSegment, SegmentExhausted, DamagedSegment, Advance,
                Send, TailOnly, followerVars
  <2>2. PL!GInv' /\ FL!WalOK(Recs, MaxRecords)' /\ RepOK(rep')
    BY <2>1, PrimaryStays, WalStays, TypedParts DEF TInv
  <2>3. /\ TailOK(segs', tail') /\ NetOK(net') /\ ending' \in {"", "broken", "dataloss"}
        /\ raced' \in BOOLEAN
    <3>1. ending \in {"", "broken", "dataloss"} /\ raced \in BOOLEAN
      BY DEF TInv, Counts
    <3>2. CASE LocateSegment
      BY <3>1, <3>2, LocateTyped, TypedParts DEF LocateSegment
    <3>3. CASE ReadSegment
      BY <3>1, <3>3, ReadTyped, TypedParts DEF ReadSegment
    <3>4. CASE SegmentExhausted
      BY <3>1, <3>4, AdvanceTyped, TypedParts DEF SegmentExhausted
    <3>5. CASE DamagedSegment
      BY <3>1, <3>5, TypedParts DEF DamagedSegment
    <3>6. CASE Advance
      BY <3>1, <3>6, AdvanceTyped, TypedParts DEF Advance
    <3>7. CASE Send
      BY <3>1, <3>7, SendTyped DEF Send
    <3>8. QED
      BY <1>1, <3>2, <3>3, <3>4, <3>5, <3>6, <3>7 DEF StreamStep
  <2>4. Counts'
    BY <2>1, <2>3 DEF TInv, Counts
  <2>5. QED
    BY <2>2, <2>3, <2>4 DEF TInv
<1>2. CASE ConnectionBreaks
  <2>1. /\ StreamCut /\ ffaults < MaxFollowerFaults /\ ffaults' = ffaults + 1
        /\ UNCHANGED primaryVars /\ UNCHANGED <<fsegs, fw>>
        /\ UNCHANGED <<rep, fcrashes, retried, raced, progress, rewound>>
    BY <1>2 DEF ConnectionBreaks
  <2>2. PL!GInv' /\ FL!WalOK(Recs, MaxRecords)' /\ RepOK(rep')
    BY <2>1, PrimaryStays, WalStays, TypedParts DEF TInv
  <2>3. TailOK(segs', tail') /\ NetOK(net') /\ ending' = "broken"
    BY <2>1, CutTyped DEF StreamCut
  <2>4. ffaults' \in 0 .. MaxFollowerFaults
    <3>1. ffaults \in 0 .. MaxFollowerFaults /\ MaxFollowerFaults \in Nat
      BY ReplicationAssumption DEF TInv, Counts
    <3>2. QED
      BY <2>1, <3>1
  <2>5. Counts'
    BY <2>1, <2>3, <2>4 DEF TInv, Counts
  <2>6. QED
    BY <2>2, <2>3, <2>5 DEF TInv
<1>3. QED
  BY <1>1, <1>2

LEMMA FollowerTyped ==
    ASSUME TInv, Flow, FollowerStep \/ FollowerCloses \/ FollowerHalts PROVE TInv'
<1>1. /\ UNCHANGED primaryVars /\ segs' = segs /\ UNCHANGED <<progress, rewound>> /\ raced' = raced
  BY DEF FollowerStep, FollowerCloses, FollowerHalts, Discover, OpenSymbol, OpenSymbolFails, Connect,
         Receive, AppendRecord, SyncAndApply, ApplyFails, StreamEnds, FollowerOnly, primaryVars,
         streamVars
<1>2. PL!GInv'
  BY <1>1, PrimaryStays DEF TInv
<1>3. /\ ending \in {"", "broken", "dataloss"} /\ ffaults \in 0 .. MaxFollowerFaults
      /\ fcrashes \in 0 .. MaxFollowerCrashes /\ retried \in BOOLEAN /\ RepOK(rep)
      /\ FL!WalOK(Recs, MaxRecords) /\ Counts
  BY DEF TInv, Counts
<1>4. /\ FL!WalOK(Recs, MaxRecords)'
      /\ TailOK(segs', tail') /\ NetOK(net') /\ RepOK(rep')
      /\ ending' \in {"", "broken", "dataloss"} /\ ffaults' \in 0 .. MaxFollowerFaults
      /\ fcrashes' \in 0 .. MaxFollowerCrashes /\ retried' \in BOOLEAN
  <2>1. CASE Discover
    <3>1. rep.at = "start" /\ rep' = [rep EXCEPT !.at = "open"]
          /\ UNCHANGED <<tail, net, ending, fsegs, fw, ffaults, fcrashes, retried>>
      BY <2>1 DEF Discover, streamVars
    <3>2. RepOK(rep')
      BY <1>3, <3>1, Moves
    <3>3. QED
      BY <1>1, <1>3, <3>1, <3>2, WalStays, TypedParts
  <2>2. CASE OpenSymbol
    <3>1. UNCHANGED <<tail, net, ending, ffaults, fcrashes, retried>>
      BY <2>2 DEF OpenSymbol, streamVars
    <3>2. QED
      BY <1>1, <1>3, <2>2, <3>1, OpenTyped, WalKeeps, TypedParts
  <2>3. CASE OpenSymbolFails
    <3>1. UNCHANGED <<tail, net, ending, fcrashes, retried>>
      BY <2>3 DEF OpenSymbolFails, streamVars
    <3>2. QED
      BY <1>1, <1>3, <2>3, <3>1, OpenFailsTyped, WalKeeps, WalStays, TypedParts
  <2>4. CASE Connect
    <3>1. UNCHANGED <<fsegs, fw, ffaults, fcrashes, retried>> /\ ending' = ""
      BY <2>4 DEF Connect
    <3>2. QED
      BY <1>3, <2>4, <3>1, ConnectTyped, WalStays
  <2>5. CASE Receive
    <3>1. UNCHANGED <<tail, ending, fsegs, fw, ffaults, fcrashes, retried>>
      BY <2>5 DEF Receive
    <3>2. QED
      BY <1>1, <1>3, <2>5, <3>1, ReceiveTyped, WalStays, TypedParts
  <2>6. CASE AppendRecord
    <3>1. UNCHANGED <<tail, net, ending, ffaults, fcrashes, retried>>
      BY <2>6 DEF AppendRecord, streamVars
    <3>2. QED
      BY <1>1, <1>3, <2>6, <3>1, AppendTyped, WalKeeps, TypedParts
  <2>7. CASE SyncAndApply
    <3>1. /\ rep.at = "append" /\ rep.todo = <<>> /\ rep' = Applied /\ F!Sync
          /\ UNCHANGED <<tail, net, ending, ffaults, fcrashes, retried>>
      BY <2>7 DEF SyncAndApply, streamVars
    <3>2. WriterCall
      BY <3>1, FollowerWrites DEF WriterCall
    <3>3. QED
      BY <1>1, <1>3, <3>1, <3>2, ApplyTyped, WalKeeps, TypedParts
  <2>8. CASE ApplyFails
    <3>1. tail' = NoTailer /\ net' = <<>> /\ ending' = "broken" /\ retried' = TRUE
          /\ fcrashes' = fcrashes
      BY <2>8 DEF ApplyFails
    <3>2. QED
      BY <1>3, <2>8, <3>1, ApplyFailsTyped, WalKeeps, TypedParts
  <2>9. CASE StreamEnds
    <3>1. /\ rep.at = "recv" /\ UNCHANGED <<tail, net, ending, fsegs, fw, ffaults, fcrashes, retried>>
          /\ rep' = [rep EXCEPT !.at = IF ending = "dataloss" THEN "stopped" ELSE "connect"]
      BY <2>9 DEF StreamEnds, streamVars
    <3>2. PICK a \in {"stopped", "connect"} : rep' = [rep EXCEPT !.at = a]
      BY <3>1
    <3>3. RepOK(rep')
      BY <1>3, <3>1, <3>2, Moves
    <3>4. QED
      BY <1>1, <1>3, <3>1, <3>3, WalStays, TypedParts
  <2>10. CASE FollowerCloses
    <3>1. /\ rep.at # "append" /\ rep' = [rep EXCEPT !.at = "closed"] /\ F!Close
          /\ tail' = NoTailer /\ net' = <<>> /\ ending' = "broken"
          /\ UNCHANGED <<ffaults, fcrashes, retried>>
      BY <2>10 DEF FollowerCloses
    <3>2. RepOK(rep') /\ WriterCall
      BY <1>3, <3>1, Moves, FollowerEnds DEF WriterCall
    <3>3. QED
      BY <1>3, <3>1, <3>2, WalKeeps, TypedParts
  <2>11. CASE FollowerHalts
    <3>1. /\ fcrashes < MaxFollowerCrashes /\ fcrashes' = fcrashes + 1 /\ F!Crash
          /\ rep' = NewReplica /\ tail' = NoTailer /\ net' = <<>> /\ ending' = "broken"
          /\ UNCHANGED <<ffaults, retried>>
      BY <2>11 DEF FollowerHalts
    <3>2. RepOK(rep') /\ WriterCall
      BY <3>1, NewTyped, FollowerEnds DEF WriterCall
    <3>3. fcrashes' \in 0 .. MaxFollowerCrashes
      <4>1. MaxFollowerCrashes \in Nat /\ fcrashes \in 0 .. MaxFollowerCrashes
        BY <1>3, ReplicationAssumption
      <4>2. QED
        BY <3>1, <4>1
    <3>4. QED
      BY <1>3, <3>1, <3>2, <3>3, WalKeeps, TypedParts
  <2>12. QED
    BY <2>1, <2>2, <2>3, <2>4, <2>5, <2>6, <2>7, <2>8, <2>9, <2>10, <2>11 DEF FollowerStep
<1>5. Counts'
  BY <1>1, <1>3, <1>4 DEF Counts
<1>6. QED
  BY <1>2, <1>4, <1>5 DEF TInv

LEMMA ReportTyped ==
    ASSUME TInv, ReportProgress \/ UNCHANGED vars PROVE TInv'
<1>1. /\ UNCHANGED primaryVars /\ segs' = segs /\ UNCHANGED <<fsegs, fw>> /\ UNCHANGED <<tail, net, rep>>
      /\ UNCHANGED <<ending, ffaults, fcrashes, raced, rewound, retried>>
      /\ progress' \in {progress, rep.position}
  BY DEF ReportProgress, vars, primaryVars, streamVars, followerVars
<1>2. rep.position \in 0 .. MaxRecords
  BY ReplicaFields DEF TInv, RepOK
<1>3. progress' \in None .. MaxRecords
  <2>1. progress \in None .. MaxRecords
    BY DEF TInv, Counts
  <2>2. rep.position \in None .. MaxRecords
    BY <1>2, LogAssumption DEF None
  <2>3. QED
    BY <1>1, <2>1, <2>2
<1>4. Counts'
  BY <1>1, <1>3 DEF TInv, Counts
<1>5. QED
  BY <1>1, <1>4, PrimaryStays, WalStays, TypedParts DEF TInv

LEMMA NextTyped ==
    ASSUME TInv, Flow, [Next]_vars PROVE TInv'
BY PrimaryTyped, StreamTyped, FollowerTyped, ReportTyped DEF Next

LEMMA InitTyped ==
    ASSUME Init PROVE TInv
<1>1. /\ P!Init /\ tail = NoTailer /\ net = <<>> /\ ending = "broken" /\ progress = None
      /\ fsegs = <<>> /\ fw = F!NoWriter /\ rep = NewReplica /\ ffaults = 0 /\ fcrashes = 0
      /\ raced = FALSE /\ rewound = FALSE /\ retried = FALSE
  BY DEF Init
<1>2. PL!GInv
  BY <1>1, PrimarySteps, LogAssumption, PL!InitGInv
<1>3. FL!WalOK(Recs, MaxRecords)
  <2>1. DOMAIN fsegs = {} /\ fsegs \in [DOMAIN fsegs -> FL!File(Recs)]
    BY <1>1
  <2>2. FL!FilesOf(Recs, MaxRecords, fsegs)
    BY <2>1 DEF FL!FilesOf
  <2>3. fw = FL!NoWriter
    BY <1>1, FollowerReads
  <2>4. /\ fw \in FL!WriterOf(Recs) /\ fw.state = "none" /\ fw.step = "idle"
    BY <2>3 DEF FL!NoWriter, FL!WriterOf, FL!WriterStates, FL!WriterSteps
  <2>5. QED
    BY <2>2, <2>4 DEF FL!WalOK, FL!WalTyped
<1>4. TailOK(segs, NoTailer)
  <2>1. <<>> \in Seq(Recs) /\ 0 \in 0 .. MaxRecords /\ Len(<<>>) = 0
    BY LogAssumption
  <2>2. NoTailer \in Tailer /\ NoTailer.at = "none" /\ NoTailer.out = <<>>
    BY <2>1 DEF NoTailer, Tailer
  <2>3. 0 < BatchCap /\ 0 <= BatchCap
    BY ReplicationAssumption
  <2>4. QED
    BY <2>1, <2>2, <2>3 DEF TailOK
<1>5. Counts
  <2>1. /\ progress \in None .. MaxRecords /\ ffaults \in 0 .. MaxFollowerFaults
        /\ fcrashes \in 0 .. MaxFollowerCrashes
    BY <1>1, LogAssumption, ReplicationAssumption DEF None
  <2>2. QED
    BY <1>1, <2>1 DEF Counts
<1>6. QED
  BY <1>1, <1>2, <1>3, <1>4, <1>5, NoNet, NewTyped DEF TInv

LEMMA RemainsSuffix ==
    ASSUME NEW t \in Seq(Recs), NEW s \in Seq(Recs), Remains(t, s)
    PROVE  IsSuffix(t, s)
<1>1. PICK n \in Nat : n = Len(t)
  OBVIOUS
<1>2. PICK m \in Nat : m = Len(s)
  OBVIOUS
<1>3. n <= m /\ \A k \in 1 .. n : t[k] = s[m - n + k]
  BY <1>1, <1>2 DEF Remains
<1>4. PICK u : u = Reverse(t)
  OBVIOUS
<1>5. PICK v : v = Reverse(s)
  OBVIOUS
<1>6. u \in [1 .. n -> Recs] /\ \A i \in 1 .. n : u[i] = t[(n - i) + 1]
  <2>1. u = [i \in 1 .. n |-> t[(n - i) + 1]]
    BY <1>1, <1>4 DEF Reverse
  <2>2. \A i \in 1 .. n : (n - i) + 1 \in 1 .. n
    OBVIOUS
  <2>3. \A i \in 1 .. n : t[(n - i) + 1] \in Recs
    BY <1>1, <2>2
  <2>4. QED
    BY <2>1, <2>3
<1>7. v \in [1 .. m -> Recs] /\ \A i \in 1 .. m : v[i] = s[(m - i) + 1]
  <2>1. v = [i \in 1 .. m |-> s[(m - i) + 1]]
    BY <1>2, <1>5 DEF Reverse
  <2>2. \A i \in 1 .. m : (m - i) + 1 \in 1 .. m
    OBVIOUS
  <2>3. \A i \in 1 .. m : s[(m - i) + 1] \in Recs
    BY <1>2, <2>2
  <2>4. QED
    BY <2>1, <2>3
<1>8. u \in Seq(Recs) /\ Len(u) = n /\ v \in Seq(Recs) /\ Len(v) = m
  BY <1>6, <1>7
<1>9. ASSUME NEW i \in 1 .. n PROVE u[i] = v[i]
  <2>1. PICK k \in 1 .. n : k = (n - i) + 1
    OBVIOUS
  <2>2. u[i] = t[k] /\ t[k] = s[m - n + k]
    BY <1>3, <1>6, <2>1
  <2>3. i \in 1 .. m /\ m - n + k = (m - i) + 1
    BY <1>3, <2>1
  <2>4. v[i] = s[m - n + k]
    BY <1>7, <2>3
  <2>5. QED
    BY <2>2, <2>4
<1>10. u \in Seq(PL!Records) /\ v \in Seq(PL!Records)
  BY <1>8, SameRecords
<1>11. PL!IsPrefix(u, v)
  BY <1>3, <1>8, <1>9, <1>10, LogAssumption, PL!PrefixElements
<1>12. IsPrefix(u, v)
  BY <1>11 DEF IsPrefix, PL!IsPrefix
<1>13. QED
  BY <1>4, <1>5, <1>12 DEF IsSuffix

LEMMA TypedOK ==
    ASSUME TInv PROVE TypeOK
<1>1. P!TypeOK
  BY LogAssumption, PL!GInvTypeOK, PrimaryReads DEF TInv
<1>2. /\ tail \in Tailer /\ TailOK(segs, tail)
  BY DEF TInv, TailOK
<1>3. /\ tail.at \in {"none", "locate", "read", "advance", "send"}
      /\ tail.at \in {"read", "advance", "send"} => tail.seg \in DOMAIN segs
      /\ tail.off \in 0 .. MaxRecords /\ tail.after \in 0 .. MaxRecords
      /\ tail.out \in Seq(Recs) /\ Len(tail.out) <= BatchCap
  BY <1>2, TailerFields DEF TailOK
<1>4. /\ net \in Seq(Seq(Recs)) /\ Len(net) <= NetCap
      /\ ending \in {"", "broken", "dataloss"}
      /\ progress \in None .. MaxRecords
  BY DEF TInv, NetOK, Counts
<1>5. /\ fw.state \in F!WriterStates /\ fw.step \in F!WriterSteps
      /\ fw.state \in {"open", "latched"} => fw.cur \in DOMAIN fsegs
  BY FollowerReads DEF TInv, FL!WalOK, FL!WalTyped, FL!WriterOf
<1>6. rep \in Replica /\ Remains(rep.todo, rep.fresh)
  BY DEF TInv, RepOK
<1>7. /\ rep.at \in {"start", "open", "connect", "recv", "append", "stopped", "closed"}
      /\ rep.position \in 0 .. MaxRecords
      /\ rep.book \in Seq(Recs) /\ rep.fresh \in Seq(Recs) /\ rep.todo \in Seq(Recs)
  BY <1>6, ReplicaFields
<1>8. IsSuffix(rep.todo, rep.fresh)
  BY <1>6, <1>7, RemainsSuffix
<1>9. QED
  BY <1>1, <1>3, <1>4, <1>5, <1>7, <1>8, SameRecords DEF TypeOK

-----------------------------------------------------------------------------
(* What is under way stays in order.                                       *)

(* A record's number is told by where it is. *)
LEMMA ReadNumber ==
    ASSUME TInv, tail.at = "read", tail.off < Len(segs[tail.seg].recs)
    PROVE  segs[tail.seg].recs[tail.off + 1].seq = tail.seg + tail.off
<1>1. PICK n : n = tail.seg
  OBVIOUS
<1>2. PICK k : k = tail.off + 1
  OBVIOUS
<1>3. n \in DOMAIN segs /\ k \in 1 .. Len(segs[n].recs)
  BY <1>1, <1>2, RecordRead
<1>4. PL!NumberedFrom(segs[n].recs, n)
  BY <1>3 DEF TInv, PL!GInv, PL!SegsOK, PL!FileOK
<1>5. segs[n].recs[k].seq = n + k - 1
  BY <1>3, <1>4 DEF PL!NumberedFrom
<1>6. tail.off \in Nat /\ tail.seg \in Nat
  BY TailerFields DEF TInv, TailOK
<1>7. n + k - 1 = tail.seg + tail.off
  BY <1>1, <1>2, <1>6
<1>8. QED
  BY <1>1, <1>2, <1>5, <1>7

LEMMA StreamFlow ==
    ASSUME TInv, Flow, Reach, StreamStep PROVE FlowOf(rep', net', tail', Complete)
<1>1. rep' = rep
  BY DEF StreamStep, LocateSegment, ReadSegment, SegmentExhausted, DamagedSegment, Advance,
         Send, TailOnly, followerVars
<1>2. /\ FlowOf(rep, net, tail, Complete) /\ tail \in Tailer /\ net \in Seq(Seq(Recs))
      /\ tail.out \in Seq(Recs) /\ tail.after \in 0 .. MaxRecords /\ tail.after \in Nat
      /\ tail.seg \in Nat /\ tail.off \in Nat
  BY TailerFields DEF Flow, TInv, TailOK, NetOK
<1>3. ASSUME net' = net, tail.at # "none", tail'.out = tail.out, tail'.after = tail.after
      PROVE  FlowOf(rep', net', tail', Complete)
  BY <1>1, <1>2, <1>3, FlowSame
<1>4. CASE LocateSegment
  <2>1. /\ net' = net /\ tail.at = "locate"
        /\ tail' = [tail EXCEPT !.at = "read", !.off = 0, !.seg = SegmentOf(tail.after + 1)]
    BY <1>4 DEF LocateSegment
  <2>2. tail'.out = tail.out /\ tail'.after = tail.after
    BY <1>2, <2>1 DEF Tailer
  <2>3. QED
    BY <1>3, <2>1, <2>2
<1>5. CASE SegmentExhausted
  <2>1. net' = net /\ tail.at = "read" /\ tail' = [tail EXCEPT !.at = "advance"]
    BY <1>5 DEF SegmentExhausted
  <2>2. tail'.out = tail.out /\ tail'.after = tail.after
    BY <1>2, <2>1 DEF Tailer
  <2>3. QED
    BY <1>3, <2>1, <2>2
<1>6. CASE Advance
  <2>1. /\ net' = net /\ tail.at = "advance"
        /\ \/ tail' = [tail EXCEPT !.seg = NextSegment, !.off = 0, !.at = "read"]
           \/ tail' = [tail EXCEPT !.at = IF tail.out = <<>> THEN "read" ELSE "send"]
    BY <1>6 DEF Advance
  <2>2. tail'.out = tail.out /\ tail'.after = tail.after
    BY <1>2, <2>1 DEF Tailer
  <2>3. QED
    BY <1>3, <2>1, <2>2
<1>7. CASE DamagedSegment
  <2>1. net' = net /\ tail'.at = "none"
    BY <1>7 DEF DamagedSegment, NoTailer
  <2>2. QED
    BY <1>1, <1>2, <2>1, FlowSame
<1>8. CASE Send
  <2>1. /\ tail.at = "send" /\ net' = Append(net, tail.out)
        /\ tail' = [tail EXCEPT !.out = <<>>, !.at = "read"]
    BY <1>8 DEF Send
  <2>2. tail'.out = <<>> /\ tail'.after = tail.after /\ tail.at # "none"
    BY <1>2, <2>1 DEF Tailer
  <2>3. QED
    BY <1>1, <1>2, <2>1, <2>2, FlowSend
<1>9. CASE ReadSegment
  <2>1. /\ tail.at = "read" /\ tail.off < Len(segs[tail.seg].recs) /\ net' = net
        /\ tail' = IF segs[tail.seg].recs[tail.off + 1].seq <= tail.after
                   THEN [tail EXCEPT !.off = @ + 1]
                   ELSE [tail EXCEPT !.off = @ + 1, !.after = segs[tail.seg].recs[tail.off + 1].seq,
                           !.out = Append(tail.out, segs[tail.seg].recs[tail.off + 1]),
                           !.at = IF Len(Append(tail.out, segs[tail.seg].recs[tail.off + 1])) = BatchCap
                                  THEN "send" ELSE "read"]
    BY <1>9 DEF ReadSegment
  <2>2. PICK r \in Recs : r = segs[tail.seg].recs[tail.off + 1]
    BY <2>1, RecordRead
  <2>3. r.seq = tail.seg + tail.off /\ r.seq \in Nat
    BY <2>1, <2>2, ReadNumber, RecordFields
  <2>4. CASE r.seq <= tail.after
    <3>1. tail' = [tail EXCEPT !.off = @ + 1]
      BY <2>1, <2>2, <2>4
    <3>2. tail'.out = tail.out /\ tail'.after = tail.after
      BY <1>2, <3>1 DEF Tailer
    <3>3. QED
      BY <1>3, <2>1, <3>2
  <2>5. CASE ~(r.seq <= tail.after)
    <3>1. PICK a : a = IF Len(Append(tail.out, r)) = BatchCap THEN "send" ELSE "read"
      OBVIOUS
    <3>2. tail' = [tail EXCEPT !.off = @ + 1, !.after = r.seq, !.out = Append(tail.out, r), !.at = a]
      BY <2>1, <2>2, <2>5, <3>1
    <3>3. tail'.out = Append(tail.out, r) /\ tail'.after = r.seq
      BY <1>2, <3>2 DEF Tailer
    <3>4. tail.after < r.seq
      BY <1>2, <2>3, <2>5
    <3>5. Complete => r.seq = tail.after + 1
      <4>1. Complete => tail.seg + tail.off <= tail.after + 1
        BY <2>1 DEF Reach
      <4>2. QED
        BY <1>2, <2>3, <3>4, <4>1
    <3>6. tail.at # "none"
      BY <2>1
    <3>7. QED
      BY <1>1, <1>2, <2>1, <3>3, <3>4, <3>5, <3>6, FlowRead
  <2>6. QED
    BY <2>4, <2>5
<1>10. QED
  BY <1>4, <1>5, <1>6, <1>7, <1>8, <1>9 DEF StreamStep

LEMMA CutFlow ==
    ASSUME TInv, Flow, StreamCut, rep' = rep PROVE FlowOf(rep', net', tail', Complete)
<1>1. FlowOf(rep, net, tail, Complete) /\ net \in Seq(Seq(Recs))
  BY DEF Flow, TInv, NetOK
<1>2. PICK n \in 0 .. Len(net) : net' = SubSeq(net, 1, n)
  BY DEF StreamCut
<1>3. tail'.at = "none"
  BY DEF StreamCut, NoTailer
<1>4. QED
  BY <1>1, <1>2, <1>3, FlowCut

LEMMA FollowerFlow ==
    ASSUME TInv, Flow, Quiet, FollowerStep \/ FollowerCloses \/ FollowerHalts
    PROVE  FlowOf(rep', net', tail', Complete)
<1>1. /\ FlowOf(rep, net, tail, Complete) /\ net \in Seq(Seq(Recs)) /\ RepOK(rep) /\ rep \in Replica
      /\ rep.position \in 0 .. MaxRecords /\ rep.position \in Nat
  BY ReplicaFields DEF Flow, TInv, NetOK, RepOK
<1>2. ASSUME UNCHANGED <<tail, net>>, rep'.fresh = rep.fresh, rep'.position = rep.position
      PROVE  FlowOf(rep', net', tail', Complete)
  BY <1>1, <1>2, FlowSame
<1>3. CASE Discover
  <2>1. rep.at = "start" /\ rep' = [rep EXCEPT !.at = "open"] /\ UNCHANGED <<tail, net>>
    BY <1>3 DEF Discover, streamVars
  <2>2. rep'.fresh = rep.fresh /\ rep'.position = rep.position
    BY <1>1, <2>1, Moves
  <2>3. QED
    BY <1>2, <2>1, <2>2
<1>4. CASE OpenSymbol
  <2>1. UNCHANGED <<tail, net>> /\ tail = NoTailer /\ net = <<>> /\ rep.at = "open"
    BY <1>4 DEF OpenSymbol, streamVars, Quiet
  <2>2. RepOK(rep')
    BY <1>4, OpenTyped
  <2>3. rep' = rep \/ rep'.at = "connect"
    BY <1>1, <1>4 DEF OpenSymbol, Replica
  <2>4. rep'.fresh = <<>>
    BY <2>1, <2>2, <2>3 DEF RepOK
  <2>5. QED
    BY <2>1, <2>2, <2>4, FlowQuiet
<1>5. CASE OpenSymbolFails
  <2>1. rep.at = "open" /\ rep' = [rep EXCEPT !.at = "stopped"] /\ UNCHANGED <<tail, net>>
    BY <1>5 DEF OpenSymbolFails, streamVars
  <2>2. rep'.fresh = rep.fresh /\ rep'.position = rep.position
    BY <1>1, <2>1, Moves
  <2>3. QED
    BY <1>2, <2>1, <2>2
<1>6. CASE Connect
  <2>1. /\ rep.at = "connect" /\ rep' = [rep EXCEPT !.at = "recv"] /\ net' = <<>>
        /\ tail' = NewTailer(rep.position)
    BY <1>6 DEF Connect
  <2>2. rep'.fresh = <<>> /\ rep'.position = rep.position
    BY <1>1, <2>1, Moves
  <2>3. tail'.out = <<>> /\ tail'.after = rep.position
    BY <2>1 DEF NewTailer
  <2>4. QED
    BY <1>1, <2>1, <2>2, <2>3, FlowStart
<1>7. CASE Receive
  <2>1. /\ rep.at = "recv" /\ net # <<>> /\ net' = Tail(net) /\ tail' = tail
        /\ rep' = [rep EXCEPT !.fresh = Fresh(Head(net)), !.todo = Fresh(Head(net)),
                              !.at = IF Fresh(Head(net)) = <<>> THEN "recv" ELSE "append"]
    BY <1>7 DEF Receive
  <2>2. Fresh(Head(net)) = net[1]
    BY <2>1, WholeBatch
  <2>3. rep'.fresh = net[1] /\ rep'.position = rep.position
    BY <1>1, <2>1, <2>2 DEF Replica
  <2>4. rep.fresh = <<>>
    BY <1>1, <2>1 DEF RepOK
  <2>5. QED
    BY <1>1, <2>1, <2>3, <2>4, FlowReceive
<1>8. CASE AppendRecord
  <2>1. UNCHANGED <<tail, net>>
    BY <1>8 DEF AppendRecord, streamVars
  <2>2. QED
    BY <1>2, <1>8, <2>1, AppendTyped
<1>9. CASE SyncAndApply
  <2>1. rep.at = "append" /\ rep.todo = <<>> /\ rep' = Applied /\ UNCHANGED <<tail, net>>
    BY <1>9 DEF SyncAndApply, streamVars
  <2>2. /\ rep'.position = rep.fresh[Len(rep.fresh)].seq /\ rep'.fresh = <<>>
        /\ rep.fresh \in Seq(Recs) /\ Len(rep.fresh) \in 1 .. Len(rep.fresh)
    BY <2>1, ApplyTyped
  <2>3. QED
    BY <1>1, <2>1, <2>2, FlowApply
<1>10. CASE ApplyFails
  <2>1. tail' = NoTailer /\ net' = <<>>
    BY <1>10 DEF ApplyFails
  <2>2. QED
    BY <1>10, <2>1, ApplyFailsTyped, FlowQuiet
<1>11. CASE StreamEnds
  <2>1. rep.at = "recv" /\ UNCHANGED <<tail, net>>
        /\ rep' = [rep EXCEPT !.at = IF ending = "dataloss" THEN "stopped" ELSE "connect"]
    BY <1>11 DEF StreamEnds, streamVars
  <2>2. PICK a \in {"stopped", "connect"} : rep' = [rep EXCEPT !.at = a]
    BY <2>1
  <2>3. rep'.fresh = rep.fresh /\ rep'.position = rep.position
    BY <1>1, <2>1, <2>2, Moves
  <2>4. QED
    BY <1>2, <2>1, <2>3
<1>12. CASE FollowerCloses
  <2>1. rep.at # "append" /\ rep' = [rep EXCEPT !.at = "closed"] /\ tail' = NoTailer /\ net' = <<>>
    BY <1>12 DEF FollowerCloses
  <2>2. RepOK(rep') /\ rep'.fresh = <<>>
    BY <1>1, <2>1, Moves
  <2>3. QED
    BY <2>1, <2>2, FlowQuiet
<1>13. CASE FollowerHalts
  <2>1. rep' = NewReplica /\ tail' = NoTailer /\ net' = <<>>
    BY <1>13 DEF FollowerHalts
  <2>2. QED
    BY <2>1, NewTyped, FlowQuiet
<1>14. QED
  BY <1>3, <1>4, <1>5, <1>6, <1>7, <1>8, <1>9, <1>10, <1>11, <1>12, <1>13 DEF FollowerStep

LEMMA NextFlow ==
    ASSUME TInv, Flow, Reach, Quiet, [Next]_vars PROVE Flow'
<1>1. Complete' => Complete
  BY RacedStays DEF Complete
<1>2. FlowOf(rep', net', tail', Complete)
  <2>1. CASE PrimaryStep \/ ReportProgress \/ UNCHANGED vars
    BY <2>1 DEF PrimaryStep, ReportProgress, vars, streamVars, followerVars, Flow
  <2>2. CASE PrimaryHalts
    <3>1. rep' = rep /\ (StreamCut \/ UNCHANGED <<tail, net>>)
      BY <2>2 DEF PrimaryHalts, followerVars
    <3>2. QED
      BY <3>1, CutFlow DEF Flow
  <2>3. CASE ConnectionBreaks
    BY <2>3, CutFlow DEF ConnectionBreaks
  <2>4. CASE StreamStep
    BY <2>4, StreamFlow
  <2>5. CASE FollowerStep \/ FollowerCloses \/ FollowerHalts
    BY <2>5, FollowerFlow
  <2>6. QED
    BY <2>1, <2>2, <2>3, <2>4, <2>5 DEF Next
<1>3. FlowOf(rep', net', tail', Complete')
  BY <1>1, <1>2, FlowWeaker
<1>4. QED
  BY <1>3 DEF Flow

=============================================================================
