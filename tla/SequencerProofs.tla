-------------------------- MODULE SequencerProofs ---------------------------
(***************************************************************************)
(* Module Sequencer, for any number of callers, calls and crashes and any  *)
(* size of a batch.  First: nothing acknowledged can be lost, the book is  *)
(* never ahead of the disk and never rewound, and log positions are dense. *)
(* Then: reply channels are pooled and calls are abandoned half way, and   *)
(* still nobody gets another's answer, no pooled channel holds one, and    *)
(* the goroutine never waits for a caller; and the position a snapshot is  *)
(* labelled with covers what it shows.  Last: a call takes effect at most  *)
(* once, order identifiers ascend along the log, and the sequencer         *)
(* implements SequencerSpec.                                               *)
(***************************************************************************)
EXTENDS Sequencer, SequenceTheorems, FiniteSetTheorems, WellFoundedInduction, TLAPS

(***************************************************************************)
(* The inductive invariant.                                                *)
(***************************************************************************)

(* A channel is made for a call, so there are no more of them than calls. *)
ChannelsCounted ==
    /\ made <= calls
    /\ pool \subseteq 1 .. made
    /\ \A c \in Callers : cpc[c] # "idle" => creq[c].reply \in 1 .. made

(* The identifiers in the log have an upper bound (for the maximum that
   recovery computes to exist). *)
IDsBounded == \E b \in Nat : \A k \in 1 .. Len(log) : log[k].orderID <= b

(* What is on the disk is in the file, what is in the file was appended. *)
Watermarks == synced <= flushed /\ flushed <= Len(log)

(* Between batches a sequencer whose log works has applied all it logged. *)
Idle ==
    pc \in {"select", "drain"} /\ ~walErr =>
        /\ seq = Len(log) /\ synced = Len(log)
        /\ Len(applied) = Len(log)

(* Neither of the requests between i and j is logged. *)
NoneBetween(i, j) == \A h \in 1 .. Len(batch) : i < h /\ h < j => ~Logged(batch[h])

(* The logged requests before m have the positions startSeq + 1, ..., seq in
   turn, and their records are in the log at these positions. *)
Numbered(m) ==
    /\ NoneBetween(0, m) => seq = startSeq
    /\ \A j \in 1 .. Len(batch) : j < m /\ Logged(batch[j]) =>
         /\ batch[j].seq \in 1 .. Len(log)
         /\ log[batch[j].seq] = RecordOf(batch[j])
         /\ NoneBetween(0, j) => batch[j].seq = startSeq + 1
         /\ NoneBetween(j, m) => batch[j].seq = seq
         /\ \A i \in 1 .. Len(batch) : i < j /\ Logged(batch[i]) /\ NoneBetween(i, j) =>
              batch[j].seq = batch[i].seq + 1

(* While a batch is logged the book stays where it was, and the log has grown
   by the requests before next. *)
Logging ==
    pc = "log" =>
        /\ ~walErr
        /\ next <= Len(batch) + 1
        /\ seq = Len(log)
        /\ Len(applied) = startSeq
        /\ Numbered(next)

(* While a logged batch is applied all of it is on the disk, and the next
   request to apply is the one at the book's next position. *)
Replying ==
    pc = "apply" /\ ~walErr =>
        /\ seq = Len(log) /\ synced = Len(log)
        /\ Numbered(Len(batch) + 1)
        /\ NoneBetween(next - 1, Len(batch) + 1) => Len(applied) = seq
        /\ \A j \in 1 .. Len(batch) :
             next <= j /\ Logged(batch[j]) /\ NoneBetween(next - 1, j) =>
                 batch[j].seq = Len(applied) + 1

Safe ==
    /\ IDsBounded /\ Watermarks /\ PositionsDense
    /\ Idle /\ Logging /\ Replying
    /\ AppliedIsDurable /\ AckedIsDurable

IInv == TypeOK /\ ChannelsCounted /\ Safe

-----------------------------------------------------------------------------
(* Facts about requests, records and the log.                              *)

LEMMA NewRequestType ==
    ASSUME NEW kind \in Kinds, NEW call \in Calls, NEW ch \in Channels
    PROVE  NewRequest(kind, call, ch) \in Request
BY DEF NewRequest, Request

(* The record of a request that is logged. *)
LEMMA RecordOfType ==
    ASSUME NEW req \in Request, Logged(req)
    PROVE  RecordOf(req) \in Record
BY DEF Request, Logged, RecordOf, Record, Kinds

(* Giving a request its position keeps it a request, and one to be logged. *)
LEMMA PositionedRequest ==
    ASSUME NEW req \in Request, NEW n \in Nat
    PROVE  /\ [req EXCEPT !.seq = n] \in Request
           /\ [req EXCEPT !.seq = n].seq = n
           /\ Logged([req EXCEPT !.seq = n]) <=> Logged(req)
BY DEF Request, Logged

(* Giving a request its identifier and the verdict of the pre-trade check. *)
LEMMA CheckedRequest ==
    ASSUME NEW req \in Request, NEW id \in Nat, NEW no \in BOOLEAN
    PROVE  Checked(req, id, no) \in Request
BY DEF Request, Checked

(* The count of the submits of a batch is a number. *)
LEMMA SubmitsType ==
    ASSUME NEW k \in Nat
    PROVE  Submits(k) \in Nat
<1> DEFINE S == { j \in 1 .. k : batch[j].kind = "submit" }
<1>1. IsFiniteSet(1 .. k)
  BY FS_Interval
<1>2. IsFiniteSet(S)
  BY <1>1, FS_Subset
<1>3. Cardinality(S) \in Nat
  BY <1>2, FS_CardinalityType
<1>4. QED
  BY <1>3 DEF Submits

(* A set of naturals with an upper bound and the element 0 has a maximum. *)
LEMMA MaximumExists ==
    ASSUME NEW S \in SUBSET Nat, 0 \in S, NEW b \in Nat, \A n \in S : n <= b
    PROVE  \E m \in S : \A n \in S : n <= m
<1> DEFINE U == { u \in Nat : \A n \in S : n <= u }
<1>1. IsWellFoundedOn(OpToRel(<, Nat), Nat)
  BY NatLessThanWellFounded
<1>2. U \subseteq Nat /\ U # {}
  OBVIOUS
<1>3. PICK u \in U : \A v \in U : ~(<<v, u>> \in OpToRel(<, Nat))
  BY <1>1, <1>2, WFMin
<1>4. \A v \in U : ~(v < u)
  BY <1>3 DEF OpToRel
<1>5. u \in S
  <2>1. SUFFICES ASSUME u \notin S PROVE FALSE
    OBVIOUS
  <2>2. u # 0 /\ u \in Nat
    BY <2>1
  <2>3. \A n \in S : n <= u - 1
    BY <2>1, <2>2
  <2>4. u - 1 \in U
    BY <2>2, <2>3
  <2>5. QED
    BY <2>2, <2>4, <1>4
<1>6. QED
  BY <1>5

(* The highest identifier of a log whose identifiers are bounded. *)
LEMMA MaxIDType ==
    ASSUME log \in Seq(Record), IDsBounded
    PROVE  MaxID(log) \in Nat
<1> DEFINE ids == {0} \cup { log[k].orderID : k \in DOMAIN log }
<1>1. DOMAIN log = 1 .. Len(log) /\ \A k \in 1 .. Len(log) : log[k].orderID \in Nat
  <2>1. \A k \in 1 .. Len(log) : log[k] \in Record
    BY ElementOfSeq
  <2>2. DOMAIN log = 1 .. Len(log)
    BY LenProperties
  <2>3. QED
    BY <2>1, <2>2 DEF Record
<1>2. ids \in SUBSET Nat /\ 0 \in ids
  BY <1>1
<1>3. PICK b \in Nat : \A k \in 1 .. Len(log) : log[k].orderID <= b
  BY DEF IDsBounded
<1>4. \A n \in ids : n <= b
  BY <1>1, <1>3
<1> HIDE DEF ids
<1>5. \E m \in ids : \A n \in ids : n <= m
  BY <1>2, <1>4, MaximumExists
<1>6. (CHOOSE m \in ids : \A n \in ids : n <= m) \in Nat
  BY <1>2, <1>5
<1>7. QED
  BY <1>6 DEF MaxID, ids

(* What is left of a log that is cut off. *)
LEMMA CutLog ==
    ASSUME NEW s \in Seq(Record), NEW n \in 0 .. Len(s)
    PROVE  /\ SubSeq(s, 1, n) \in Seq(Record)
           /\ Len(SubSeq(s, 1, n)) = n
           /\ \A k \in 1 .. n : SubSeq(s, 1, n)[k] = s[k]
<1>1. n \in Int /\ \A i \in 1 .. n : s[i] \in Record
  OBVIOUS
<1>2. QED
  BY <1>1, SubSeqProperties

-----------------------------------------------------------------------------
(* Steps that leave the log, the book and the goroutine alone.             *)

(* A step of a caller disturbs none of what is between the log and the book. *)
LEMMA CallersDoNotDisturb ==
    ASSUME Safe,
           UNCHANGED <<pc, batch, next, seq, startSeq, walErr, log, flushed, synced,
                       applied, acked>>
    PROVE  Safe'
<1>1. IDsBounded' /\ Watermarks' /\ PositionsDense'
  BY DEF Safe, IDsBounded, Watermarks, PositionsDense
<1>2. Idle' /\ AppliedIsDurable' /\ AckedIsDurable'
  BY DEF Safe, Idle, AppliedIsDurable, AckedIsDurable
<1>3. ASSUME NEW i, NEW j PROVE NoneBetween(i, j)' <=> NoneBetween(i, j)
  BY DEF NoneBetween, Logged
<1>4. ASSUME NEW m PROVE Numbered(m)' <=> Numbered(m)
  BY DEF Numbered, NoneBetween, Logged, RecordOf
<1>5. Logging'
  BY <1>4 DEF Safe, Logging
<1>6. Replying'
  BY <1>3, <1>4 DEF Safe, Replying, Logged
<1>7. QED
  BY <1>1, <1>2, <1>5, <1>6 DEF Safe

LEMMA InitIInv == Init => IInv
<1> SUFFICES ASSUME Init PROVE IInv
  OBVIOUS
<1>1. TypeOK
  <2>1. creq \in [Callers -> Request \cup {NoRequest}]
    BY DEF Init
  <2>2. chan \in [Channels -> Seq(Result)]
    BY DEF Init
  <2>3. calls \in 0 .. MaxCalls /\ made \in 0 .. MaxCalls /\ crashes \in 0 .. MaxCrashes
    BY MaxCallsAssumption, MaxCrashesAssumption DEF Init
  <2>4. /\ cpc \in [Callers -> {"idle", "sending", "waiting"}]
        /\ \A c \in Callers : cpc[c] = "idle"
    BY DEF Init
  <2>5. /\ batch \in Seq(Request) /\ log \in Seq(Record) /\ applied \in Seq(Record)
    BY DEF Init
  <2>6. walErr \in BOOLEAN /\ stopReq \in BOOLEAN
    BY DEF Init
  <2>7. /\ next \in Nat \ {0} /\ seq \in Nat /\ startSeq \in Nat /\ nextOrderID \in Nat
        /\ lastPos \in Nat /\ flushed \in Nat /\ synced \in Nat
    BY DEF Init
  <2>8. QED
    BY <2>1, <2>2, <2>3, <2>4, <2>5, <2>6, <2>7, Zenon DEF Init, TypeOK
<1>2. ChannelsCounted
  BY DEF Init, ChannelsCounted
<1>3. Safe
  BY DEF Init, Safe, IDsBounded, Watermarks, PositionsDense, Idle, Logging, Replying,
         AppliedIsDurable, AckedIsDurable
<1>4. QED
  BY <1>1, <1>2, <1>3 DEF IInv

(* do: a call takes a pooled channel or makes one. *)
LEMMA CallIInv ==
    ASSUME IInv, NEW c \in Callers, NEW kind \in Kinds, Call(c, kind)
    PROVE  IInv'
<1>1. PICK ch \in pool \cup {made + 1} :
        /\ creq' = [creq EXCEPT ![c] = NewRequest(kind, calls + 1, ch)]
        /\ pool' = pool \ {ch}
        /\ made' = IF ch > made THEN ch ELSE made
  BY DEF Call
<1>2. calls < MaxCalls /\ calls' = calls + 1 /\ calls \in Nat /\ made \in Nat /\ made <= calls
  BY MaxCallsAssumption DEF Call, IInv, TypeOK, ChannelsCounted
<1>3. ch \in Channels /\ calls + 1 \in Calls
  BY <1>2, MaxCallsAssumption DEF IInv, TypeOK, Channels, Calls
<1>4. NewRequest(kind, calls + 1, ch) \in Request
  BY <1>3, NewRequestType
<1>5. made' \in 0 .. MaxCalls /\ made' <= calls'
  <2>1. CASE ch \in pool
    \* A pooled channel was made before.
    BY <2>1, <1>1, <1>2 DEF IInv, TypeOK, ChannelsCounted
  <2>2. CASE ch = made + 1
    BY <2>2, <1>1, <1>2, MaxCallsAssumption
  <2>3. QED
    BY <2>1, <2>2
<1>6. TypeOK'
  BY <1>1, <1>2, <1>4, <1>5, MaxCallsAssumption
     DEF IInv, TypeOK, Call, seqVars, logVars, history
<1>7. Safe'
  BY CallersDoNotDisturb DEF IInv, Call, seqVars, logVars, history
<1>8. ChannelsCounted'
  <2>1. ch \in 1 .. made' /\ 1 .. made \subseteq 1 .. made'
    BY <1>1, <1>2, <1>3, <1>5 DEF Channels
  <2>2. creq'[c].reply \in 1 .. made'
    BY <2>1, <1>1 DEF NewRequest, IInv, TypeOK
  <2>3. \A d \in Callers : cpc'[d] # "idle" => creq'[d].reply \in 1 .. made'
    BY <2>1, <2>2, <1>1 DEF IInv, TypeOK, ChannelsCounted, Call
  <2>4. QED
    BY <2>1, <2>3, <1>1, <1>5 DEF IInv, ChannelsCounted
<1>9. QED
  BY <1>6, <1>7, <1>8 DEF IInv

(* do: the caller leaves with or without an answer, and the channel goes back
   to the pool or is dropped. *)
LEMMA LeaveIInv ==
    ASSUME IInv, NEW c \in Callers, Leave(c), cpc[c] # "idle",
           pool' = pool \/ pool' = pool \cup {creq[c].reply},
           chan' \in [Channels -> Seq(Result)]
    PROVE  IInv'
<1>1. creq[c] \in Request /\ creq[c].reply \in Channels
  BY DEF IInv, TypeOK, Request
<1>2. TypeOK'
  <2>1. creq' \in [Callers -> Request \cup {NoRequest}]
    BY DEF Leave, IInv, TypeOK
  <2>2. /\ cpc' \in [Callers -> {"idle", "sending", "waiting"}]
        /\ \A d \in Callers : cpc'[d] # "idle" => creq'[d] \in Request
    BY DEF Leave, IInv, TypeOK
  <2>3. pool' \subseteq Channels
    BY <1>1 DEF IInv, TypeOK
  <2>4. QED
    BY <2>1, <2>2, <2>3 DEF Leave, IInv, TypeOK, seqVars, logVars, history
<1>3. ChannelsCounted'
  <2>1. creq[c].reply \in 1 .. made
    BY DEF IInv, ChannelsCounted
  <2>2. \A d \in Callers : cpc'[d] # "idle" => creq'[d].reply \in 1 .. made
    BY DEF Leave, IInv, TypeOK, ChannelsCounted
  <2>3. QED
    BY <2>1, <2>2 DEF Leave, IInv, ChannelsCounted
<1>4. Safe'
  BY CallersDoNotDisturb DEF Leave, IInv, seqVars, logVars, history
<1>5. QED
  BY <1>2, <1>3, <1>4 DEF IInv

LEMMA CallerIInv ==
    ASSUME IInv, NEW c \in Callers, CallerStep(c)
    PROVE  IInv'
<1>1. chan \in [Channels -> Seq(Result)]
  BY DEF IInv, TypeOK
<1>2. CASE \E kind \in Kinds : Call(c, kind)
  BY <1>2, CallIInv
<1>3. CASE RefusedClosed(c) \/ CancelSending(c)
  BY <1>1, <1>3, LeaveIInv DEF RefusedClosed, CancelSending, GiveUpSending
<1>4. CASE GetReply(c)
  <2>1. creq[c].reply \in Channels
    BY <1>4 DEF GetReply, IInv, TypeOK, Request
  <2>2. Tail(chan[creq[c].reply]) \in Seq(Result)
    BY <1>1, <1>4, <2>1, HeadTailProperties DEF GetReply
  <2>3. chan' \in [Channels -> Seq(Result)]
    BY <1>1, <1>4, <2>2 DEF GetReply
  <2>4. QED
    BY <1>4, <2>3, LeaveIInv DEF GetReply
<1>5. CASE CancelWaiting(c)
  BY <1>1, <1>5, LeaveIInv DEF CancelWaiting
<1>6. QED
  BY <1>2, <1>3, <1>4, <1>5 DEF CallerStep

(* Close is called. *)
LEMMA RequestStopIInv ==
    ASSUME IInv, RequestStop
    PROVE  IInv'
<1>1. TypeOK'
  BY DEF RequestStop, IInv, TypeOK, callerVars, poolVars, seqVars, logVars, history
<1>2. ChannelsCounted'
  BY DEF RequestStop, IInv, ChannelsCounted, callerVars, poolVars
<1>3. Safe'
  BY CallersDoNotDisturb DEF RequestStop, IInv, seqVars, logVars, history
<1>4. QED
  BY <1>1, <1>2, <1>3 DEF IInv

-----------------------------------------------------------------------------
(* The goroutine.                                                          *)

(* run and drain: the batch grows, the log and the book are at rest. *)
LEMMA TakeIInv ==
    ASSUME IInv, NEW c \in Callers, Receive(c) \/ Drain(c)
    PROVE  IInv'
<1>1. creq[c] \in Request
  BY DEF Receive, Drain, Take, IInv, TypeOK
<1>2. batch' \in Seq(Request)
  <2>1. CASE Receive(c)
    BY <1>1, <2>1 DEF Receive
  <2>2. CASE Drain(c)
    BY <1>1, <2>2, AppendProperties DEF Drain, IInv, TypeOK
  <2>3. QED
    BY <2>1, <2>2
<1>3. Take(c) /\ pc \in {"select", "drain"}
  BY DEF Receive, Drain
<1>4. TypeOK'
  BY <1>2, <1>3 DEF Take, IInv, TypeOK, poolVars, seqVars, logVars, history
<1>5. ChannelsCounted'
  BY <1>3 DEF Take, IInv, TypeOK, ChannelsCounted, poolVars
<1>6. Safe'
  BY <1>3 DEF Take, IInv, Safe, IDsBounded, Watermarks, PositionsDense, Idle, Logging,
              Replying, AppliedIsDurable, AckedIsDurable, seqVars, logVars, history
<1>7. QED
  BY <1>4, <1>5, <1>6 DEF IInv

(* commit begins. *)
LEMMA PrepareIInv ==
    ASSUME IInv, Prepare
    PROVE  IInv'
<1>1. PICK rejected \in SUBSET { k \in DOMAIN batch : batch[k].kind = "submit" } :
        batch' = [ k \in DOMAIN batch |->
                    Checked(batch[k], nextOrderID + Submits(k), k \in rejected) ]
  BY DEF Prepare
<1>2. /\ DOMAIN batch = 1 .. Len(batch) /\ Len(batch) \in Nat
      /\ \A k \in 1 .. Len(batch) : batch[k] \in Request
  BY ElementOfSeq, LenProperties DEF IInv, TypeOK
<1>3. ASSUME NEW k \in DOMAIN batch
      PROVE  Checked(batch[k], nextOrderID + Submits(k), k \in rejected) \in Request
  <2>1. nextOrderID + Submits(k) \in Nat
    <3>1. k \in Nat
      BY <1>2
    <3>2. Submits(k) \in Nat
      BY <3>1, SubmitsType
    <3>3. QED
      BY <3>2 DEF IInv, TypeOK
  <2>2. (k \in rejected) \in BOOLEAN
    OBVIOUS
  <2>3. QED
    BY <1>2, <2>1, <2>2, CheckedRequest
<1>4. batch' \in Seq(Request)
  <2>1. batch' \in [1 .. Len(batch) -> Request]
    BY <1>1, <1>2, <1>3
  <2>2. QED
    BY <1>2, <2>1, SeqDef
<1>5. nextOrderID' \in Nat
  <2>1. Submits(Len(batch)) \in Nat
    BY <1>2, SubmitsType
  <2>2. QED
    BY <2>1 DEF Prepare, IInv, TypeOK
<1>6. TypeOK'
  BY <1>4, <1>5 DEF Prepare, IInv, TypeOK, callerVars, poolVars, logVars, history
<1>7. Numbered(1)'
  BY <1>4 DEF Numbered, Prepare
<1>8. Idle' /\ Logging' /\ Replying'
  <2>1. UNCHANGED <<walErr, seq, log, applied>> /\ pc = "drain" /\ next' = 1 /\ startSeq' = seq
    BY DEF Prepare, logVars
  <2>2. Len(batch') \in Nat
    BY <1>4
  <2>3. CASE walErr
    BY <2>1, <2>3 DEF Prepare, Idle, Logging, Replying
  <2>4. CASE ~walErr
    <3>1. seq = Len(log) /\ Len(applied) = Len(log) /\ pc' = "log"
      BY <2>1, <2>4 DEF IInv, Safe, Idle, Prepare
    <3>2. Logging'
      BY <1>7, <2>1, <2>2, <2>4, <3>1 DEF Logging
    <3>3. QED
      BY <3>1, <3>2 DEF Idle, Replying
  <2>5. QED
    BY <2>3, <2>4
<1>9. Safe'
  BY <1>8 DEF Prepare, IInv, Safe, IDsBounded, Watermarks, PositionsDense,
              AppliedIsDurable, AckedIsDurable, logVars, history
<1>10. ChannelsCounted'
  BY DEF Prepare, IInv, ChannelsCounted, callerVars, poolVars
<1>11. QED
  BY <1>6, <1>9, <1>10 DEF IInv

(* logBatch passes over a request. *)
LEMMA SkipRecordIInv ==
    ASSUME IInv, SkipRecord
    PROVE  IInv'
<1>1. TypeOK' /\ ChannelsCounted'
  BY DEF SkipRecord, IInv, TypeOK, ChannelsCounted, callerVars, poolVars, seqVars, logVars,
         history
<1>2. /\ next \in Nat /\ next <= Len(batch) /\ ~Logged(batch[next])
      /\ Len(batch) \in Nat /\ Numbered(next) /\ next' = next + 1
  BY DEF SkipRecord, IInv, TypeOK, Safe, Logging
<1>3. UNCHANGED <<batch, seq, startSeq, log>>
  BY DEF SkipRecord, seqVars, logVars
<1>4. ASSUME NEW i, NEW j PROVE NoneBetween(i, j)' <=> NoneBetween(i, j)
  BY <1>3 DEF NoneBetween, Logged
<1>5. ASSUME NEW i \in Nat, NoneBetween(i, next + 1) PROVE NoneBetween(i, next)
  BY <1>2, <1>5 DEF NoneBetween
<1>6. Numbered(next)'
  <2>1. NoneBetween(0, next)' => seq' = startSeq'
    BY <1>2, <1>3, <1>4, <1>5 DEF Numbered
  <2>2. ASSUME NEW j \in 1 .. Len(batch), j < next + 1, Logged(batch[j])
        PROVE  /\ batch[j].seq \in 1 .. Len(log)
               /\ log[batch[j].seq] = RecordOf(batch[j])
               /\ NoneBetween(0, j) => batch[j].seq = startSeq + 1
               /\ NoneBetween(j, next + 1) => batch[j].seq = seq
               /\ \A i \in 1 .. Len(batch) : i < j /\ Logged(batch[i]) /\ NoneBetween(i, j) =>
                    batch[j].seq = batch[i].seq + 1
    <3>1. j < next
      BY <1>2, <2>2
    <3>2. QED
      BY <1>2, <1>5, <2>2, <3>1 DEF Numbered
  <2>3. QED
    BY <1>2, <1>3, <1>4, <2>1, <2>2 DEF Numbered
<1>7. Logging'
  <2>1. /\ pc = "log" /\ ~walErr /\ seq = Len(log) /\ Len(applied) = startSeq
    BY DEF SkipRecord, IInv, Safe, Logging
  <2>2. UNCHANGED <<walErr, seq, log, applied, startSeq, batch>>
    BY DEF SkipRecord, seqVars, logVars
  <2>3. QED
    BY <1>2, <1>6, <2>1, <2>2 DEF Logging
<1>8. Safe'
  BY <1>7 DEF SkipRecord, IInv, Safe, IDsBounded, Watermarks, PositionsDense, Idle, Replying,
              AppliedIsDurable, AckedIsDurable, seqVars, logVars, history
<1>9. QED
  BY <1>1, <1>8 DEF IInv

(* The log is cut off above what is synced, or only its watermarks move, and
   the goroutine will not log anything more: what was acknowledged stays. *)
LEMMA CutIsSafe ==
    ASSUME TypeOK, Safe,
           NEW n \in synced .. Len(log), log' = SubSeq(log, 1, n),
           synced' \in Nat, flushed' \in Nat,
           synced <= synced', synced' <= flushed', flushed' <= n,
           UNCHANGED <<applied, acked>>,
           (walErr' /\ pc' = "apply") \/ pc' \in {"stopped", "down"}
    PROVE  Safe' /\ log' \in Seq(Record)
<1>1. log \in Seq(Record) /\ synced \in Nat /\ Len(log) \in Nat /\ applied \in Seq(Record)
  BY DEF TypeOK
<1>2. n \in 0 .. Len(log)
  BY <1>1
<1>3. /\ log' \in Seq(Record) /\ Len(log') = n
      /\ \A k \in 1 .. n : log'[k] = log[k]
  BY <1>1, <1>2, CutLog
<1>4. IDsBounded' /\ Watermarks' /\ PositionsDense'
  <2>1. PICK b \in Nat : \A k \in 1 .. Len(log) : log[k].orderID <= b
    BY DEF Safe, IDsBounded
  <2>2. \A k \in 1 .. n : log'[k].orderID <= b
    BY <1>1, <1>2, <1>3, <2>1
  <2>3. IDsBounded'
    BY <1>3, <2>2 DEF IDsBounded
  <2>4. QED
    BY <1>1, <1>2, <1>3, <2>3 DEF Safe, Watermarks, PositionsDense
<1>5. Idle' /\ Logging' /\ Replying'
  BY DEF Idle, Logging, Replying
<1>6. AppliedIsDurable'
  BY <1>1, <1>2, <1>3 DEF Safe, AppliedIsDurable
<1>7. AckedIsDurable'
  BY <1>1, <1>2, <1>3 DEF Safe, AckedIsDurable
<1>8. QED
  BY <1>3, <1>4, <1>5, <1>6, <1>7 DEF Safe

(* A log that is left as it is is cut off at its end. *)
LEMMA UncutLog ==
    ASSUME TypeOK, UNCHANGED log
    PROVE  log' = SubSeq(log, 1, Len(log))
BY SubSeqFull DEF TypeOK

(* logBatch appends the next record, at position seq + 1. *)
LEMMA AppendRecordIInv ==
    ASSUME IInv, AppendRecord
    PROVE  IInv'
<1> DEFINE new == [batch[next] EXCEPT !.seq = seq + 1]
<1>1. /\ pc = "log" /\ ~walErr /\ seq = Len(log) /\ Len(applied) = startSeq
      /\ next \in Nat \ {0} /\ next <= Len(batch) /\ Logged(batch[next])
      /\ seq \in Nat /\ startSeq \in Nat /\ Numbered(next)
      /\ batch \in Seq(Request) /\ log \in Seq(Record) /\ applied \in Seq(Record)
      /\ flushed \in Nat /\ synced \in Nat /\ synced <= flushed /\ flushed <= Len(log)
  BY DEF AppendRecord, IInv, TypeOK, Safe, Logging, Watermarks
<1>2. next \in 1 .. Len(batch) /\ Len(batch) \in Nat /\ batch[next] \in Request
  BY <1>1, ElementOfSeq, LenProperties
<1>3. new \in Request /\ new.seq = seq + 1 /\ Logged(new)
  <2>1. seq + 1 \in Nat
    BY <1>1
  <2>2. QED
    BY <1>1, <1>2, <2>1, PositionedRequest, Zenon
<1>4. batch' = [batch EXCEPT ![next] = new] /\ log' = Append(log, RecordOf(new))
  BY DEF AppendRecord
<1>5. UNCHANGED <<pc, startSeq, walErr, applied, acked>> /\ seq' = seq + 1 /\ next' = next + 1
  BY DEF AppendRecord, history
<1>6. flushed' \in Nat /\ synced' \in Nat /\ synced <= synced' /\ synced' <= flushed'
      /\ flushed' <= Len(log) + 1
  BY <1>1 DEF AppendRecord
<1> HIDE DEF new
<1>7. RecordOf(new) \in Record /\ RecordOf(new).seq = seq + 1 /\ RecordOf(new).orderID \in Nat
  BY <1>3, RecordOfType DEF RecordOf, Record
<1>8. /\ log' \in Seq(Record) /\ Len(log') = Len(log) + 1
      /\ log'[Len(log) + 1] = RecordOf(new)
      /\ \A k \in 1 .. Len(log) : log'[k] = log[k]
  BY <1>1, <1>4, <1>7, AppendProperties
<1>9. /\ batch' \in Seq(Request) /\ Len(batch') = Len(batch)
      /\ batch'[next] = new
      /\ \A j \in 1 .. Len(batch) : j # next => batch'[j] = batch[j]
  BY <1>1, <1>2, <1>3, <1>4, ExceptSeq
<1>10. TypeOK'
  <2>1. UNCHANGED <<cpc, creq, calls, pool, made, chan, pc, startSeq, nextOrderID, walErr,
                    lastPos, stopReq, writer, applied, acked, refused, crashes>>
    BY DEF AppendRecord, callerVars, poolVars, history
  <2>2. seq' \in Nat /\ next' \in Nat \ {0}
    BY <1>1, <1>5
  <2>3. QED
    BY <1>6, <1>8, <1>9, <2>1, <2>2 DEF IInv, TypeOK
<1>11. ChannelsCounted'
  BY DEF AppendRecord, IInv, ChannelsCounted, callerVars, poolVars
<1>12. \A j \in 1 .. Len(batch) : Logged(batch'[j]) <=> Logged(batch[j])
  BY <1>1, <1>3, <1>9
<1>13. ASSUME NEW i, NEW j PROVE NoneBetween(i, j)' <=> NoneBetween(i, j)
  BY <1>9, <1>12 DEF NoneBetween
<1>14. ASSUME NEW i \in Nat, i < next PROVE ~NoneBetween(i, next + 1)
  BY <1>1, <1>2, <1>14 DEF NoneBetween
<1>15. Numbered(next)'
  <2>1. ASSUME NEW j \in 1 .. Len(batch), j < next + 1, Logged(batch[j])
        PROVE  /\ batch'[j].seq \in 1 .. Len(log')
               /\ log'[batch'[j].seq] = RecordOf(batch'[j])
               /\ NoneBetween(0, j) => batch'[j].seq = startSeq + 1
               /\ NoneBetween(j, next + 1) => batch'[j].seq = seq + 1
               /\ \A i \in 1 .. Len(batch) : i < j /\ Logged(batch[i]) /\ NoneBetween(i, j) =>
                    batch'[j].seq = batch'[i].seq + 1
    <3>1. CASE j = next
      <4>1. \A i \in 1 .. Len(batch) : i < next /\ Logged(batch[i]) /\ NoneBetween(i, next) =>
              batch[i].seq = seq
        BY <1>1, <1>2 DEF Numbered
      <4>2. \A i \in 1 .. Len(batch) : i < next => batch'[i] = batch[i]
        BY <1>2, <1>9
      <4>3. NoneBetween(0, next) => seq = startSeq
        BY <1>1 DEF Numbered
      <4>4. batch'[j] = new /\ batch'[j].seq = seq + 1
        BY <1>3, <1>9, <3>1
      <4>5. batch'[j].seq \in 1 .. Len(log') /\ log'[batch'[j].seq] = RecordOf(batch'[j])
        BY <1>1, <1>8, <4>4
      <4>6. \A i \in 1 .. Len(batch) : i < j /\ Logged(batch[i]) /\ NoneBetween(i, j) =>
              batch'[j].seq = batch'[i].seq + 1
        BY <3>1, <4>1, <4>2, <4>4
      <4>7. QED
        BY <3>1, <4>3, <4>4, <4>5, <4>6
    <3>2. CASE j < next
      <4>1. /\ batch[j].seq \in 1 .. Len(log)
            /\ log[batch[j].seq] = RecordOf(batch[j])
            /\ NoneBetween(0, j) => batch[j].seq = startSeq + 1
            /\ \A i \in 1 .. Len(batch) : i < j /\ Logged(batch[i]) /\ NoneBetween(i, j) =>
                 batch[j].seq = batch[i].seq + 1
        BY <1>1, <2>1, <3>2 DEF Numbered
      <4>2. batch'[j] = batch[j] /\ \A i \in 1 .. Len(batch) : i < j => batch'[i] = batch[i]
        BY <1>2, <1>9, <3>2
      <4>3. ~NoneBetween(j, next + 1)
        BY <1>14, <3>2
      <4>4. QED
        BY <1>1, <1>8, <4>1, <4>2, <4>3
    <3>3. QED
      BY <1>1, <2>1, <3>1, <3>2
  <2>2. ~NoneBetween(0, next + 1)
    BY <1>1, <1>14
  <2>3. QED
    BY <1>5, <1>9, <1>12, <1>13, <2>1, <2>2 DEF Numbered
<1>16. Idle' /\ Logging' /\ Replying'
  BY <1>1, <1>2, <1>5, <1>8, <1>9, <1>15 DEF Idle, Logging, Replying
<1>17. IDsBounded'
  <2>1. PICK b \in Nat : \A k \in 1 .. Len(log) : log[k].orderID <= b
    BY DEF IInv, Safe, IDsBounded
  <2>2. \A k \in 1 .. Len(log) : log[k].orderID \in Nat
    <3>1. \A k \in 1 .. Len(log) : log[k] \in Record
      BY <1>1, ElementOfSeq
    <3>2. QED
      BY <3>1 DEF Record
  <2>3. b + RecordOf(new).orderID \in Nat
    BY <1>7
  <2>4. ASSUME NEW k \in 1 .. Len(log') PROVE log'[k].orderID <= b + RecordOf(new).orderID
    <3>1. CASE k \in 1 .. Len(log)
      <4>1. log'[k].orderID = log[k].orderID /\ log[k].orderID <= b /\ log[k].orderID \in Nat
        BY <1>8, <2>1, <2>2, <3>1
      <4>2. QED
        BY <1>7, <4>1
    <3>2. CASE k = Len(log) + 1
      BY <1>7, <1>8, <3>2
    <3>3. QED
      BY <1>1, <1>8, <3>1, <3>2
  <2>5. QED
    BY <2>3, <2>4 DEF IDsBounded
<1>18. Watermarks' /\ PositionsDense'
  <2>1. Watermarks'
    BY <1>1, <1>6, <1>8 DEF IInv, Safe, Watermarks
  <2>2. ASSUME NEW k \in 1 .. Len(log') PROVE log'[k].seq = k
    <3>1. CASE k \in 1 .. Len(log)
      BY <1>8, <3>1 DEF IInv, Safe, PositionsDense
    <3>2. CASE k = Len(log) + 1
      <4>1. seq = Len(log)
        BY <1>1
      <4>2. log'[k].seq = seq + 1
        BY <1>7, <1>8, <3>2
      <4>3. QED
        BY <3>2, <4>1, <4>2
    <3>3. QED
      BY <1>1, <1>8, <3>1, <3>2
  <2>3. QED
    BY <2>1, <2>2 DEF PositionsDense
<1>19. AppliedIsDurable'
  BY <1>1, <1>5, <1>6, <1>8 DEF IInv, Safe, AppliedIsDurable
<1>20. AckedIsDurable'
  BY <1>1, <1>5, <1>6, <1>8 DEF IInv, Safe, AckedIsDurable
<1>21. QED
  BY <1>10, <1>11, <1>16, <1>17, <1>18, <1>19, <1>20 DEF IInv, Safe

(* logBatch fails, in Append or in Sync. *)
LEMMA LogFailsIInv ==
    ASSUME IInv, AppendFails \/ SyncFails
    PROVE  IInv'
<1>1. /\ log \in Seq(Record) /\ Len(log) \in Nat /\ flushed \in Nat /\ synced \in Nat
      /\ synced <= flushed /\ flushed <= Len(log)
  BY DEF IInv, TypeOK, Safe, Watermarks
<1>2. LogFails /\ UNCHANGED <<applied, acked>>
  BY DEF AppendFails, SyncFails, history
<1>3. \E n \in synced .. Len(log) :
        /\ log' = SubSeq(log, 1, n)
        /\ synced' \in Nat /\ flushed' \in Nat
        /\ synced <= synced' /\ synced' <= flushed' /\ flushed' <= n
        /\ writer' \in {"open", "latched", "closed"}
  <2>1. CASE FlushFails
    <3>1. /\ flushed' \in flushed .. Len(log) /\ log' = SubSeq(log, 1, flushed')
          /\ synced' = synced /\ writer' = "latched"
      BY <2>1 DEF FlushFails
    <3>2. /\ flushed' \in synced .. Len(log) /\ flushed' \in Nat /\ synced' \in Nat
          /\ synced <= synced' /\ synced' <= flushed' /\ flushed' <= flushed'
      BY <1>1, <3>1
    <3>3. writer' \in {"open", "latched", "closed"}
      BY <3>1
    <3>4. QED
      BY <3>1, <3>2, <3>3, Zenon
  <2>2. CASE ~FlushFails
    <3>1. /\ log' = log /\ synced' \in {synced, Len(log)}
          /\ flushed' \in {flushed, Len(log)}
          /\ synced' # synced => flushed' = Len(log)
          /\ writer' \in {writer, "closed"}
      BY <2>2 DEF AppendFails, SyncFails, logVars
    <3>2. log' = SubSeq(log, 1, Len(log)) /\ writer \in {"open", "latched", "closed"}
      BY <3>1, UncutLog DEF IInv, TypeOK
    <3>3. Len(log) \in synced .. Len(log)
      BY <1>1
    <3>4. QED
      BY <1>1, <3>1, <3>2, <3>3
  <2>3. QED
    BY <2>1, <2>2
<1>4. Safe' /\ log' \in Seq(Record)
  BY <1>2, <1>3, CutIsSafe DEF IInv, LogFails
<1>5. batch' \in Seq(Request)
  <2>1. CASE AppendFails
    <3> /\ batch \in Seq(Request) /\ next \in Nat \ {0} /\ seq \in Nat
        /\ next <= Len(batch) /\ Len(batch) \in Nat
      BY <2>1, LenProperties DEF AppendFails, IInv, TypeOK
    <3>1. next \in 1 .. Len(batch) /\ seq + 1 \in Nat /\ batch[next] \in Request
      BY ElementOfSeq
    <3>2. [batch[next] EXCEPT !.seq = seq + 1] \in Request
      BY <3>1, PositionedRequest
    <3>3. batch' = [batch EXCEPT ![next] = [batch[next] EXCEPT !.seq = seq + 1]]
      BY <2>1 DEF AppendFails
    <3>4. QED
      BY <3>1, <3>2, <3>3, ExceptSeq
  <2>2. CASE SyncFails
    BY <2>2 DEF SyncFails, IInv, TypeOK
  <2>3. QED
    BY <2>1, <2>2
<1>6. TypeOK'
  <2>1. UNCHANGED <<callerVars, poolVars, startSeq, nextOrderID, lastPos, stopReq, applied,
                    history>>
    BY DEF AppendFails, SyncFails
  <2>2. QED
    BY <1>2, <1>3, <1>4, <1>5, <2>1
       DEF LogFails, IInv, TypeOK, callerVars, poolVars, history
<1>7. ChannelsCounted'
  BY DEF AppendFails, SyncFails, IInv, ChannelsCounted, callerVars, poolVars
<1>8. QED
  BY <1>4, <1>6, <1>7 DEF IInv

(* logBatch succeeds: the whole batch is on the disk before any of it reaches
   the book. *)
LEMMA SyncIInv ==
    ASSUME IInv, Sync
    PROVE  IInv'
<1>1. /\ pc = "log" /\ ~walErr /\ seq = Len(log) /\ Len(applied) = startSeq
      /\ next \in Nat /\ Len(batch) \in Nat /\ next = Len(batch) + 1
      /\ Numbered(next) /\ Len(log) \in Nat /\ synced \in Nat /\ synced <= Len(log)
  <2>1. pc = "log" /\ next > Len(batch)
    BY DEF Sync
  <2>2. next \in Nat /\ Len(batch) \in Nat /\ Len(log) \in Nat /\ synced \in Nat /\ flushed \in Nat
    BY DEF IInv, TypeOK
  <2>3. /\ ~walErr /\ next <= Len(batch) + 1 /\ seq = Len(log) /\ Len(applied) = startSeq
        /\ Numbered(next)
    BY <2>1 DEF IInv, Safe, Logging
  <2>4. synced <= Len(log)
    BY <2>2 DEF IInv, Safe, Watermarks
  <2>5. QED
    BY <2>1, <2>2, <2>3, <2>4
<1>2. /\ UNCHANGED <<batch, seq, startSeq, walErr, log, applied, acked>>
      /\ flushed' = Len(log) /\ synced' = Len(log) /\ pc' = "apply" /\ next' = 1
  BY DEF Sync, SyncOK, seqVars, history
<1>3. TypeOK'
  BY <1>1, <1>2 DEF Sync, SyncOK, IInv, TypeOK, callerVars, poolVars, seqVars, history
<1>4. ChannelsCounted'
  BY DEF Sync, IInv, ChannelsCounted, callerVars, poolVars
<1>5. ASSUME NEW i, NEW j PROVE NoneBetween(i, j)' <=> NoneBetween(i, j)
  BY <1>2 DEF NoneBetween, Logged
<1>6. ASSUME NEW m PROVE Numbered(m)' <=> Numbered(m)
  BY <1>2, <1>5 DEF Numbered, Logged, RecordOf
<1>7. Numbered(Len(batch) + 1)'
  BY <1>1, <1>2, <1>6
<1>8. NoneBetween(next - 1, Len(batch) + 1)' => Len(applied') = seq'
  <2>1. NoneBetween(0, Len(batch) + 1) => seq = startSeq
    BY <1>1 DEF Numbered
  <2>2. NoneBetween(next - 1, Len(batch) + 1)' <=> NoneBetween(0, Len(batch) + 1)
    BY <1>2 DEF NoneBetween, Logged
  <2>3. QED
    BY <1>1, <1>2, <2>1, <2>2
<1>9. ASSUME NEW j \in 1 .. Len(batch), Logged(batch[j]), NoneBetween(0, j)
      PROVE  batch[j].seq = Len(applied) + 1
  BY <1>1, <1>9 DEF Numbered
<1>10. Replying'
  <2>1. \A j \in 1 .. Len(batch) : NoneBetween(next - 1, j)' <=> NoneBetween(0, j)
    BY <1>2 DEF NoneBetween, Logged
  <2>2. QED
    BY <1>1, <1>2, <1>7, <1>8, <1>9, <2>1 DEF Replying
<1>11. Idle' /\ Logging'
  BY <1>2 DEF Idle, Logging
<1>12. IDsBounded' /\ Watermarks' /\ PositionsDense'
  <2>1. IDsBounded' /\ PositionsDense'
    BY <1>2 DEF IInv, Safe, IDsBounded, PositionsDense
  <2>2. Watermarks'
    BY <1>1, <1>2 DEF Watermarks
  <2>3. QED
    BY <2>1, <2>2
<1>13. AppliedIsDurable' /\ AckedIsDurable'
  BY <1>1, <1>2 DEF IInv, TypeOK, Safe, AppliedIsDurable, AckedIsDurable
<1>14. QED
  BY <1>3, <1>4, <1>10, <1>11, <1>12, <1>13 DEF IInv, Safe

(* The answer to a request is a result. *)
LEMMA ReplyType ==
    ASSUME TypeOK, NEW req \in Request, NEW position \in Nat,
           NEW err \in {"none", "pretrade", "wal"}, NEW state \in Nat \cup {NoState},
           Reply(req, position, err, state), Applying
    PROVE  /\ chan' \in [Channels -> Seq(Result)]
           /\ batch' \in Seq(Request) /\ next' \in Nat \ {0} /\ lastPos' \in Nat
           /\ pc' \in {"select", "apply"}
<1>1. req.reply \in Channels /\ req.call \in Calls /\ req.orderID \in Nat
  BY DEF Request
<1>2. [call |-> req.call, seq |-> position, orderID |-> req.orderID,
       err |-> err, state |-> state] \in Result
  BY <1>1 DEF Result
<1>3. chan' \in [Channels -> Seq(Result)]
  <2> DEFINE res == [call |-> req.call, seq |-> position, orderID |-> req.orderID,
                     err |-> err, state |-> state]
  <2>1. chan' = [chan EXCEPT ![req.reply] = <<res>>] /\ res \in Result
    BY <1>2 DEF Reply
  <2> HIDE DEF res
  <2>2. <<res>> \in Seq(Result) /\ chan \in [Channels -> Seq(Result)]
    BY <2>1 DEF TypeOK
  <2>3. QED
    BY <2>1, <2>2
<1>4. batch \in Seq(Request) /\ next \in Nat \ {0} /\ lastPos \in Nat /\ seq \in Nat
  BY DEF TypeOK
<1>5. pc = "apply" /\ NextReply
  BY DEF Reply, Applying
<1>6. CASE next = Len(batch)
  BY <1>3, <1>4, <1>5, <1>6 DEF NextReply
<1>7. CASE next # Len(batch)
  BY <1>3, <1>4, <1>5, <1>7 DEF NextReply
<1>8. QED
  BY <1>6, <1>7

(* Whatever the answer, the batch is unchanged until the last one of it. *)
LEMMA ReplyIInv ==
    ASSUME IInv, NEW position \in Nat, NEW err \in {"none", "pretrade", "wal"},
           NEW state \in Nat \cup {NoState},
           Reply(batch[next], position, err, state), Applying,
           applied' \in Seq(Record), acked' \subseteq Record, refused' \subseteq Record,
           Safe'
    PROVE  IInv'
<1>1. batch[next] \in Request
  BY ElementOfSeq, LenProperties DEF Applying, IInv, TypeOK
<1>2. /\ chan' \in [Channels -> Seq(Result)]
      /\ batch' \in Seq(Request) /\ next' \in Nat \ {0} /\ lastPos' \in Nat
      /\ pc' \in {"select", "apply"}
  BY <1>1, ReplyType DEF IInv
<1>3. UNCHANGED <<callerVars, pool, made, seq, startSeq, nextOrderID, walErr, stopReq,
                  logVars, crashes>>
  BY DEF Reply
<1>4. TypeOK'
  BY <1>2, <1>3 DEF IInv, TypeOK, callerVars, logVars
<1>5. ChannelsCounted'
  BY <1>3 DEF IInv, ChannelsCounted, callerVars
<1>6. QED
  BY <1>4, <1>5 DEF IInv

(* A request that is not logged, or whose log failed, leaves the book alone. *)
LEMMA PassIsSafe ==
    ASSUME IInv, Applying, NextReply, walErr \/ ~Logged(batch[next]),
           UNCHANGED <<seq, startSeq, walErr, log, flushed, synced, applied, acked>>
    PROVE  Safe'
<1>1. IDsBounded' /\ Watermarks' /\ PositionsDense' /\ AppliedIsDurable' /\ AckedIsDurable'
  BY DEF IInv, Safe, IDsBounded, Watermarks, PositionsDense, AppliedIsDurable, AckedIsDurable
<1>2. /\ pc = "apply" /\ next \in Nat \ {0} /\ next <= Len(batch) /\ Len(batch) \in Nat
  BY DEF Applying, IInv, TypeOK
<1>3. Logging'
  BY <1>2 DEF NextReply, Logging
<1>4. CASE walErr
  BY <1>1, <1>3, <1>4 DEF Safe, Idle, Replying
<1>5. CASE ~walErr
  <2>1. /\ seq = Len(log) /\ synced = Len(log)
        /\ Numbered(Len(batch) + 1)
        /\ NoneBetween(next - 1, Len(batch) + 1) => Len(applied) = seq
        /\ \A j \in 1 .. Len(batch) :
             next <= j /\ Logged(batch[j]) /\ NoneBetween(next - 1, j) =>
                 batch[j].seq = Len(applied) + 1
    BY <1>2, <1>5 DEF IInv, Safe, Replying
  <2>2. ASSUME NEW j \in Nat, NoneBetween(next, j) PROVE NoneBetween(next - 1, j)
    BY <1>2, <1>5, <2>2 DEF NoneBetween
  <2>3. CASE next = Len(batch)
    <3>1. NoneBetween(next, Len(batch) + 1)
      BY <1>2, <2>3 DEF NoneBetween
    <3>2. Len(applied) = Len(log)
      BY <1>2, <2>1, <2>2, <3>1
    <3>3. pc' = "select"
      BY <2>3 DEF NextReply
    <3>4. QED
      BY <1>1, <1>3, <2>1, <3>2, <3>3 DEF Safe, Idle, Replying
  <2>4. CASE next # Len(batch)
    <3>1. UNCHANGED <<pc, batch>> /\ next' = next + 1
      BY <2>4 DEF NextReply
    <3>2. ASSUME NEW j PROVE NoneBetween(next - 1, j)' <=> NoneBetween(next, j)
      BY <1>2, <3>1 DEF NoneBetween, Logged
    <3>3. NoneBetween(next - 1, Len(batch) + 1)' <=> NoneBetween(next, Len(batch) + 1)
      BY <1>2, <3>1 DEF NoneBetween, Logged
    <3>4. Numbered(Len(batch) + 1)' <=> Numbered(Len(batch) + 1)
      BY <3>1 DEF Numbered, NoneBetween, Logged, RecordOf
    <3>5. \A j \in 1 .. Len(batch) :
            next + 1 <= j /\ Logged(batch[j]) /\ NoneBetween(next, j) =>
                batch[j].seq = Len(applied) + 1
      BY <1>2, <2>1, <2>2
    <3>6. NoneBetween(next, Len(batch) + 1) => Len(applied) = seq
      BY <1>2, <2>1, <2>2
    <3>7. Replying'
      BY <1>2, <2>1, <3>1, <3>2, <3>3, <3>4, <3>5, <3>6 DEF Replying
    <3>8. Idle'
      BY <1>2, <3>1 DEF Idle
    <3>9. QED
      BY <1>1, <1>3, <3>7, <3>8 DEF Safe
  <2>5. QED
    BY <2>3, <2>4
<1>6. QED
  BY <1>4, <1>5

(* The next logged request goes to the book, at the position it has in the
   log, and is acknowledged. *)
LEMMA ApplyIsSafe ==
    ASSUME IInv, Apply
    PROVE  Safe' /\ RecordOf(batch[next]) \in Record /\ applied' \in Seq(Record)
<1> DEFINE r == RecordOf(batch[next])
<1>1. /\ pc = "apply" /\ next \in Nat \ {0} /\ next <= Len(batch) /\ Len(batch) \in Nat
      /\ ~walErr /\ Logged(batch[next]) /\ applied \in Seq(Record) /\ log \in Seq(Record)
  BY DEF Apply, Applying, IInv, TypeOK
<1>2. next \in 1 .. Len(batch) /\ batch[next] \in Request
  BY <1>1, ElementOfSeq, LenProperties DEF IInv, TypeOK
<1>3. r \in Record
  BY <1>1, <1>2, RecordOfType
<1>4. /\ seq = Len(log) /\ synced = Len(log)
      /\ Numbered(Len(batch) + 1)
      /\ \A j \in 1 .. Len(batch) :
           next <= j /\ Logged(batch[j]) /\ NoneBetween(next - 1, j) =>
               batch[j].seq = Len(applied) + 1
  BY <1>1 DEF IInv, Safe, Replying
<1>5. NoneBetween(next - 1, next)
  BY <1>1 DEF NoneBetween
<1>6. batch[next].seq = Len(applied) + 1
  BY <1>1, <1>2, <1>4, <1>5
<1>7. batch[next].seq \in 1 .. Len(log) /\ log[batch[next].seq] = r
  BY <1>1, <1>2, <1>4 DEF Numbered
<1>8. /\ applied' = Append(applied, r) /\ acked' = acked \cup {r} /\ NextReply
      /\ UNCHANGED <<seq, startSeq, walErr, log, flushed, synced>>
  BY DEF Apply, Reply, logVars
<1> HIDE DEF r
<1>9. /\ applied' \in Seq(Record) /\ Len(applied') = Len(applied) + 1
      /\ applied'[Len(applied) + 1] = r
      /\ \A k \in 1 .. Len(applied) : applied'[k] = applied[k]
  BY <1>1, <1>3, <1>8, AppendProperties
<1>10. AppliedIsDurable'
  BY <1>1, <1>4, <1>6, <1>7, <1>8, <1>9 DEF IInv, Safe, AppliedIsDurable
<1>11. AckedIsDurable'
  <2>1. \A a \in acked : \E k \in 1 .. synced : log[k] = a
    BY DEF IInv, Safe, AckedIsDurable
  <2>2. \E k \in 1 .. synced : log[k] = r
    BY <1>4, <1>7
  <2>3. QED
    BY <1>8, <2>1, <2>2 DEF AckedIsDurable
<1>12. IDsBounded' /\ Watermarks' /\ PositionsDense'
  BY <1>8 DEF IInv, Safe, IDsBounded, Watermarks, PositionsDense
<1>13. Logging'
  BY <1>1, <1>8 DEF NextReply, Logging
<1>14. NoneBetween(next, Len(batch) + 1) => seq = Len(applied) + 1
  BY <1>1, <1>2, <1>4, <1>6 DEF Numbered
<1>15. \A j \in 1 .. Len(batch) :
         next + 1 <= j /\ Logged(batch[j]) /\ NoneBetween(next, j) =>
             batch[j].seq = Len(applied) + 2
  BY <1>1, <1>2, <1>4, <1>6 DEF Numbered
<1>16. Idle' /\ Replying'
  <2>1. CASE next = Len(batch)
    <3>1. NoneBetween(next, Len(batch) + 1)
      BY <1>1, <2>1 DEF NoneBetween
    <3>2. pc' = "select"
      BY <1>8, <2>1 DEF NextReply
    <3>3. QED
      BY <1>4, <1>8, <1>9, <1>14, <3>1, <3>2 DEF Idle, Replying
  <2>2. CASE next # Len(batch)
    <3>1. UNCHANGED <<pc, batch>> /\ next' = next + 1
      BY <1>8, <2>2 DEF NextReply
    <3>2. ASSUME NEW j PROVE NoneBetween(next - 1, j)' <=> NoneBetween(next, j)
      BY <1>1, <3>1 DEF NoneBetween, Logged
    <3>3. NoneBetween(next - 1, Len(batch) + 1)' <=> NoneBetween(next, Len(batch) + 1)
      BY <1>1, <3>1 DEF NoneBetween, Logged
    <3>4. Numbered(Len(batch) + 1)' <=> Numbered(Len(batch) + 1)
      BY <1>8, <3>1 DEF Numbered, NoneBetween, Logged, RecordOf
    <3>5. Replying'
      <4>1. Len(applied) \in Nat /\ Len(applied') + 1 = Len(applied) + 2
        BY <1>1, <1>9
      <4>2. NoneBetween(next - 1, Len(batch) + 1)' => Len(applied') = seq'
        BY <1>8, <1>9, <1>14, <3>3
      <4>3. \A j \in 1 .. Len(batch') :
              next' <= j /\ Logged(batch'[j]) /\ NoneBetween(next - 1, j)' =>
                  batch'[j].seq = Len(applied') + 1
        BY <1>15, <3>1, <3>2, <4>1
      <4>4. QED
        BY <1>4, <1>8, <3>4, <4>2, <4>3 DEF Replying
    <3>6. QED
      BY <1>1, <3>1, <3>5 DEF Idle
  <2>3. QED
    BY <2>1, <2>2
<1>17. QED
  BY <1>3, <1>9, <1>10, <1>11, <1>12, <1>13, <1>16 DEF Safe, r

(* The four answers. *)
LEMMA AnswerIInv ==
    ASSUME IInv, ServeSnapshot \/ RejectPreTrade \/ RejectWAL \/ Apply
    PROVE  IInv'
<1>1. /\ seq \in Nat /\ Len(applied) \in Nat /\ applied \in Seq(Record)
      /\ acked \subseteq Record /\ refused \subseteq Record
  BY DEF IInv, TypeOK
<1>2. Applying
  BY DEF ServeSnapshot, RejectPreTrade, RejectWAL, Apply
<1>3. batch[next] \in Request /\ batch[next].seq \in Nat
  <2>1. batch[next] \in Request
    BY <1>2, ElementOfSeq, LenProperties DEF Applying, IInv, TypeOK
  <2>2. QED
    BY <2>1 DEF Request
<1>4. CASE ServeSnapshot
  <2>1. Reply(batch[next], seq, "none", Len(applied)) /\ UNCHANGED <<applied, acked, refused>>
    BY <1>4 DEF ServeSnapshot
  <2>2. ~Logged(batch[next])
    BY <1>4 DEF ServeSnapshot, Logged
  <2>3. Safe'
    BY <1>2, <2>1, <2>2, PassIsSafe DEF Reply, logVars
  <2>4. QED
    BY <1>1, <1>2, <2>1, <2>3, ReplyIInv
<1>5. CASE RejectPreTrade
  <2>1. /\ Reply(batch[next], batch[next].seq, "pretrade", NoState)
        /\ UNCHANGED <<applied, acked, refused>>
    BY <1>5 DEF RejectPreTrade
  <2>2. ~Logged(batch[next])
    BY <1>5 DEF RejectPreTrade, Logged
  <2>3. Safe'
    BY <1>2, <2>1, <2>2, PassIsSafe DEF Reply, logVars
  <2>4. QED
    BY <1>1, <1>2, <1>3, <2>1, <2>3, ReplyIInv
<1>6. CASE RejectWAL
  <2>1. /\ Reply(batch[next], batch[next].seq, "wal", NoState)
        /\ walErr /\ Logged(batch[next])
        /\ refused' = refused \cup {RecordOf(batch[next])} /\ UNCHANGED <<applied, acked>>
    BY <1>6 DEF RejectWAL
  <2>2. RecordOf(batch[next]) \in Record
    BY <1>3, <2>1, RecordOfType
  <2>3. Safe'
    BY <1>2, <2>1, PassIsSafe DEF Reply, logVars
  <2>4. refused' \subseteq Record
    BY <1>1, <2>1, <2>2
  <2>5. QED
    BY <1>1, <1>2, <1>3, <2>1, <2>3, <2>4, ReplyIInv
<1>7. CASE Apply
  <2>1. Safe' /\ RecordOf(batch[next]) \in Record /\ applied' \in Seq(Record)
    BY <1>7, ApplyIsSafe
  <2>2. /\ Reply(batch[next], batch[next].seq, "none", NoState)
        /\ acked' = acked \cup {RecordOf(batch[next])} /\ UNCHANGED refused
    BY <1>7 DEF Apply
  <2>3. acked' \subseteq Record /\ refused' \subseteq Record
    BY <1>1, <2>1, <2>2
  <2>4. QED
    BY <1>2, <1>3, <2>1, <2>2, <2>3, ReplyIInv
<1>8. QED
  BY <1>4, <1>5, <1>6, <1>7

(* closeWAL *)
LEMMA StopIInv ==
    ASSUME IInv, Stop
    PROVE  IInv'
<1>1. /\ log \in Seq(Record) /\ Len(log) \in Nat /\ flushed \in Nat /\ synced \in Nat
      /\ synced <= flushed /\ flushed <= Len(log) /\ writer \in {"open", "latched", "closed"}
  BY DEF IInv, TypeOK, Safe, Watermarks
<1>2. /\ pc' = "stopped"
      /\ UNCHANGED <<callerVars, poolVars, batch, next, seqVars, stopReq, applied, history>>
  BY DEF Stop
<1>3. \E n \in synced .. Len(log) :
        /\ log' = SubSeq(log, 1, n)
        /\ synced' \in Nat /\ flushed' \in Nat
        /\ synced <= synced' /\ synced' <= flushed' /\ flushed' <= n
        /\ writer' \in {"open", "latched", "closed"}
  <2>1. CASE FlushFails
    <3>1. /\ flushed' \in flushed .. Len(log) /\ log' = SubSeq(log, 1, flushed')
          /\ synced' = synced /\ writer' = "latched"
      BY <2>1 DEF FlushFails
    <3>2. /\ flushed' \in synced .. Len(log) /\ flushed' \in Nat /\ synced' \in Nat
          /\ synced <= synced' /\ synced' <= flushed' /\ flushed' <= flushed'
      BY <1>1, <3>1
    <3>3. writer' \in {"open", "latched", "closed"}
      BY <3>1
    <3>4. QED
      BY <3>1, <3>2, <3>3, Zenon
  <2>2. CASE ~FlushFails
    <3>1. /\ log' = log /\ writer' = writer /\ synced' \in {synced, Len(log)}
          /\ flushed' \in {flushed, Len(log)}
          /\ synced' # synced => flushed' = Len(log)
      BY <2>2 DEF Stop, SyncOK, logVars
    <3>2. log' = SubSeq(log, 1, Len(log))
      BY <3>1, UncutLog DEF IInv
    <3>3. Len(log) \in synced .. Len(log)
      BY <1>1
    <3>4. QED
      BY <1>1, <3>1, <3>2, <3>3
  <2>3. QED
    BY <2>1, <2>2
<1>4. Safe' /\ log' \in Seq(Record)
  BY <1>2, <1>3, CutIsSafe DEF IInv, history
<1>5. TypeOK'
  BY <1>2, <1>3, <1>4 DEF IInv, TypeOK, callerVars, poolVars, seqVars, history
<1>6. ChannelsCounted'
  BY <1>2 DEF IInv, ChannelsCounted, callerVars, poolVars
<1>7. QED
  BY <1>4, <1>5, <1>6 DEF IInv

(* A crash takes at most what was not synced. *)
LEMMA CrashIInv ==
    ASSUME IInv, Crash
    PROVE  IInv'
<1>1. /\ log \in Seq(Record) /\ Len(log) \in Nat /\ flushed \in Nat /\ synced \in Nat
      /\ synced <= flushed /\ flushed <= Len(log)
  BY DEF IInv, TypeOK, Safe, Watermarks
<1>2. PICK n \in synced .. flushed : log' = SubSeq(log, 1, n) /\ flushed' = n
  BY DEF Crash
<1>3. /\ n \in synced .. Len(log) /\ n \in Nat /\ synced' = synced
      /\ pc' = "down" /\ UNCHANGED <<applied, acked>>
  BY <1>1 DEF Crash
<1>4. Safe' /\ log' \in Seq(Record)
  BY <1>1, <1>2, <1>3, CutIsSafe DEF IInv
<1>5. /\ cpc' \in [Callers -> {"idle", "sending", "waiting"}]
      /\ \A c \in Callers : cpc'[c] = "idle"
      /\ creq' \in [Callers -> Request \cup {NoRequest}]
  BY DEF Crash
<1>6. chan' \in [Channels -> Seq(Result)] /\ batch' \in Seq(Request)
  BY DEF Crash
<1>7. /\ made' = 0 /\ made' \in 0 .. MaxCalls /\ next' \in Nat \ {0} /\ pool' = {}
      /\ writer' \in {"open", "latched", "closed"} /\ crashes' \in 0 .. MaxCrashes
      /\ calls' = calls /\ calls \in Nat
  BY MaxCallsAssumption, MaxCrashesAssumption DEF Crash, IInv, TypeOK
<1>8. UNCHANGED <<calls, seqVars, stopReq, synced, applied, acked, refused>>
  BY DEF Crash
<1>9. TypeOK'
  BY <1>2, <1>3, <1>4, <1>5, <1>6, <1>7, <1>8 DEF IInv, TypeOK, seqVars
<1>10. ChannelsCounted'
  BY <1>5, <1>7 DEF ChannelsCounted
<1>11. QED
  BY <1>4, <1>9, <1>10 DEF IInv

(* Recovery gives the book the whole log and takes up its last position. *)
LEMMA RestartIInv ==
    ASSUME IInv, Restart
    PROVE  IInv'
<1>1. log \in Seq(Record) /\ Len(log) \in Nat
  BY DEF IInv, TypeOK
<1>2. LastSeq = Len(log)
  <2>1. CASE log = <<>>
    BY <2>1 DEF LastSeq
  <2>2. CASE log # <<>>
    <3>1. Len(log) \in 1 .. Len(log)
      BY <1>1, <2>2, EmptySeq
    <3>2. QED
      BY <2>2, <3>1 DEF LastSeq, IInv, Safe, PositionsDense
  <2>3. QED
    BY <2>1, <2>2
<1>3. MaxID(log) \in Nat
  BY <1>1, MaxIDType DEF IInv, Safe
<1>4. /\ UNCHANGED <<callerVars, poolVars, batch, next, log, history>>
      /\ applied' = log /\ flushed' = Len(log) /\ synced' = Len(log)
      /\ seq' = Len(log) /\ startSeq' = Len(log) /\ pc' = "select"
      /\ nextOrderID' \in Nat /\ lastPos' \in Nat /\ writer' = "open"
  BY <1>2, <1>3 DEF Restart, Recovered
<1>5. walErr' \in BOOLEAN /\ stopReq' \in BOOLEAN
  BY DEF Restart
<1>6. TypeOK'
  BY <1>1, <1>4, <1>5 DEF IInv, TypeOK, callerVars, poolVars, history
<1>7. ChannelsCounted'
  BY <1>4 DEF IInv, ChannelsCounted, callerVars, poolVars
<1>8. IDsBounded' /\ PositionsDense' /\ Watermarks'
  <2>1. IDsBounded' /\ PositionsDense'
    BY <1>4 DEF IInv, Safe, IDsBounded, PositionsDense
  <2>2. QED
    BY <1>1, <1>4, <2>1 DEF Watermarks
<1>9. Idle' /\ Logging' /\ Replying'
  BY <1>4 DEF Idle, Logging, Replying
<1>10. AppliedIsDurable'
  BY <1>1, <1>4 DEF AppliedIsDurable
<1>11. AckedIsDurable'
  <2>1. synced \in Nat /\ synced <= Len(log)
    BY <1>1 DEF IInv, TypeOK, Safe, Watermarks
  <2>2. QED
    BY <1>1, <1>4, <2>1 DEF IInv, Safe, AckedIsDurable, history
<1>12. QED
  BY <1>6, <1>7, <1>8, <1>9, <1>10, <1>11 DEF IInv, Safe

-----------------------------------------------------------------------------

(* Every step keeps the invariant. *)
LEMMA NextIInv == IInv /\ [Next]_vars => IInv'
<1> SUFFICES ASSUME IInv, [Next]_vars PROVE IInv'
  OBVIOUS
<1>1. CASE UNCHANGED vars
  <2>1. TypeOK' /\ ChannelsCounted'
    BY <1>1 DEF vars, IInv, TypeOK, ChannelsCounted, callerVars, poolVars, seqVars, logVars,
                history
  <2>2. Safe'
    BY <1>1, CallersDoNotDisturb DEF vars, IInv, seqVars, logVars, history
  <2>3. QED
    BY <2>1, <2>2 DEF IInv
<1>2. ASSUME NEW c \in Callers, CallerStep(c) \/ Receive(c) \/ Drain(c) PROVE IInv'
  BY <1>2, CallerIInv, TakeIInv
<1>3. CASE CommitStep
  BY <1>3, PrepareIInv, SkipRecordIInv, AppendRecordIInv, LogFailsIInv, SyncIInv, AnswerIInv
     DEF CommitStep
<1>4. CASE RequestStop \/ Stop \/ Crash \/ Restart
  BY <1>4, RequestStopIInv, StopIInv, CrashIInv, RestartIInv
<1>5. QED
  BY <1>1, <1>2, <1>3, <1>4 DEF Next, Finished

LEMMA AlwaysIInv == Spec => []IInv
BY InitIInv, NextIInv, PTL DEF Spec

(* The sequencer, its callers, its log and its book keep their types: among
   them, no more reply channels are made than there are calls, and recovery
   always finds a highest order identifier. *)
THEOREM TypeCorrect == Spec => []TypeOK
<1>1. IInv => TypeOK
  BY DEF IInv
<1>2. QED
  BY <1>1, AlwaysIInv, PTL

(* Group commit loses nothing it acknowledged: through failed appends and
   syncs, power loss and any number of restarts, a mutation whose caller was
   told it succeeded is on the disk, and the book holds nothing else. *)
THEOREM NothingLost == Spec => [](AckedIsDurable /\ AppliedIsDurable)
<1>1. IInv => AckedIsDurable /\ AppliedIsDurable
  BY DEF IInv, Safe
<1>2. QED
  BY <1>1, AlwaysIInv, PTL

(* The roll back of a failed batch and the scan of the log at recovery never
   reissue or skip a position. *)
THEOREM DensePositions == Spec => []PositionsDense
<1>1. IInv => PositionsDense
  BY DEF IInv, Safe
<1>2. QED
  BY <1>1, AlwaysIInv, PTL

(* No step takes back a record the book was given, recovery included: what
   comes back after a crash extends what was applied before it. *)
THEOREM NeverRewound == Spec => BookNeverRewinds
<1> DEFINE Extends ==
      \A k \in DOMAIN applied : k \in DOMAIN applied' /\ applied'[k] = applied[k]
<1>1. IInv /\ [Next]_vars => [Extends]_applied
  <2>1. SUFFICES ASSUME IInv, [Next]_vars, applied' # applied PROVE Extends
    BY DEF Extends
  <2>2. /\ log \in Seq(Record) /\ applied \in Seq(Record) /\ synced \in Nat /\ flushed \in Nat
        /\ Len(applied) \in Nat /\ Len(log) \in Nat
        /\ DOMAIN applied = 1 .. Len(applied) /\ DOMAIN log = 1 .. Len(log)
    BY <2>1, LenProperties DEF IInv, TypeOK
  <2>3. Apply \/ Restart
    BY <2>1 DEF Next, vars, CallerStep, Call, RefusedClosed, CancelSending, GiveUpSending,
                GetReply, CancelWaiting, Leave, Receive, Drain, Take, CommitStep, Prepare,
                SkipRecord, AppendRecord, AppendFails, Sync, SyncFails, ServeSnapshot,
                RejectPreTrade, RejectWAL, RequestStop, Stop, Crash, Finished
  <2>4. CASE Apply
    <3>1. RecordOf(batch[next]) \in Record /\ applied' = Append(applied, RecordOf(batch[next]))
      BY <2>1, <2>4, ApplyIsSafe DEF Apply
    <3>2. /\ applied' \in Seq(Record) /\ Len(applied') = Len(applied) + 1
          /\ \A k \in 1 .. Len(applied) : applied'[k] = applied[k]
      BY <2>2, <3>1, AppendProperties
    <3>3. DOMAIN applied' = 1 .. Len(applied')
      BY <3>2, LenProperties
    <3>4. QED
      BY <2>2, <3>2, <3>3
  <2>5. CASE Restart
    <3>1. applied' = log
      BY <2>5 DEF Restart, Recovered
    <3>2. Len(applied) <= Len(log) /\ \A k \in 1 .. Len(applied) : applied[k] = log[k]
      BY <2>1, <2>2 DEF IInv, Safe, AppliedIsDurable, Watermarks
    <3>3. QED
      BY <2>2, <3>1, <3>2
  <2>6. QED
    BY <2>3, <2>4, <2>5
<1>2. QED
  BY <1>1, AlwaysIInv, PTL DEF Spec, BookNeverRewinds

-----------------------------------------------------------------------------
(***************************************************************************)
(* The inductive invariant: who owns a channel.                            *)
(***************************************************************************)

(* Between batches there is none. *)
NoBatch == pc \in {"select", "stopped", "down"} => batch = <<>>

(* The requests of the batch that have not been answered. *)
Pending == { k \in 1 .. Len(batch) : pc = "apply" => next <= k }

(* A channel holds at most one answer, and none before it is made. *)
OneAnswer ==
    \A ch \in Channels : Len(chan[ch]) <= 1 /\ (chan[ch] # <<>> => ch <= made)

(* A channel in the pool is empty and nobody else's. *)
PoolApart ==
    \A ch \in pool :
        /\ chan[ch] = <<>>
        /\ \A k \in Pending : batch[k].reply # ch
        /\ \A c \in Callers : cpc[c] # "idle" => creq[c].reply # ch

(* Two callers have two channels.  One that has not sent its request finds
   nothing in its channel; one that has finds the answer to it. *)
CallersApart ==
    /\ \A c, d \in Callers :
         cpc[c] # "idle" /\ cpc[d] # "idle" /\ creq[c].reply = creq[d].reply => c = d
    /\ \A c \in Callers : cpc[c] = "sending" => chan[creq[c].reply] = <<>>
    /\ RepliesMatch

(* Two requests that wait for an answer have two channels, both empty, and the
   caller that still holds one of them is waiting for that answer. *)
PendingApart ==
    /\ \A j, k \in Pending : batch[j].reply = batch[k].reply => j = k
    /\ \A k \in Pending :
         /\ chan[batch[k].reply] = <<>>
         /\ batch[k].reply <= made
         /\ \A c \in Callers : cpc[c] # "idle" /\ creq[c].reply = batch[k].reply =>
              cpc[c] = "waiting" /\ creq[c].call = batch[k].call

Owned == NoBatch /\ OneAnswer /\ PoolApart /\ CallersApart /\ PendingApart

(* A log that failed leaves the position at the book's last record. *)
RolledBack == walErr => seq = Len(applied)

RInv == Owned /\ RolledBack /\ LabelCovers

-----------------------------------------------------------------------------
(* Facts about requests and their types.                                   *)

(* The requests of callers and of the batch, and the channels of both. *)
LEMMA RequestTypes ==
    ASSUME TypeOK
    PROVE  /\ Len(batch) \in Nat /\ next \in Nat \ {0} /\ made \in Nat /\ calls \in Nat
           /\ \A k \in 1 .. Len(batch) : batch[k] \in Request /\ batch[k].reply \in Channels
           /\ \A c \in Callers : cpc[c] # "idle" =>
                creq[c] \in Request /\ creq[c].reply \in Channels
<1>1. Len(batch) \in Nat /\ \A k \in 1 .. Len(batch) : batch[k] \in Request
  BY LenProperties, ElementOfSeq DEF TypeOK
<1>2. \A req \in Request : req.reply \in Channels
  BY DEF Request
<1>3. \A c \in Callers : cpc[c] # "idle" => creq[c] \in Request
  BY DEF TypeOK
<1>4. next \in Nat \ {0} /\ made \in Nat /\ calls \in Nat
  BY MaxCallsAssumption DEF TypeOK
<1>5. QED
  BY <1>1, <1>2, <1>3, <1>4

(* Receiving the only answer of a channel empties it. *)
LEMMA OneAnswerTail ==
    ASSUME NEW a \in Seq(Result), a # <<>>, Len(a) <= 1
    PROVE  Tail(a) = <<>>
<1>1. Len(a) \in Nat \ {0} /\ Tail(a) \in Seq(Result) /\ Len(Tail(a)) = Len(a) - 1
  BY EmptySeq, HeadTailProperties
<1>2. Len(Tail(a)) = 0
  BY <1>1
<1>3. QED
  BY <1>1, <1>2, EmptySeq

(* Callers and channels stay as they are, and so do the requests that are
   answered. *)
LEMMA OwnedStays ==
    ASSUME Owned, UNCHANGED <<cpc, creq, pool, made, chan>>, Pending' \subseteq Pending,
           \A k \in Pending : batch'[k].reply = batch[k].reply /\ batch'[k].call = batch[k].call,
           NoBatch'
    PROVE  Owned'
<1>1. OneAnswer' /\ CallersApart'
  BY DEF Owned, OneAnswer, CallersApart, RepliesMatch
<1>2. PoolApart'
  BY DEF Owned, PoolApart
<1>3. PendingApart'
  BY DEF Owned, PendingApart
<1>4. QED
  BY <1>1, <1>2, <1>3 DEF Owned

-----------------------------------------------------------------------------
(* Callers.                                                                *)

(* do: a pooled channel or a new one is nobody's and empty. *)
LEMMA CallOwned ==
    ASSUME IInv, Owned, NEW c \in Callers, NEW kind \in Kinds, Call(c, kind)
    PROVE  Owned'
<1>1. PICK ch \in pool \cup {made + 1} :
        /\ creq' = [creq EXCEPT ![c] = NewRequest(kind, calls + 1, ch)]
        /\ pool' = pool \ {ch}
        /\ made' = IF ch > made THEN ch ELSE made
  BY DEF Call
<1>2. /\ cpc' = [cpc EXCEPT ![c] = "sending"] /\ cpc[c] = "idle"
      /\ UNCHANGED <<chan, pc, batch, next>>
  BY DEF Call
<1>3. /\ creq'[c].reply = ch /\ cpc'[c] = "sending"
      /\ \A d \in Callers : d # c => creq'[d] = creq[d] /\ cpc'[d] = cpc[d]
  BY <1>1, <1>2 DEF NewRequest, IInv, TypeOK
<1>4. /\ made \in Nat /\ \A k \in 1 .. Len(batch) : batch[k].reply \in Channels
      /\ ch \in Channels
  <2>1. made < MaxCalls
    BY MaxCallsAssumption DEF Call, IInv, TypeOK, ChannelsCounted
  <2>2. QED
    BY <2>1, RequestTypes, MaxCallsAssumption DEF IInv, TypeOK, Channels
<1>5. Pending' = Pending /\ Pending \subseteq 1 .. Len(batch)
  BY <1>2 DEF Pending
<1>6. /\ chan[ch] = <<>>
      /\ \A k \in Pending : batch[k].reply # ch
      /\ \A d \in Callers : cpc[d] # "idle" => creq[d].reply # ch
  <2>1. CASE ch \in pool
    BY <2>1 DEF Owned, PoolApart
  <2>2. CASE ch = made + 1
    <3>1. ~(ch <= made) /\ ch \notin 1 .. made
      BY <1>4, <2>2
    <3>2. QED
      BY <1>4, <3>1 DEF Owned, OneAnswer, PendingApart, IInv, ChannelsCounted
  <2>3. QED
    BY <2>1, <2>2
<1>7. made' \in Nat /\ made <= made'
  BY <1>1, <1>4 DEF Channels
<1>8. OneAnswer'
  BY <1>2, <1>4, <1>7 DEF Owned, OneAnswer, Channels
<1>9. PoolApart'
  BY <1>1, <1>2, <1>3, <1>5 DEF Owned, PoolApart
<1>10. CallersApart'
  <2>1. \A d, e \in Callers :
          cpc'[d] # "idle" /\ cpc'[e] # "idle" /\ creq'[d].reply = creq'[e].reply => d = e
    BY <1>3, <1>6 DEF Owned, CallersApart
  <2>2. \A d \in Callers : cpc'[d] = "sending" => chan'[creq'[d].reply] = <<>>
    BY <1>2, <1>3, <1>6 DEF Owned, CallersApart
  <2>3. RepliesMatch'
    BY <1>2, <1>3 DEF Owned, CallersApart, RepliesMatch
  <2>4. QED
    BY <2>1, <2>2, <2>3 DEF CallersApart
<1>11. PendingApart'
  <2>1. ASSUME NEW k \in Pending PROVE batch[k].reply <= made'
    BY <1>4, <1>5, <1>7 DEF Owned, PendingApart, Channels
  <2>2. QED
    BY <1>2, <1>3, <1>5, <1>6, <2>1 DEF Owned, PendingApart
<1>12. NoBatch'
  BY <1>2 DEF Owned, NoBatch
<1>13. QED
  BY <1>8, <1>9, <1>10, <1>11, <1>12 DEF Owned

(* A caller leaves: its channel is dropped, or it is pooled when it is empty
   and no answer is under way. *)
LEMMA LeaveOwned ==
    ASSUME IInv, Owned, NEW c \in Callers, cpc[c] # "idle", Leave(c),
           \/ UNCHANGED <<pool, chan>>
           \/ /\ pool' = pool \cup {creq[c].reply}
              /\ chan' = [chan EXCEPT ![creq[c].reply] = <<>>]
              /\ \A k \in Pending : batch[k].reply # creq[c].reply
    PROVE  Owned'
<1> DEFINE ch == creq[c].reply
<1>1. /\ cpc' = [cpc EXCEPT ![c] = "idle"] /\ creq' = [creq EXCEPT ![c] = NoRequest]
      /\ UNCHANGED <<made, pc, batch, next>>
  BY DEF Leave
<1>2. /\ cpc'[c] = "idle" /\ ch \in Channels
      /\ \A d \in Callers : d # c => creq'[d] = creq[d] /\ cpc'[d] = cpc[d]
  BY <1>1, RequestTypes DEF IInv, TypeOK
<1>3. Pending' = Pending /\ NoBatch'
  BY <1>1 DEF Owned, Pending, NoBatch
<1>4. \A d \in Callers : d # c /\ cpc[d] # "idle" => creq[d].reply # ch
  BY DEF Owned, CallersApart
<1>5. CASE UNCHANGED <<pool, chan>>
  <2>1. OneAnswer' /\ PoolApart' /\ PendingApart'
    BY <1>1, <1>2, <1>3, <1>5 DEF Owned, OneAnswer, PoolApart, PendingApart
  <2>2. CallersApart'
    <3>1. \A d, e \in Callers :
            cpc'[d] # "idle" /\ cpc'[e] # "idle" /\ creq'[d].reply = creq'[e].reply => d = e
      BY <1>2 DEF Owned, CallersApart
    <3>2. \A d \in Callers : cpc'[d] # "idle" =>
            /\ cpc'[d] = cpc[d] /\ creq'[d] = creq[d]
            /\ chan'[creq'[d].reply] = chan[creq[d].reply]
      BY <1>2, <1>5
    <3>3. \A d \in Callers : cpc'[d] = "sending" => chan'[creq'[d].reply] = <<>>
      BY <3>2 DEF Owned, CallersApart
    <3>4. RepliesMatch'
      <4>1. SUFFICES ASSUME NEW d \in Callers, cpc'[d] = "waiting",
                            NEW k \in DOMAIN chan'[creq'[d].reply]
                     PROVE  chan'[creq'[d].reply][k].call = creq'[d].call
        BY DEF RepliesMatch
      <4>2. /\ cpc[d] = "waiting" /\ creq'[d] = creq[d]
            /\ chan'[creq'[d].reply] = chan[creq[d].reply]
        BY <3>2, <4>1
      <4>3. QED
        BY <4>1, <4>2 DEF Owned, CallersApart, RepliesMatch
    <3>5. QED
      BY <3>1, <3>3, <3>4 DEF CallersApart
  <2>3. QED
    BY <1>3, <2>1, <2>2 DEF Owned
<1>6. CASE /\ pool' = pool \cup {ch} /\ chan' = [chan EXCEPT ![ch] = <<>>]
           /\ \A k \in Pending : batch[k].reply # ch
  <2>1. chan'[ch] = <<>> /\ \A x \in Channels : x # ch => chan'[x] = chan[x]
    BY <1>2, <1>6 DEF IInv, TypeOK
  <2>2. Len(<<>>) = 0
    OBVIOUS
  <2>3. /\ \A d \in Callers : cpc[d] # "idle" => creq[d].reply \in Channels
        /\ \A k \in Pending : batch[k].reply \in Channels
        /\ pool \subseteq Channels
    BY RequestTypes DEF IInv, TypeOK, Pending
  <2>4. OneAnswer'
    BY <1>1, <1>2, <2>1, <2>2 DEF Owned, OneAnswer
  <2>5. PoolApart'
    BY <1>1, <1>2, <1>3, <1>4, <1>6, <2>1, <2>3 DEF Owned, PoolApart
  <2>6. PendingApart'
    BY <1>1, <1>2, <1>3, <1>6, <2>1, <2>3 DEF Owned, PendingApart
  <2>7. CallersApart'
    <3>1. \A d, e \in Callers :
            cpc'[d] # "idle" /\ cpc'[e] # "idle" /\ creq'[d].reply = creq'[e].reply => d = e
      BY <1>2 DEF Owned, CallersApart
    <3>2. \A d \in Callers : cpc'[d] # "idle" =>
            /\ cpc'[d] = cpc[d] /\ creq'[d] = creq[d]
            /\ chan'[creq'[d].reply] = chan[creq[d].reply]
      BY <1>2, <1>4, <2>1, <2>3
    <3>3. \A d \in Callers : cpc'[d] = "sending" => chan'[creq'[d].reply] = <<>>
      BY <3>2 DEF Owned, CallersApart
    <3>4. RepliesMatch'
      <4>1. SUFFICES ASSUME NEW d \in Callers, cpc'[d] = "waiting",
                            NEW k \in DOMAIN chan'[creq'[d].reply]
                     PROVE  chan'[creq'[d].reply][k].call = creq'[d].call
        BY DEF RepliesMatch
      <4>2. /\ cpc[d] = "waiting" /\ creq'[d] = creq[d]
            /\ chan'[creq'[d].reply] = chan[creq[d].reply]
        BY <3>2, <4>1
      <4>3. QED
        BY <4>1, <4>2 DEF Owned, CallersApart, RepliesMatch
    <3>5. QED
      BY <3>1, <3>3, <3>4 DEF CallersApart
  <2>8. QED
    BY <1>3, <2>4, <2>5, <2>6, <2>7 DEF Owned
<1>7. QED
  BY <1>5, <1>6

LEMMA CallerOwned ==
    ASSUME IInv, Owned, NEW c \in Callers, CallerStep(c)
    PROVE  Owned'
<1>1. CASE \E kind \in Kinds : Call(c, kind)
  BY <1>1, CallOwned
<1>2. CASE RefusedClosed(c) \/ CancelSending(c)
  <2>1. /\ cpc[c] = "sending" /\ Leave(c) /\ UNCHANGED chan
        /\ pool' = pool \cup {creq[c].reply}
    BY <1>2 DEF RefusedClosed, CancelSending, GiveUpSending
  <2>2. chan[creq[c].reply] = <<>> /\ \A k \in Pending : batch[k].reply # creq[c].reply
    BY <2>1 DEF Owned, CallersApart, PendingApart
  <2>3. chan' = [chan EXCEPT ![creq[c].reply] = <<>>]
    BY <2>1, <2>2 DEF IInv, TypeOK
  <2>4. QED
    BY <2>1, <2>2, <2>3, LeaveOwned
<1>3. CASE GetReply(c)
  <2>1. /\ cpc[c] = "waiting" /\ chan[creq[c].reply] # <<>> /\ Leave(c)
        /\ chan' = [chan EXCEPT ![creq[c].reply] = Tail(chan[creq[c].reply])]
        /\ pool' = pool \cup {creq[c].reply}
    BY <1>3 DEF GetReply
  <2>2. \A k \in Pending : batch[k].reply # creq[c].reply
    BY <2>1 DEF Owned, PendingApart
  <2>3. creq[c].reply \in Channels
    BY <2>1, RequestTypes DEF IInv
  <2>4. Tail(chan[creq[c].reply]) = <<>>
    <3> DEFINE a == chan[creq[c].reply]
    <3>1. a \in Seq(Result) /\ a # <<>> /\ Len(a) <= 1
      BY <2>1, <2>3 DEF Owned, OneAnswer, IInv, TypeOK
    <3> HIDE DEF a
    <3>2. Tail(a) = <<>>
      BY <3>1, OneAnswerTail
    <3>3. QED
      BY <3>2 DEF a
  <2>5. QED
    BY <2>1, <2>2, <2>4, LeaveOwned
<1>4. CASE CancelWaiting(c)
  BY <1>4, LeaveOwned DEF CancelWaiting
<1>5. QED
  BY <1>1, <1>2, <1>3, <1>4 DEF CallerStep

-----------------------------------------------------------------------------
(* The goroutine.                                                          *)

(* run and drain: a request whose caller waits joins the batch. *)
LEMMA TakeOwned ==
    ASSUME IInv, Owned, NEW c \in Callers, Receive(c) \/ Drain(c)
    PROVE  Owned'
<1> DEFINE n == Len(batch)
<1>1. /\ cpc[c] = "sending" /\ cpc' = [cpc EXCEPT ![c] = "waiting"] /\ pc' = "drain"
      /\ UNCHANGED <<creq, pool, made, chan, next>> /\ pc \in {"select", "drain"}
  BY DEF Receive, Drain, Take, poolVars
<1>2. /\ creq[c] \in Request /\ n \in Nat /\ creq[c].reply \in Channels
      /\ batch \in Seq(Request)
  BY <1>1, RequestTypes DEF IInv, TypeOK
<1>3. batch' = Append(batch, creq[c])
  <2>1. CASE Receive(c)
    <3>1. batch = <<>> /\ batch' = <<creq[c]>>
      BY <2>1 DEF Receive, Owned, NoBatch
    <3>2. Append(<<>>, creq[c]) = <<creq[c]>>
      OBVIOUS
    <3>3. QED
      BY <3>1, <3>2
  <2>2. CASE Drain(c)
    BY <2>2 DEF Drain
  <2>3. QED
    BY <2>1, <2>2
<1> HIDE DEF n
<1>4. /\ Len(batch') = n + 1 /\ batch'[n + 1] = creq[c]
      /\ \A k \in 1 .. n : batch'[k] = batch[k]
  BY <1>2, <1>3, AppendProperties DEF n
<1>5. Pending = 1 .. n /\ Pending' = 1 .. n + 1
  BY <1>1, <1>4 DEF Pending, n
<1>6. \A k \in Pending' : k \in 1 .. n \/ k = n + 1
  BY <1>2, <1>5
<1>7. /\ cpc'[c] = "waiting" /\ \A d \in Callers : d # c => cpc'[d] = cpc[d]
      /\ \A d \in Callers : cpc'[d] # "idle" <=> cpc[d] # "idle"
  BY <1>1 DEF IInv, TypeOK
<1>8. /\ chan[creq[c].reply] = <<>>
      /\ \A k \in 1 .. n : batch[k].reply # creq[c].reply
      /\ creq[c].reply \notin pool /\ creq[c].reply <= made
      /\ \A d \in Callers : d # c /\ cpc[d] # "idle" => creq[d].reply # creq[c].reply
  <2>1. creq[c].reply \in 1 .. made /\ made \in Nat
    BY <1>1, RequestTypes DEF IInv, ChannelsCounted
  <2>2. QED
    BY <1>1, <1>5, <2>1 DEF Owned, CallersApart, PendingApart, PoolApart
<1>9. OneAnswer' /\ NoBatch'
  BY <1>1 DEF Owned, OneAnswer, NoBatch
<1>10. PoolApart'
  <2>1. ASSUME NEW ch \in pool, NEW k \in Pending' PROVE batch'[k].reply # ch
    <3>1. CASE k \in 1 .. n
      BY <1>4, <1>5, <2>1, <3>1 DEF Owned, PoolApart
    <3>2. CASE k = n + 1
      BY <1>4, <1>8, <2>1, <3>2
    <3>3. QED
      BY <1>6, <3>1, <3>2
  <2>2. QED
    BY <1>1, <1>7, <2>1 DEF Owned, PoolApart
<1>11. CallersApart'
  <2>1. \A d, e \in Callers :
          cpc'[d] # "idle" /\ cpc'[e] # "idle" /\ creq'[d].reply = creq'[e].reply => d = e
    BY <1>1, <1>7 DEF Owned, CallersApart
  <2>2. \A d \in Callers : cpc'[d] = "sending" => chan'[creq'[d].reply] = <<>>
    BY <1>1, <1>7 DEF Owned, CallersApart
  <2>3. RepliesMatch'
    <3>1. SUFFICES ASSUME NEW d \in Callers, cpc'[d] = "waiting",
                          NEW k \in DOMAIN chan[creq[d].reply]
                   PROVE  chan[creq[d].reply][k].call = creq[d].call
      BY <1>1 DEF RepliesMatch
    <3>2. CASE d = c
      <4>1. DOMAIN <<>> = {}
        OBVIOUS
      <4>2. QED
        BY <1>8, <3>1, <3>2, <4>1
    <3>3. CASE d # c
      BY <1>7, <3>1, <3>3 DEF Owned, CallersApart, RepliesMatch
    <3>4. QED
      BY <3>2, <3>3
  <2>4. QED
    BY <2>1, <2>2, <2>3 DEF CallersApart
<1>12. PendingApart'
  <2>1. ASSUME NEW j \in Pending', NEW k \in Pending', batch'[j].reply = batch'[k].reply
        PROVE  j = k
    <3>1. CASE j \in 1 .. n /\ k \in 1 .. n
      BY <1>4, <1>5, <2>1, <3>1 DEF Owned, PendingApart
    <3>2. CASE j = n + 1 \/ k = n + 1
      BY <1>4, <1>6, <1>8, <2>1, <3>2
    <3>3. QED
      BY <1>6, <3>1, <3>2
  <2>2. ASSUME NEW k \in Pending'
        PROVE  /\ chan[batch'[k].reply] = <<>>
               /\ batch'[k].reply <= made
               /\ \A d \in Callers : cpc'[d] # "idle" /\ creq[d].reply = batch'[k].reply =>
                    cpc'[d] = "waiting" /\ creq[d].call = batch'[k].call
    <3>1. CASE k \in 1 .. n
      BY <1>4, <1>5, <1>7, <3>1 DEF Owned, PendingApart
    <3>2. CASE k = n + 1
      BY <1>4, <1>7, <1>8, <3>2
    <3>3. QED
      BY <1>6, <3>1, <3>2
  <2>3. QED
    BY <1>1, <2>1, <2>2 DEF PendingApart
<1>13. QED
  BY <1>9, <1>10, <1>11, <1>12 DEF Owned

(* commit before its answers: the requests get identifiers, verdicts and
   positions, and keep their channels and calls. *)
LEMMA CommitOwned ==
    ASSUME IInv, Owned,
           Prepare \/ SkipRecord \/ AppendRecord \/ AppendFails \/ Sync \/ SyncFails
    PROVE  Owned'
<1>1. UNCHANGED <<cpc, creq, pool, made, chan>>
  BY DEF Prepare, SkipRecord, AppendRecord, AppendFails, Sync, SyncFails, callerVars, poolVars
<1>2. /\ Len(batch) \in Nat /\ next \in Nat \ {0}
      /\ \A k \in 1 .. Len(batch) : batch[k] \in Request
      /\ batch \in Seq(Request) /\ DOMAIN batch = 1 .. Len(batch)
  BY RequestTypes, LenProperties DEF IInv, TypeOK
<1>3. pc \in {"drain", "log"} /\ pc' \in {"log", "apply"} /\ (pc' = "apply" => next' = 1)
  BY DEF Prepare, SkipRecord, AppendRecord, AppendFails, LogFails, Sync, SyncFails
<1>4. /\ Len(batch') = Len(batch)
      /\ \A k \in 1 .. Len(batch) :
           batch'[k].reply = batch[k].reply /\ batch'[k].call = batch[k].call
  <2>1. CASE Prepare
    <3>1. PICK rejected \in SUBSET { k \in DOMAIN batch : batch[k].kind = "submit" } :
            batch' = [ k \in DOMAIN batch |->
                        Checked(batch[k], nextOrderID + Submits(k), k \in rejected) ]
      BY <2>1 DEF Prepare
    <3>2. \A id, no : \A req \in Request :
            Checked(req, id, no).reply = req.reply /\ Checked(req, id, no).call = req.call
      BY DEF Checked, Request
    <3>3. \A k \in 1 .. Len(batch) :
            batch'[k].reply = batch[k].reply /\ batch'[k].call = batch[k].call
      BY <1>2, <3>1, <3>2
    <3>4. DOMAIN batch' = 1 .. Len(batch)
      BY <1>2, <3>1
    <3>5. Len(batch') = Len(batch)
      <4>1. batch' \in Seq(Request)
        BY <2>1, PrepareIInv DEF IInv, TypeOK
      <4>2. Len(batch') \in Nat /\ DOMAIN batch' = 1 .. Len(batch')
        BY <4>1, LenProperties
      <4>3. QED
        BY <1>2, <3>4, <4>2
    <3>6. QED
      BY <3>3, <3>5
  <2>2. CASE SkipRecord \/ Sync \/ SyncFails
    BY <2>2 DEF SkipRecord, Sync, SyncFails
  <2>3. CASE AppendRecord \/ AppendFails
    <3>1. /\ next \in 1 .. Len(batch) /\ seq + 1 \in Nat
          /\ batch' = [batch EXCEPT ![next] = [batch[next] EXCEPT !.seq = seq + 1]]
      <4>1. next <= Len(batch)
        BY <2>3 DEF AppendRecord, AppendFails
      <4>2. batch' = [batch EXCEPT ![next] = [batch[next] EXCEPT !.seq = seq + 1]]
        BY <2>3 DEF AppendRecord, AppendFails
      <4>3. seq \in Nat
        BY DEF IInv, TypeOK
      <4>4. QED
        BY <1>2, <4>1, <4>2, <4>3
    <3>2. [batch[next] EXCEPT !.seq = seq + 1] \in Request
      BY <1>2, <3>1, PositionedRequest
    <3>3. /\ [batch[next] EXCEPT !.seq = seq + 1].reply = batch[next].reply
          /\ [batch[next] EXCEPT !.seq = seq + 1].call = batch[next].call
      BY <1>2, <3>1 DEF Request
    <3>4. /\ Len(batch') = Len(batch)
          /\ \A k \in 1 .. Len(batch) :
               batch'[k] = IF k = next THEN [batch[next] EXCEPT !.seq = seq + 1] ELSE batch[k]
      BY <1>2, <3>1, <3>2, ExceptSeq
    <3>5. QED
      BY <3>3, <3>4
  <2>4. QED
    BY <2>1, <2>2, <2>3
<1>5. Pending = 1 .. Len(batch) /\ Pending' = 1 .. Len(batch) /\ NoBatch'
  BY <1>2, <1>3, <1>4 DEF Pending, NoBatch
<1>6. QED
  BY <1>1, <1>4, <1>5, OwnedStays

(* An answer goes into the empty channel of the request, whose caller waits
   for it or is gone. *)
LEMMA ReplyOwned ==
    ASSUME IInv, Owned, Applying, NEW position, NEW err, NEW state,
           Reply(batch[next], position, err, state)
    PROVE  Owned'
<1> DEFINE req == batch[next]
           ch == req.reply
           res == [call |-> req.call, seq |-> position, orderID |-> req.orderID,
                   err |-> err, state |-> state]
<1>1. /\ pc = "apply" /\ next \in 1 .. Len(batch) /\ Len(batch) \in Nat /\ ch \in Channels
      /\ next \in Pending /\ \A k \in Pending : batch[k].reply \in Channels
  BY RequestTypes DEF Applying, IInv, Pending
<1>2. /\ chan' = [chan EXCEPT ![ch] = <<res>>] /\ res.call = req.call /\ NextReply
      /\ UNCHANGED <<cpc, creq, pool, made>>
  BY DEF Reply, callerVars
<1> HIDE DEF res
<1>3. chan'[ch] = <<res>> /\ \A x \in Channels : x # ch => chan'[x] = chan[x]
  BY <1>1, <1>2 DEF IInv, TypeOK
<1>4. Len(<<res>>) = 1 /\ DOMAIN <<res>> = {1} /\ <<res>>[1] = res
  OBVIOUS
<1>5. /\ Pending' \subseteq Pending \ {next} /\ NoBatch'
      /\ \A k \in Pending' : batch'[k] = batch[k]
  <2>1. CASE next = Len(batch)
    <3>1. pc' = "select" /\ batch' = <<>>
      BY <1>2, <2>1 DEF NextReply
    <3>2. Pending' = {}
      BY <3>1 DEF Pending
    <3>3. QED
      BY <3>1, <3>2 DEF NoBatch
  <2>2. CASE next # Len(batch)
    <3>1. pc' = "apply" /\ batch' = batch /\ next' = next + 1
      BY <1>1, <1>2, <2>2 DEF NextReply
    <3>2. QED
      BY <1>1, <3>1 DEF Pending, NoBatch
  <2>3. QED
    BY <2>1, <2>2
<1>6. /\ ch <= made /\ ch \notin pool
      /\ \A k \in Pending' : batch[k].reply # ch
      /\ \A c \in Callers : cpc[c] # "idle" /\ creq[c].reply = ch =>
           cpc[c] = "waiting" /\ creq[c].call = req.call
  BY <1>1, <1>5 DEF Owned, PoolApart, PendingApart
<1>7. OneAnswer'
  BY <1>2, <1>3, <1>4, <1>6 DEF Owned, OneAnswer
<1>8. PoolApart'
  <2>1. pool \subseteq Channels
    BY DEF IInv, TypeOK
  <2>2. QED
    BY <1>2, <1>3, <1>5, <1>6, <2>1 DEF Owned, PoolApart
<1>9. PendingApart'
  BY <1>1, <1>2, <1>3, <1>5, <1>6 DEF Owned, PendingApart
<1>10. CallersApart'
  <2>1. \A c \in Callers : cpc[c] # "idle" => creq[c].reply \in Channels
    BY RequestTypes DEF IInv
  <2>2. \A c \in Callers : cpc'[c] = "sending" => chan'[creq'[c].reply] = <<>>
    BY <1>2, <1>3, <1>6, <2>1 DEF Owned, CallersApart
  <2>3. RepliesMatch'
    <3>1. SUFFICES ASSUME NEW c \in Callers, cpc[c] = "waiting",
                          NEW k \in DOMAIN chan'[creq[c].reply]
                   PROVE  chan'[creq[c].reply][k].call = creq[c].call
      BY <1>2 DEF RepliesMatch
    <3>2. CASE creq[c].reply = ch
      BY <1>2, <1>3, <1>4, <1>6, <3>1, <3>2
    <3>3. CASE creq[c].reply # ch
      <4>1. chan'[creq[c].reply] = chan[creq[c].reply]
        BY <1>3, <2>1, <3>1, <3>3
      <4>2. QED
        BY <3>1, <4>1 DEF Owned, CallersApart, RepliesMatch
    <3>4. QED
      BY <3>2, <3>3
  <2>4. QED
    BY <1>2, <2>2, <2>3 DEF Owned, CallersApart
<1>11. QED
  BY <1>5, <1>7, <1>8, <1>9, <1>10 DEF Owned

(* Power loss takes callers and channels with it. *)
LEMMA CrashOwned ==
    ASSUME Crash
    PROVE  Owned'
<1>1. /\ \A c \in Callers : cpc'[c] = "idle" /\ pool' = {} /\ batch' = <<>>
      /\ \A ch \in Channels : chan'[ch] = <<>>
      /\ Len(<<>>) = 0
  BY DEF Crash
<1>2. pool' = {} /\ batch' = <<>> /\ Len(<<>>) = 0 /\ Pending' = {}
  BY DEF Crash, Pending
<1>3. OneAnswer' /\ PoolApart' /\ NoBatch' /\ PendingApart'
  BY <1>1, <1>2 DEF OneAnswer, PoolApart, NoBatch, PendingApart
<1>4. CallersApart'
  BY <1>1 DEF CallersApart, RepliesMatch
<1>5. QED
  BY <1>3, <1>4 DEF Owned

LEMMA NextOwned ==
    ASSUME IInv, Owned, [Next]_vars
    PROVE  Owned'
<1>1. ASSUME NEW c \in Callers, CallerStep(c) \/ Receive(c) \/ Drain(c) PROVE Owned'
  BY <1>1, CallerOwned, TakeOwned
<1>2. CASE Prepare \/ SkipRecord \/ AppendRecord \/ AppendFails \/ Sync \/ SyncFails
  BY <1>2, CommitOwned
<1>3. CASE ServeSnapshot \/ RejectPreTrade \/ RejectWAL \/ Apply
  BY <1>3, ReplyOwned DEF ServeSnapshot, RejectPreTrade, RejectWAL, Apply
<1>4. CASE Crash
  BY <1>4, CrashOwned
<1>5. CASE RequestStop \/ Stop \/ Restart \/ UNCHANGED vars
  <2>1. UNCHANGED <<cpc, creq, pool, made, chan, batch, next>>
    BY <1>5 DEF RequestStop, Stop, Restart, vars, callerVars, poolVars
  <2>2. pc' = pc \/ (pc \in {"select", "down"} /\ pc' \in {"select", "stopped"})
    BY <1>5 DEF RequestStop, Stop, Restart, vars
  <2>3. NoBatch' /\ Pending' \subseteq Pending
    BY <2>1, <2>2 DEF Owned, NoBatch, Pending
  <2>4. QED
    BY <2>1, <2>3, OwnedStays
<1>6. QED
  BY <1>1, <1>2, <1>3, <1>4, <1>5 DEF Next, CommitStep, Finished

-----------------------------------------------------------------------------
(* Snapshots.                                                              *)

(* The position of a sequencer whose log failed does not run ahead of the book. *)
LEMMA NextRolledBack ==
    ASSUME IInv, RolledBack, [Next]_vars
    PROVE  RolledBack'
<1>1. CASE Restart
  BY <1>1 DEF Restart, RolledBack
<1>2. CASE AppendFails \/ SyncFails
  <2>1. pc = "log" /\ seq' = startSeq /\ UNCHANGED applied
    BY <1>2 DEF AppendFails, SyncFails, LogFails
  <2>2. QED
    BY <2>1 DEF RolledBack, IInv, Safe, Logging
<1>3. CASE AppendRecord
  BY <1>3 DEF AppendRecord, RolledBack, IInv, Safe, Logging
<1>4. CASE Apply
  BY <1>4 DEF Apply, Reply, RolledBack
<1>5. CASE ~(Restart \/ AppendFails \/ SyncFails \/ AppendRecord \/ Apply)
  <2>1. UNCHANGED <<walErr, seq, applied>>
    BY <1>5 DEF Next, vars, CallerStep, Call, RefusedClosed, CancelSending, GiveUpSending,
                GetReply, CancelWaiting, Leave, Receive, Drain, Take, CommitStep, Prepare,
                SkipRecord, Sync, ServeSnapshot, RejectPreTrade, RejectWAL, Reply,
                RequestStop, Stop, Crash, Finished, seqVars
  <2>2. QED
    BY <2>1 DEF RolledBack
<1>6. QED
  BY <1>1, <1>2, <1>3, <1>4, <1>5

(* While it answers, the position covers the book and is on the disk. *)
LEMMA PositionCovers ==
    ASSUME IInv, RolledBack, Applying
    PROVE  Len(applied) <= seq /\ seq <= synced
<1>1. Len(applied) <= synced /\ Len(applied) \in Nat /\ seq \in Nat /\ synced \in Nat
  BY DEF IInv, TypeOK, Safe, AppliedIsDurable
<1>2. CASE walErr
  BY <1>1, <1>2 DEF RolledBack
<1>3. CASE ~walErr
  BY <1>1, <1>3 DEF IInv, Safe, Replying, Applying
<1>4. QED
  BY <1>2, <1>3

(* What is on the disk stays there, and no step moves an answer. *)
LEMMA NextSynced ==
    ASSUME IInv, [Next]_vars
    PROVE  synced <= synced'
<1>1. /\ synced \in Nat /\ flushed \in Nat /\ Len(log) \in Nat
      /\ synced <= Len(log)
  BY DEF IInv, TypeOK, Safe, Watermarks
<1>2. synced' = synced \/ synced' = Len(log)
  BY DEF Next, vars, CallerStep, Call, RefusedClosed, CancelSending, GiveUpSending,
         GetReply, CancelWaiting, Leave, Receive, Drain, Take, CommitStep, Prepare,
         SkipRecord, AppendRecord, AppendFails, FlushFails, Sync, SyncOK, SyncFails,
         ServeSnapshot, RejectPreTrade, RejectWAL, Apply, Reply,
         RequestStop, Stop, Crash, Restart, Finished, logVars
<1>3. QED
  BY <1>1, <1>2

LEMMA NextLabelled ==
    ASSUME IInv, Owned, RolledBack, LabelCovers, [Next]_vars
    PROVE  LabelCovers'
<1>1. synced <= synced' /\ synced \in Nat /\ synced' \in Nat
  BY NextSynced, NextIInv DEF IInv, TypeOK
<1>2. chan \in [Channels -> Seq(Result)]
  BY DEF IInv, TypeOK
<1>3. ASSUME NEW ch \in Channels, chan'[ch] = chan[ch] \/ chan'[ch] = <<>>,
             NEW k \in DOMAIN chan'[ch], chan'[ch][k].state # NoState
      PROVE  chan'[ch][k].state <= chan'[ch][k].seq /\ chan'[ch][k].seq <= synced'
  <2>1. chan'[ch] = chan[ch]
    <3>1. DOMAIN <<>> = {}
      OBVIOUS
    <3>2. QED
      BY <1>3, <3>1
  <2>2. chan[ch][k].seq \in Nat
    <3>1. chan[ch] \in Seq(Result) /\ k \in DOMAIN chan[ch]
      BY <1>2, <1>3, <2>1
    <3>2. chan[ch][k] \in Result
      BY <3>1, LenProperties, ElementOfSeq
    <3>3. QED
      BY <3>2 DEF Result
  <2>3. chan[ch][k].state <= chan[ch][k].seq /\ chan[ch][k].seq <= synced
    BY <1>3, <2>1 DEF LabelCovers
  <2>4. QED
    BY <1>1, <2>1, <2>2, <2>3
<1>4. ASSUME Applying, NEW position, NEW err, NEW state,
             Reply(batch[next], position, err, state),
             state # NoState => state <= position /\ position <= synced
      PROVE  LabelCovers'
  <2> DEFINE res == [call |-> batch[next].call, seq |-> position,
                     orderID |-> batch[next].orderID, err |-> err, state |-> state]
  <2>1. chan' = [chan EXCEPT ![batch[next].reply] = <<res>>] /\ synced' = synced
    BY <1>4 DEF Reply, logVars
  <2>2. res.state = state /\ res.seq = position
    OBVIOUS
  <2> HIDE DEF res
  <2>3. SUFFICES ASSUME NEW ch \in Channels, NEW k \in DOMAIN chan'[ch],
                        chan'[ch][k].state # NoState
                 PROVE  chan'[ch][k].state <= chan'[ch][k].seq /\ chan'[ch][k].seq <= synced'
    BY DEF LabelCovers
  <2>4. CASE ch = batch[next].reply
    <3>1. chan'[ch] = <<res>>
      BY <1>2, <2>1, <2>4
    <3>2. chan'[ch][k] = res
      <4>1. DOMAIN <<res>> = {1} /\ <<res>>[1] = res
        OBVIOUS
      <4>2. QED
        BY <2>3, <3>1, <4>1
    <3>3. QED
      BY <1>4, <2>1, <2>2, <2>3, <3>2
  <2>5. CASE ch # batch[next].reply
    BY <1>2, <1>3, <2>1, <2>3, <2>5
  <2>6. QED
    BY <2>4, <2>5
<1>5. CASE ServeSnapshot
  <2>1. Applying /\ Reply(batch[next], seq, "none", Len(applied))
    BY <1>5 DEF ServeSnapshot
  <2>2. Len(applied) <= seq /\ seq <= synced
    BY <2>1, PositionCovers
  <2>3. QED
    BY <1>4, <2>1, <2>2
<1>6. CASE RejectPreTrade \/ RejectWAL \/ Apply
  BY <1>4, <1>6 DEF RejectPreTrade, RejectWAL, Apply
<1>7. CASE ~(ServeSnapshot \/ RejectPreTrade \/ RejectWAL \/ Apply)
  <2>1. CASE \E c \in Callers : GetReply(c)
    <3>1. PICK c \in Callers : GetReply(c)
      BY <2>1
    <3>2. /\ creq[c].reply \in Channels
          /\ chan' = [chan EXCEPT ![creq[c].reply] = Tail(chan[creq[c].reply])]
          /\ chan[creq[c].reply] # <<>>
      BY <3>1, RequestTypes DEF GetReply, IInv
    <3>3. Tail(chan[creq[c].reply]) = <<>>
      <4> DEFINE a == chan[creq[c].reply]
      <4>1. a \in Seq(Result) /\ a # <<>> /\ Len(a) <= 1
        BY <1>2, <3>2 DEF Owned, OneAnswer
      <4> HIDE DEF a
      <4>2. Tail(a) = <<>>
        BY <4>1, OneAnswerTail
      <4>3. QED
        BY <4>2 DEF a
    <3>4. \A ch \in Channels : chan'[ch] = chan[ch] \/ chan'[ch] = <<>>
      BY <1>2, <3>2, <3>3
    <3>5. QED
      BY <1>3, <3>4 DEF LabelCovers
  <2>2. CASE Crash
    <3>1. \A ch \in Channels : chan'[ch] = <<>>
      BY <2>2 DEF Crash
    <3>2. QED
      BY <1>3, <3>1 DEF LabelCovers
  <2>3. CASE ~(Crash \/ \E c \in Callers : GetReply(c))
    <3>1. UNCHANGED chan
      BY <1>7, <2>3 DEF Next, vars, CallerStep, Call, RefusedClosed, CancelSending,
                GiveUpSending, CancelWaiting, Leave, Receive, Drain, Take, CommitStep, Prepare,
                SkipRecord, AppendRecord, AppendFails, Sync, SyncFails,
                RequestStop, Stop, Restart, Finished, poolVars
    <3>2. QED
      BY <1>3, <3>1 DEF LabelCovers
  <2>4. QED
    BY <2>1, <2>2, <2>3
<1>8. QED
  BY <1>5, <1>6, <1>7

-----------------------------------------------------------------------------

LEMMA InitRInv == Init => RInv
<1> SUFFICES ASSUME Init PROVE RInv
  OBVIOUS
<1>1. /\ \A c \in Callers : cpc[c] = "idle"
      /\ \A ch \in Channels : chan[ch] = <<>>
      /\ pool = {} /\ batch = <<>> /\ walErr = FALSE
  BY DEF Init
<1>2. Len(<<>>) = 0 /\ DOMAIN <<>> = {} /\ Pending = {}
  BY <1>1 DEF Pending
<1>3. Owned
  BY <1>1, <1>2 DEF Owned, NoBatch, OneAnswer, PoolApart, CallersApart, RepliesMatch,
                    PendingApart
<1>4. RolledBack /\ LabelCovers
  BY <1>1, <1>2 DEF RolledBack, LabelCovers
<1>5. QED
  BY <1>3, <1>4 DEF RInv

LEMMA AlwaysRInv == Spec => [](IInv /\ RInv)
<1>1. IInv /\ RInv /\ [Next]_vars => RInv'
  BY NextOwned, NextRolledBack, NextLabelled DEF RInv
<1>2. QED
  BY <1>1, InitRInv, AlwaysIInv, PTL DEF Spec

(* Although reply channels are pooled and calls are abandoned at any moment, a
   caller only ever receives the answer to its own call, a pooled channel is
   empty and owed no answer, and the goroutine never blocks on a reply. *)
THEOREM AnswersApart == Spec => []RepliesApart
<1>1. IInv /\ RInv => RepliesApart
  <2> SUFFICES ASSUME IInv, RInv PROVE RepliesApart
    OBVIOUS
  <2>1. RepliesMatch
    BY DEF RInv, Owned, CallersApart
  <2>2. Len(batch) \in Nat /\ next \in Nat \ {0}
    BY RequestTypes DEF IInv
  <2>3. PooledIsEmpty
    <3>1. \A k \in next .. Len(batch) : k \in Pending
      BY <2>2 DEF Pending
    <3>2. QED
      BY <3>1 DEF RInv, Owned, PoolApart, PooledIsEmpty
  <2>4. ReplyNeverBlocks
    <3>1. Applying => next \in Pending
      BY <2>2 DEF Applying, Pending
    <3>2. QED
      BY <3>1 DEF RInv, Owned, PendingApart, ReplyNeverBlocks
  <2>5. QED
    BY <2>1, <2>3, <2>4 DEF RepliesApart
<1>2. QED
  BY <1>1, AlwaysRInv, PTL

(* The position a snapshot is labelled with covers all it shows and is on the
   disk, also when the positions of a failed batch were taken back. *)
THEOREM LabelsCover == Spec => []LabelCovers
<1>1. RInv => LabelCovers
  BY DEF RInv
<1>2. QED
  BY <1>1, AlwaysRInv, PTL

-----------------------------------------------------------------------------
(***************************************************************************)
(* The inductive invariant: where a call is.                               *)
(***************************************************************************)

(* The requests of the batch that logBatch has not come to. *)
Unlogged ==
    { k \in 1 .. Len(batch) : pc = "drain" \/ (pc = "log" /\ next <= k) }

(* A call that was not made yet is nowhere. *)
MadeCalls ==
    /\ \A c \in Callers : cpc[c] # "idle" => creq[c].call <= calls
    /\ \A k \in 1 .. Len(batch) : batch[k].call <= calls
    /\ \A k \in 1 .. Len(log) : log[k].call <= calls

(* Two requests are of two calls. *)
RequestsApart ==
    /\ \A c, d \in Callers :
         cpc[c] # "idle" /\ cpc[d] # "idle" /\ creq[c].call = creq[d].call => c = d
    /\ \A c \in Callers : cpc[c] = "sending" =>
         \A k \in 1 .. Len(batch) : batch[k].call # creq[c].call
    /\ \A j, k \in 1 .. Len(batch) : batch[j].call = batch[k].call => j = k

(* A call is in the log once, and not before logBatch has come to it. *)
LogApart ==
    /\ \A j, k \in 1 .. Len(log) : log[j].call = log[k].call => j = k
    /\ \A c \in Callers : cpc[c] = "sending" =>
         \A k \in 1 .. Len(log) : log[k].call # creq[c].call
    /\ \A j \in Unlogged : \A k \in 1 .. Len(log) : log[k].call # batch[j].call

(* A request that waits for its answer has not reached the book. *)
BookApart == \A j \in Pending : \A k \in 1 .. Len(applied) : applied[k].call # batch[j].call

(* Until the process restarts, refusals mean that the log has failed, and then
   the book does not change. *)
RefusedApart ==
    /\ pc = "down" => crashes # 0
    /\ crashes = 0 /\ refused # {} => walErr
    /\ crashes = 0 => \A r \in refused : \A k \in 1 .. Len(applied) : applied[k].call # r.call

(* Identifiers ascend in the log and in the batch, and those of the batch come
   after those of the log. *)
IDsAscend ==
    /\ OrderIDsAscend
    /\ \A k \in 1 .. Len(log) : log[k].kind = "submit" => log[k].orderID <= nextOrderID
    /\ pc = "log" =>
         /\ \A k \in 1 .. Len(batch) : batch[k].kind = "submit" => batch[k].orderID <= nextOrderID
         /\ \A j, k \in 1 .. Len(batch) :
              j < k /\ batch[j].kind = "submit" /\ batch[k].kind = "submit" =>
                  batch[j].orderID < batch[k].orderID
         /\ \A j \in Unlogged : \A k \in 1 .. Len(log) :
              batch[j].kind = "submit" /\ log[k].kind = "submit" =>
                  log[k].orderID < batch[j].orderID

CInv == MadeCalls /\ RequestsApart /\ LogApart /\ BookApart /\ RefusedApart /\ IDsAscend

-----------------------------------------------------------------------------
(* Facts about the log, the batch and their steps.                         *)

(* The numbers of calls and identifiers in requests and records. *)
LEMMA CallTypes ==
    ASSUME TypeOK
    PROVE  /\ Len(batch) \in Nat /\ Len(log) \in Nat /\ Len(applied) \in Nat
           /\ next \in Nat \ {0} /\ calls \in Nat /\ nextOrderID \in Nat
           /\ \A k \in 1 .. Len(batch) :
                batch[k] \in Request /\ batch[k].call \in Nat /\ batch[k].orderID \in Nat
           /\ \A k \in 1 .. Len(log) :
                log[k] \in Record /\ log[k].call \in Nat /\ log[k].orderID \in Nat
           /\ \A c \in Callers : cpc[c] # "idle" =>
                creq[c] \in Request /\ creq[c].call \in Nat
<1>1. /\ Len(batch) \in Nat /\ \A k \in 1 .. Len(batch) : batch[k] \in Request
      /\ Len(log) \in Nat /\ \A k \in 1 .. Len(log) : log[k] \in Record
      /\ Len(applied) \in Nat
  BY LenProperties, ElementOfSeq DEF TypeOK
<1>2. /\ \A req \in Request : req.call \in Nat /\ req.orderID \in Nat
      /\ \A r \in Record : r.call \in Nat /\ r.orderID \in Nat
  BY MaxCallsAssumption DEF Request, Record, Calls
<1>3. \A c \in Callers : cpc[c] # "idle" => creq[c] \in Request
  BY DEF TypeOK
<1>4. next \in Nat \ {0} /\ calls \in Nat /\ nextOrderID \in Nat
  BY MaxCallsAssumption DEF TypeOK
<1>5. QED
  BY <1>1, <1>2, <1>3, <1>4

(* Only an append makes the log longer, and nothing else changes a record. *)
LEMMA LogShrinks ==
    ASSUME IInv, [Next]_vars, ~AppendRecord
    PROVE  /\ Len(log') \in Nat /\ Len(log') <= Len(log)
           /\ \A k \in 1 .. Len(log') : log'[k] = log[k]
<1>1. /\ log \in Seq(Record) /\ Len(log) \in Nat /\ flushed \in Nat /\ synced \in Nat
      /\ synced <= flushed /\ flushed <= Len(log)
  BY DEF IInv, TypeOK, Safe, Watermarks
<1>2. log' = log \/ \E n \in 0 .. Len(log) : log' = SubSeq(log, 1, n)
  <2>1. CASE FlushFails
    <3>1. flushed' \in flushed .. Len(log) /\ log' = SubSeq(log, 1, flushed')
      BY <2>1 DEF FlushFails
    <3>2. flushed' \in 0 .. Len(log)
      BY <1>1, <3>1
    <3>3. QED
      BY <3>1, <3>2
  <2>2. CASE Crash
    <3>1. PICK n \in synced .. flushed : log' = SubSeq(log, 1, n)
      BY <2>2 DEF Crash
    <3>2. QED
      BY <1>1, <3>1
  <2>3. CASE ~FlushFails /\ ~Crash
    BY <2>3 DEF Next, vars, CallerStep, Call, RefusedClosed, CancelSending, GiveUpSending,
         GetReply, CancelWaiting, Leave, Receive, Drain, Take, CommitStep, Prepare,
         SkipRecord, AppendFails, Sync, SyncOK, SyncFails, ServeSnapshot, RejectPreTrade,
         RejectWAL, Apply, Reply, RequestStop, Stop, Restart, Finished, logVars
  <2>4. QED
    BY <2>1, <2>2, <2>3
<1>3. CASE log' = log
  BY <1>1, <1>3
<1>4. CASE \E n \in 0 .. Len(log) : log' = SubSeq(log, 1, n)
  <2>1. PICK n \in 0 .. Len(log) : log' = SubSeq(log, 1, n)
    BY <1>4
  <2>2. Len(log') = n /\ \A k \in 1 .. n : log'[k] = log[k]
    BY <1>1, <2>1, CutLog
  <2>3. QED
    BY <1>1, <2>2
<1>5. QED
  BY <1>2, <1>3, <1>4

(* An append logs the next request of the batch and gives it its position. *)
LEMMA AppendedRecord ==
    ASSUME IInv, AppendRecord
    PROVE  /\ pc = "log" /\ pc' = "log" /\ next \in 1 .. Len(batch) /\ next' = next + 1
           /\ Len(log') = Len(log) + 1
           /\ \A k \in 1 .. Len(log) : log'[k] = log[k]
           /\ log'[Len(log) + 1].call = batch[next].call
           /\ log'[Len(log) + 1].kind = batch[next].kind
           /\ log'[Len(log) + 1].orderID = batch[next].orderID
           /\ Len(batch') = Len(batch)
           /\ \A k \in 1 .. Len(batch) :
                /\ batch'[k].call = batch[k].call
                /\ batch'[k].kind = batch[k].kind
                /\ batch'[k].orderID = batch[k].orderID
<1> DEFINE new == [batch[next] EXCEPT !.seq = seq + 1]
<1>1. /\ pc = "log" /\ pc' = "log" /\ next <= Len(batch) /\ next' = next + 1
      /\ Logged(batch[next]) /\ seq + 1 \in Nat
      /\ batch \in Seq(Request) /\ log \in Seq(Record)
  <2>1. seq \in Nat /\ batch \in Seq(Request) /\ log \in Seq(Record)
    BY DEF IInv, TypeOK
  <2>2. QED
    BY <2>1 DEF AppendRecord
<1>2. next \in 1 .. Len(batch) /\ batch[next] \in Request
  BY <1>1, CallTypes DEF IInv
<1>3. batch' = [batch EXCEPT ![next] = new] /\ log' = Append(log, RecordOf(new))
  BY DEF AppendRecord
<1>4. new \in Request /\ Logged(new)
  BY <1>1, <1>2, PositionedRequest, Zenon
<1>5. /\ new.call = batch[next].call /\ new.kind = batch[next].kind
      /\ new.orderID = batch[next].orderID
  BY <1>2 DEF Request
<1> HIDE DEF new
<1>6. /\ RecordOf(new) \in Record /\ RecordOf(new).call = new.call
      /\ RecordOf(new).kind = new.kind /\ RecordOf(new).orderID = new.orderID
  BY <1>4, RecordOfType DEF RecordOf
<1>7. /\ Len(log') = Len(log) + 1 /\ log'[Len(log) + 1] = RecordOf(new)
      /\ \A k \in 1 .. Len(log) : log'[k] = log[k]
  BY <1>1, <1>3, <1>6, AppendProperties
<1>8. /\ Len(batch') = Len(batch) /\ batch'[next] = new
      /\ \A k \in 1 .. Len(batch) : k # next => batch'[k] = batch[k]
  BY <1>1, <1>2, <1>3, <1>4, ExceptSeq
<1>9. QED
  BY <1>1, <1>2, <1>5, <1>6, <1>7, <1>8

(* run and drain: the request of a caller becomes the last of the batch. *)
LEMMA TakenRequest ==
    ASSUME IInv, Owned, NEW c \in Callers, Receive(c) \/ Drain(c)
    PROVE  /\ cpc[c] = "sending" /\ cpc'[c] = "waiting" /\ pc' = "drain"
           /\ \A d \in Callers : d # c => cpc'[d] = cpc[d]
           /\ Len(batch') = Len(batch) + 1 /\ batch'[Len(batch) + 1] = creq[c]
           /\ \A k \in 1 .. Len(batch) : batch'[k] = batch[k]
           /\ UNCHANGED <<creq, calls, nextOrderID, walErr, log, applied, refused, crashes>>
           /\ pc \in {"select", "drain"}
<1>1. /\ cpc[c] = "sending" /\ cpc' = [cpc EXCEPT ![c] = "waiting"] /\ pc' = "drain"
      /\ UNCHANGED <<creq, calls, nextOrderID, walErr, log, applied, refused, crashes>>
      /\ pc \in {"select", "drain"}
  BY DEF Receive, Drain, Take, seqVars, logVars, history
<1>2. creq[c] \in Request /\ batch \in Seq(Request)
  BY <1>1, RequestTypes DEF IInv, TypeOK
<1>3. batch' = Append(batch, creq[c])
  <2>1. CASE Receive(c)
    <3>1. batch = <<>> /\ batch' = <<creq[c]>>
      BY <2>1 DEF Receive, Owned, NoBatch
    <3>2. Append(<<>>, creq[c]) = <<creq[c]>>
      OBVIOUS
    <3>3. QED
      BY <3>1, <3>2
  <2>2. CASE Drain(c)
    BY <2>2 DEF Drain
  <2>3. QED
    BY <2>1, <2>2
<1>4. /\ Len(batch') = Len(batch) + 1 /\ batch'[Len(batch) + 1] = creq[c]
      /\ \A k \in 1 .. Len(batch) : batch'[k] = batch[k]
  BY <1>2, <1>3, AppendProperties
<1>5. cpc'[c] = "waiting" /\ \A d \in Callers : d # c => cpc'[d] = cpc[d]
  BY <1>1 DEF IInv, TypeOK
<1>6. QED
  BY <1>1, <1>4, <1>5

-----------------------------------------------------------------------------
(* Where a call is: with its caller, in the batch, in the log.             *)

Apart == MadeCalls /\ RequestsApart /\ LogApart

(* No call is made, sent or logged: what is left of callers, batch and log. *)
LEMMA KeptApart ==
    ASSUME IInv, Apart, calls' = calls,
           \A c \in Callers : cpc'[c] = "idle" \/ (cpc'[c] = cpc[c] /\ creq'[c] = creq[c]),
           Len(batch') \in Nat, Len(batch') <= Len(batch),
           \A k \in 1 .. Len(batch') : batch'[k].call = batch[k].call,
           Len(log') \in Nat, Len(log') <= Len(log), \A k \in 1 .. Len(log') : log'[k] = log[k],
           Unlogged' \subseteq Unlogged
    PROVE  Apart'
<1>1. /\ 1 .. Len(batch') \subseteq 1 .. Len(batch) /\ 1 .. Len(log') \subseteq 1 .. Len(log)
      /\ Unlogged' \subseteq 1 .. Len(batch')
  BY CallTypes DEF IInv, Unlogged
<1>2. MadeCalls'
  BY <1>1 DEF Apart, MadeCalls
<1>3. RequestsApart'
  BY <1>1 DEF Apart, RequestsApart
<1>4. LogApart'
  <2>1. \A j, k \in 1 .. Len(log') : log'[j].call = log'[k].call => j = k
    BY <1>1 DEF Apart, LogApart
  <2>2. ASSUME NEW c \in Callers, cpc'[c] = "sending", NEW k \in 1 .. Len(log')
        PROVE  log'[k].call # creq'[c].call
    BY <1>1, <2>2 DEF Apart, LogApart
  <2>3. ASSUME NEW j \in Unlogged', NEW k \in 1 .. Len(log')
        PROVE  log'[k].call # batch'[j].call
    BY <1>1, <2>3 DEF Apart, LogApart
  <2>4. QED
    BY <2>1, <2>2, <2>3 DEF LogApart
<1>5. QED
  BY <1>2, <1>3, <1>4 DEF Apart

(* do: a new call is not known anywhere. *)
LEMMA CallApart ==
    ASSUME IInv, Apart, NEW c \in Callers, NEW kind \in Kinds, Call(c, kind)
    PROVE  Apart'
<1>1. PICK ch \in pool \cup {made + 1} :
        creq' = [creq EXCEPT ![c] = NewRequest(kind, calls + 1, ch)]
  BY DEF Call
<1>2. /\ calls' = calls + 1 /\ cpc' = [cpc EXCEPT ![c] = "sending"]
      /\ UNCHANGED <<pc, batch, next, log>>
  BY DEF Call, logVars
<1>3. /\ cpc'[c] = "sending" /\ creq'[c].call = calls + 1
      /\ \A d \in Callers : d # c => cpc'[d] = cpc[d] /\ creq'[d] = creq[d]
  BY <1>1, <1>2 DEF NewRequest, IInv, TypeOK
<1>4. /\ calls \in Nat
      /\ \A d \in Callers : d # c /\ cpc'[d] # "idle" =>
           creq'[d].call <= calls + 1 /\ creq'[d].call # calls + 1
      /\ \A k \in 1 .. Len(batch) : batch[k].call <= calls + 1 /\ batch[k].call # calls + 1
      /\ \A k \in 1 .. Len(log) : log[k].call <= calls + 1 /\ log[k].call # calls + 1
  <2>1. \A m, n \in Nat : m <= n => m <= n + 1 /\ m # n + 1
    OBVIOUS
  <2>2. QED
    BY <1>3, <2>1, CallTypes DEF IInv, Apart, MadeCalls
<1>5. Unlogged' = Unlogged /\ Unlogged \subseteq 1 .. Len(batch)
  BY <1>2 DEF Unlogged
<1>6. calls + 1 <= calls + 1
  BY <1>4
<1>7. MadeCalls'
  BY <1>2, <1>3, <1>4, <1>6 DEF MadeCalls
<1>8. RequestsApart'
  <2>1. \A d, e \in Callers :
          cpc'[d] # "idle" /\ cpc'[e] # "idle" /\ creq'[d].call = creq'[e].call => d = e
    BY <1>3, <1>4 DEF Apart, RequestsApart
  <2>2. \A d \in Callers : cpc'[d] = "sending" =>
          \A k \in 1 .. Len(batch) : batch[k].call # creq'[d].call
    BY <1>3, <1>4 DEF Apart, RequestsApart
  <2>3. QED
    BY <1>2, <2>1, <2>2 DEF Apart, RequestsApart
<1>9. LogApart'
  <2>1. \A d \in Callers : cpc'[d] = "sending" =>
          \A k \in 1 .. Len(log) : log[k].call # creq'[d].call
    BY <1>3, <1>4 DEF Apart, LogApart
  <2>2. QED
    BY <1>2, <1>5, <2>1 DEF Apart, LogApart
<1>10. QED
  BY <1>7, <1>8, <1>9 DEF Apart

(* run and drain: the call moves from its caller to the batch. *)
LEMMA TakeApart ==
    ASSUME IInv, Owned, Apart, NEW c \in Callers, Receive(c) \/ Drain(c)
    PROVE  Apart'
<1> DEFINE n == Len(batch)
<1>1. /\ cpc[c] = "sending" /\ cpc'[c] = "waiting" /\ pc' = "drain"
      /\ \A d \in Callers : d # c => cpc'[d] = cpc[d]
      /\ Len(batch') = n + 1 /\ batch'[n + 1] = creq[c]
      /\ \A k \in 1 .. n : batch'[k] = batch[k]
      /\ UNCHANGED <<creq, calls, log>> /\ pc \in {"select", "drain"}
  BY TakenRequest
<1>2. n \in Nat
  BY CallTypes DEF IInv
<1>3. pc = "select" => n = 0
  BY DEF Owned, NoBatch
<1> HIDE DEF n
<1>4. \A k \in 1 .. Len(batch') : k \in 1 .. n \/ k = n + 1
  BY <1>1, <1>2
<1>5. /\ \A k \in 1 .. n : batch[k].call # creq[c].call
      /\ \A k \in 1 .. Len(log) : log[k].call # creq[c].call
      /\ creq[c].call <= calls
  BY <1>1 DEF Apart, MadeCalls, RequestsApart, LogApart, n
<1>6. MadeCalls'
  BY <1>1, <1>4, <1>5 DEF Apart, MadeCalls, n
<1>7. RequestsApart'
  <2>1. \A d \in Callers : cpc'[d] = "sending" =>
          d # c /\ \A k \in 1 .. Len(batch') : batch'[k].call # creq[d].call
    <3>1. \A d \in Callers : cpc'[d] = "sending" => d # c /\ creq[d].call # creq[c].call
      BY <1>1 DEF Apart, RequestsApart
    <3>2. QED
      BY <1>1, <1>4, <3>1 DEF Apart, RequestsApart, n
  <2>2. ASSUME NEW j \in 1 .. Len(batch'), NEW k \in 1 .. Len(batch'),
               batch'[j].call = batch'[k].call
        PROVE  j = k
    <3>1. CASE j \in 1 .. n /\ k \in 1 .. n
      BY <1>1, <2>2, <3>1 DEF Apart, RequestsApart, n
    <3>2. CASE j = n + 1 \/ k = n + 1
      BY <1>1, <1>4, <1>5, <2>2, <3>2
    <3>3. QED
      BY <1>4, <3>1, <3>2
  <2>3. QED
    BY <1>1, <2>1, <2>2 DEF Apart, RequestsApart
<1>8. LogApart'
  <2>1. \A j \in Unlogged' : j \in Unlogged \/ j = n + 1
    BY <1>1, <1>2, <1>3, <1>4 DEF Unlogged, n
  <2>2. \A j \in Unlogged : j \in 1 .. n
    BY DEF Unlogged, n
  <2>3. \A j \in Unlogged' : \A k \in 1 .. Len(log) : log[k].call # batch'[j].call
    BY <1>1, <1>5, <2>1, <2>2 DEF Apart, LogApart
  <2>4. QED
    BY <1>1, <2>3 DEF Apart, LogApart
<1>9. QED
  BY <1>6, <1>7, <1>8 DEF Apart

(* Append: the call moves from the batch to the log. *)
LEMMA AppendApart ==
    ASSUME IInv, Apart, AppendRecord
    PROVE  Apart'
<1> DEFINE n == Len(log)
<1>1. /\ pc = "log" /\ pc' = "log" /\ next \in 1 .. Len(batch) /\ next' = next + 1
      /\ Len(log') = n + 1 /\ \A k \in 1 .. n : log'[k] = log[k]
      /\ log'[n + 1].call = batch[next].call
      /\ Len(batch') = Len(batch)
      /\ \A k \in 1 .. Len(batch) : batch'[k].call = batch[k].call
  BY AppendedRecord
<1>2. n \in Nat /\ Len(batch) \in Nat
  BY CallTypes DEF IInv
<1>3. UNCHANGED <<cpc, creq, calls>>
  BY DEF AppendRecord, callerVars
<1> HIDE DEF n
<1>4. \A k \in 1 .. Len(log') : k \in 1 .. n \/ k = n + 1
  BY <1>1, <1>2
<1>5. /\ next \in Unlogged /\ Unlogged' \subseteq Unlogged \ {next}
      /\ Unlogged \subseteq 1 .. Len(batch)
  BY <1>1, <1>2 DEF Unlogged
<1>6. \A k \in 1 .. n : log[k].call # batch[next].call
  BY <1>5 DEF Apart, LogApart, n
<1>7. MadeCalls'
  BY <1>1, <1>3, <1>4 DEF Apart, MadeCalls, n
<1>8. RequestsApart'
  BY <1>1, <1>3 DEF Apart, RequestsApart
<1>9. LogApart'
  <2>1. ASSUME NEW j \in 1 .. Len(log'), NEW k \in 1 .. Len(log'), log'[j].call = log'[k].call
        PROVE  j = k
    <3>1. CASE j \in 1 .. n /\ k \in 1 .. n
      BY <1>1, <2>1, <3>1 DEF Apart, LogApart, n
    <3>2. CASE j = n + 1 \/ k = n + 1
      BY <1>1, <1>4, <1>6, <2>1, <3>2
    <3>3. QED
      BY <1>4, <3>1, <3>2
  <2>2. ASSUME NEW c \in Callers, cpc[c] = "sending", NEW k \in 1 .. Len(log')
        PROVE  log'[k].call # creq[c].call
    <3>1. batch[next].call # creq[c].call
      BY <1>1, <2>2 DEF Apart, RequestsApart
    <3>2. QED
      BY <1>1, <1>4, <2>2, <3>1 DEF Apart, LogApart, n
  <2>3. ASSUME NEW j \in Unlogged', NEW k \in 1 .. Len(log')
        PROVE  log'[k].call # batch'[j].call
    <3>1. j \in Unlogged /\ j \in 1 .. Len(batch) /\ batch'[j].call = batch[j].call
      BY <1>1, <1>5
    <3>2. batch[next].call # batch[j].call
      BY <1>1, <1>5, <3>1 DEF Apart, RequestsApart
    <3>3. QED
      BY <1>1, <1>4, <3>1, <3>2 DEF Apart, LogApart, n
  <2>4. QED
    BY <1>3, <2>1, <2>2, <2>3 DEF LogApart
<1>10. QED
  BY <1>7, <1>8, <1>9 DEF Apart

(* A caller leaves. *)
LEMMA LeaveApart ==
    ASSUME IInv, Apart, [Next]_vars, NEW c \in Callers, Leave(c)
    PROVE  Apart'
<1>1. /\ cpc' = [cpc EXCEPT ![c] = "idle"] /\ creq' = [creq EXCEPT ![c] = NoRequest]
      /\ UNCHANGED <<calls, pc, batch, next, log>>
  BY DEF Leave, logVars
<1>2. \A d \in Callers : cpc'[d] = "idle" \/ (cpc'[d] = cpc[d] /\ creq'[d] = creq[d])
  BY <1>1 DEF IInv, TypeOK
<1>3. Len(batch) \in Nat /\ Len(log) \in Nat
  BY CallTypes DEF IInv
<1>4. Unlogged' = Unlogged
  BY <1>1 DEF Unlogged
<1>5. QED
  BY <1>1, <1>2, <1>3, <1>4, KeptApart

(* What the goroutine does to the requests of a batch before it answers them:
   they keep their calls and kinds. *)
LEMMA BatchKept ==
    ASSUME IInv, Prepare \/ SkipRecord \/ AppendRecord \/ AppendFails \/ Sync \/ SyncFails
    PROVE  /\ Len(batch') = Len(batch)
           /\ \A k \in 1 .. Len(batch) : batch'[k].call = batch[k].call
           /\ UNCHANGED <<cpc, creq, calls>>
           /\ pc \in {"drain", "log"} /\ pc' \in {"log", "apply"}
           /\ pc' = "log" => pc = "drain" \/ next <= next'
           /\ pc' = "apply" => next' = 1
<1>1. /\ Len(batch) \in Nat /\ next \in Nat \ {0} /\ batch \in Seq(Request)
      /\ \A k \in 1 .. Len(batch) : batch[k] \in Request
      /\ DOMAIN batch = 1 .. Len(batch)
  BY CallTypes, LenProperties DEF IInv, TypeOK
<1>2. UNCHANGED <<cpc, creq, calls>>
  BY DEF Prepare, SkipRecord, AppendRecord, AppendFails, Sync, SyncFails, callerVars
<1>3. /\ pc \in {"drain", "log"} /\ pc' \in {"log", "apply"}
      /\ pc' = "apply" => next' = 1
  BY DEF Prepare, SkipRecord, AppendRecord, AppendFails, LogFails, Sync, SyncFails
<1>4. pc' = "log" => pc = "drain" \/ next <= next'
  <2>1. pc' = "log" => pc = "drain" \/ next' = next + 1
    BY DEF Prepare, SkipRecord, AppendRecord, AppendFails, LogFails, Sync, SyncFails
  <2>2. QED
    BY <1>1, <2>1
<1>5. Len(batch') = Len(batch) /\ \A k \in 1 .. Len(batch) : batch'[k].call = batch[k].call
  <2>1. CASE Prepare
    <3>1. PICK rejected \in SUBSET { k \in DOMAIN batch : batch[k].kind = "submit" } :
            batch' = [ k \in DOMAIN batch |->
                        Checked(batch[k], nextOrderID + Submits(k), k \in rejected) ]
      BY <2>1 DEF Prepare
    <3>2. \A id, no : \A req \in Request : Checked(req, id, no).call = req.call
      BY DEF Checked, Request
    <3>3. \A k \in 1 .. Len(batch) : batch'[k].call = batch[k].call
      BY <1>1, <3>1, <3>2
    <3>4. DOMAIN batch' = 1 .. Len(batch)
      BY <1>1, <3>1
    <3>5. batch' \in Seq(Request)
      BY <2>1, PrepareIInv DEF IInv, TypeOK
    <3>6. Len(batch') \in Nat /\ DOMAIN batch' = 1 .. Len(batch')
      BY <3>5, LenProperties
    <3>7. QED
      BY <1>1, <3>3, <3>4, <3>6
  <2>2. CASE SkipRecord \/ Sync \/ SyncFails
    BY <2>2 DEF SkipRecord, Sync, SyncFails
  <2>3. CASE AppendRecord
    BY <2>3, AppendedRecord
  <2>4. CASE AppendFails
    <3>1. next \in 1 .. Len(batch) /\ seq + 1 \in Nat
      <4>1. next <= Len(batch) /\ seq \in Nat
        BY <2>4 DEF AppendFails, IInv, TypeOK
      <4>2. QED
        BY <1>1, <4>1
    <3>2. batch' = [batch EXCEPT ![next] = [batch[next] EXCEPT !.seq = seq + 1]]
      BY <2>4 DEF AppendFails
    <3>3. [batch[next] EXCEPT !.seq = seq + 1] \in Request
      BY <1>1, <3>1, PositionedRequest
    <3>4. [batch[next] EXCEPT !.seq = seq + 1].call = batch[next].call
      BY <1>1, <3>1 DEF Request
    <3>5. /\ Len(batch') = Len(batch)
          /\ \A k \in 1 .. Len(batch) :
               batch'[k] = IF k = next THEN [batch[next] EXCEPT !.seq = seq + 1] ELSE batch[k]
      BY <1>1, <3>1, <3>2, <3>3, ExceptSeq
    <3>6. QED
      BY <3>4, <3>5
  <2>5. QED
    BY <2>1, <2>2, <2>3, <2>4
<1>6. QED
  BY <1>2, <1>3, <1>4, <1>5

(* An answer, and with the last one the end of the batch. *)
LEMMA AnsweredKept ==
    ASSUME IInv, ServeSnapshot \/ RejectPreTrade \/ RejectWAL \/ Apply
    PROVE  /\ pc = "apply" /\ next \in 1 .. Len(batch)
           /\ \/ pc' = "select" /\ batch' = <<>>
              \/ pc' = "apply" /\ batch' = batch /\ next' = next + 1
           /\ UNCHANGED <<cpc, creq, calls, nextOrderID, walErr, log, crashes>>
<1>1. Applying /\ \E position, err, state : Reply(batch[next], position, err, state)
  BY DEF ServeSnapshot, RejectPreTrade, RejectWAL, Apply
<1>2. NextReply /\ UNCHANGED <<cpc, creq, calls, nextOrderID, walErr, log, crashes>>
  BY <1>1 DEF Reply, callerVars, logVars
<1>3. pc = "apply" /\ next \in 1 .. Len(batch)
  BY <1>1, CallTypes DEF Applying, IInv
<1>4. QED
  BY <1>2, <1>3 DEF NextReply

LEMMA NextApart ==
    ASSUME IInv, Owned, Apart, [Next]_vars
    PROVE  Apart'
<1>1. Len(batch) \in Nat /\ Len(log) \in Nat /\ next \in Nat
  BY CallTypes DEF IInv
<1>2. ASSUME NEW c \in Callers, CallerStep(c) \/ Receive(c) \/ Drain(c) PROVE Apart'
  <2>1. CASE \E kind \in Kinds : Call(c, kind)
    BY <2>1, CallApart
  <2>2. CASE RefusedClosed(c) \/ CancelSending(c) \/ GetReply(c) \/ CancelWaiting(c)
    BY <2>2, LeaveApart
       DEF RefusedClosed, CancelSending, GiveUpSending, GetReply, CancelWaiting
  <2>3. QED
    BY <1>2, <2>1, <2>2, TakeApart DEF CallerStep
<1>3. CASE AppendRecord
  BY <1>3, AppendApart
<1>4. CASE ~AppendRecord /\ (Prepare \/ SkipRecord \/ AppendFails \/ Sync \/ SyncFails)
  <2>1. /\ Len(batch') = Len(batch)
        /\ \A k \in 1 .. Len(batch) : batch'[k].call = batch[k].call
        /\ UNCHANGED <<cpc, creq, calls>>
        /\ pc \in {"drain", "log"} /\ pc' \in {"log", "apply"}
        /\ pc' = "log" => pc = "drain" \/ next <= next'
    BY <1>4, BatchKept
  <2>2. /\ Len(log') \in Nat /\ Len(log') <= Len(log)
        /\ \A k \in 1 .. Len(log') : log'[k] = log[k]
    BY <1>4, LogShrinks
  <2>3. next' \in Nat
    BY NextIInv DEF IInv, TypeOK
  <2>4. Unlogged' \subseteq Unlogged
    BY <1>1, <2>1, <2>3 DEF Unlogged
  <2>5. QED
    BY <1>1, <2>1, <2>2, <2>4, KeptApart
<1>5. CASE ServeSnapshot \/ RejectPreTrade \/ RejectWAL \/ Apply
  <2>1. /\ pc = "apply" /\ UNCHANGED <<cpc, creq, calls, log>>
        /\ \/ pc' = "select" /\ batch' = <<>>
           \/ pc' = "apply" /\ batch' = batch
    BY <1>5, AnsweredKept
  <2>2. /\ Len(batch') \in Nat /\ Len(batch') <= Len(batch)
        /\ \A k \in 1 .. Len(batch') : batch'[k].call = batch[k].call
        /\ Unlogged' = {}
    BY <1>1, <2>1 DEF Unlogged
  <2>3. QED
    BY <1>1, <2>1, <2>2, KeptApart
<1>6. CASE Crash
  <2>1. /\ pc' = "down" /\ batch' = <<>> /\ calls' = calls
        /\ \A c \in Callers : cpc'[c] = "idle"
    BY <1>6 DEF Crash
  <2>2. Len(<<>>) = 0
    OBVIOUS
  <2>3. /\ Len(batch') \in Nat /\ Len(batch') <= Len(batch)
        /\ \A k \in 1 .. Len(batch') : batch'[k].call = batch[k].call
        /\ Unlogged' = {}
    BY <1>1, <2>1, <2>2 DEF Unlogged
  <2>4. ~AppendRecord
    BY <1>6 DEF Crash, AppendRecord
  <2>5. /\ Len(log') \in Nat /\ Len(log') <= Len(log)
        /\ \A k \in 1 .. Len(log') : log'[k] = log[k]
    BY <2>4, LogShrinks
  <2>6. QED
    BY <2>1, <2>3, <2>5, KeptApart
<1>7. CASE RequestStop \/ Stop \/ Restart \/ UNCHANGED vars
  <2>1. UNCHANGED <<cpc, creq, calls, batch, next>>
    BY <1>7 DEF RequestStop, Stop, Restart, vars, callerVars
  <2>2. pc' = pc \/ pc' \in {"select", "stopped"}
    BY <1>7 DEF RequestStop, Stop, Restart, vars
  <2>3. Unlogged' \subseteq Unlogged
    BY <2>1, <2>2 DEF Unlogged
  <2>4. ~AppendRecord
    <3>1. next \in Nat /\ next' = next
      BY <1>1, <2>1
    <3>2. QED
      BY <3>1 DEF AppendRecord
  <2>5. /\ Len(log') \in Nat /\ Len(log') <= Len(log)
        /\ \A k \in 1 .. Len(log') : log'[k] = log[k]
    BY <2>4, LogShrinks
  <2>6. QED
    BY <1>1, <2>1, <2>3, <2>5, KeptApart
<1>8. QED
  BY <1>2, <1>3, <1>4, <1>5, <1>6, <1>7 DEF Next, CommitStep, Finished

-----------------------------------------------------------------------------
(* The book.                                                               *)

(* A call that is not in the log is not in the book. *)
LEMMA BookInLog ==
    ASSUME IInv
    PROVE  \A k \in 1 .. Len(applied) : k \in 1 .. Len(log) /\ applied[k] = log[k]
<1>1. /\ Len(applied) \in Nat /\ Len(log) \in Nat /\ synced \in Nat /\ flushed \in Nat
      /\ Len(applied) <= synced /\ synced <= flushed /\ flushed <= Len(log)
      /\ \A k \in 1 .. Len(applied) : applied[k] = log[k]
  BY CallTypes DEF IInv, TypeOK, Safe, AppliedIsDurable, Watermarks
<1>2. QED
  BY <1>1

(* Only answers and recovery change the book and the refusals. *)
LEMMA BookKept ==
    ASSUME [Next]_vars, ~Apply, ~Restart
    PROVE  UNCHANGED applied /\ (~RejectWAL => UNCHANGED refused)
<1>1. UNCHANGED applied
  BY DEF Next, vars, CallerStep, Call, RefusedClosed, CancelSending, GiveUpSending,
         GetReply, CancelWaiting, Leave, Receive, Drain, Take, CommitStep, Prepare,
         SkipRecord, AppendRecord, AppendFails, Sync, SyncFails, ServeSnapshot,
         RejectPreTrade, RejectWAL, RequestStop, Stop, Crash, Finished
<1>2. ~RejectWAL => UNCHANGED refused
  BY DEF Next, vars, CallerStep, Call, RefusedClosed, CancelSending, GiveUpSending,
         GetReply, CancelWaiting, Leave, Receive, Drain, Take, CommitStep, Prepare,
         SkipRecord, AppendRecord, AppendFails, Sync, SyncFails, ServeSnapshot,
         RejectPreTrade, RequestStop, Stop, Crash, Finished, history
<1>3. QED
  BY <1>1, <1>2

(* Apply: the record of the next request becomes the last of the book. *)
LEMMA AppliedRecord ==
    ASSUME IInv, Apply
    PROVE  /\ Len(applied') = Len(applied) + 1
           /\ applied'[Len(applied) + 1] = RecordOf(batch[next])
           /\ \A k \in 1 .. Len(applied) : applied'[k] = applied[k]
           /\ acked' = acked \cup {RecordOf(batch[next])}
           /\ UNCHANGED refused /\ ~walErr
<1>1. RecordOf(batch[next]) \in Record /\ applied \in Seq(Record)
  BY ApplyIsSafe DEF IInv, TypeOK
<1>2. /\ applied' = Append(applied, RecordOf(batch[next]))
      /\ acked' = acked \cup {RecordOf(batch[next])}
      /\ UNCHANGED refused /\ ~walErr
  BY DEF Apply
<1>3. QED
  BY <1>1, <1>2, AppendProperties

LEMMA NextBookApart ==
    ASSUME IInv, Owned, Apart, BookApart, [Next]_vars
    PROVE  BookApart'
<1>1. Len(batch) \in Nat /\ Len(applied) \in Nat /\ next \in Nat \ {0}
  BY CallTypes DEF IInv
<1>2. ASSUME UNCHANGED applied, Pending' \subseteq Pending,
             \A k \in Pending' : batch'[k].call = batch[k].call
      PROVE  BookApart'
  BY <1>2 DEF BookApart
<1>3. ASSUME NEW c \in Callers, Receive(c) \/ Drain(c) PROVE BookApart'
  <2>1. /\ cpc[c] = "sending" /\ pc' = "drain" /\ UNCHANGED applied
        /\ Len(batch') = Len(batch) + 1 /\ batch'[Len(batch) + 1] = creq[c]
        /\ \A k \in 1 .. Len(batch) : batch'[k] = batch[k]
        /\ pc \in {"select", "drain"}
    BY <1>3, TakenRequest
  <2>2. \A j \in Pending' : (j \in Pending /\ batch'[j] = batch[j]) \/ batch'[j] = creq[c]
    BY <1>1, <2>1 DEF Pending
  <2>3. \A k \in 1 .. Len(applied) : applied[k].call # creq[c].call
    BY <2>1, BookInLog DEF Apart, LogApart
  <2>4. QED
    BY <2>1, <2>2, <2>3 DEF BookApart
<1>4. CASE Prepare \/ SkipRecord \/ AppendRecord \/ AppendFails \/ Sync \/ SyncFails
  <2>1. /\ Len(batch') = Len(batch)
        /\ \A k \in 1 .. Len(batch) : batch'[k].call = batch[k].call
        /\ pc \in {"drain", "log"}
    BY <1>4, BatchKept
  <2>2. Pending' \subseteq Pending /\ Pending \subseteq 1 .. Len(batch)
    BY <2>1 DEF Pending
  <2>3. UNCHANGED applied
    BY <1>4 DEF Prepare, SkipRecord, AppendRecord, AppendFails, Sync, SyncFails
  <2>4. QED
    BY <1>2, <2>1, <2>2, <2>3
<1>5. CASE ServeSnapshot \/ RejectPreTrade \/ RejectWAL \/ Apply
  <2>1. /\ pc = "apply" /\ next \in 1 .. Len(batch)
        /\ \/ pc' = "select" /\ batch' = <<>>
           \/ pc' = "apply" /\ batch' = batch /\ next' = next + 1
    BY <1>5, AnsweredKept
  <2>2. /\ next \in Pending /\ Pending \subseteq 1 .. Len(batch)
        /\ Pending' \subseteq Pending \ {next}
        /\ \A k \in Pending' : batch'[k].call = batch[k].call
    <3>1. CASE pc' = "select" /\ batch' = <<>>
      BY <1>1, <2>1, <3>1 DEF Pending
    <3>2. CASE pc' = "apply" /\ batch' = batch /\ next' = next + 1
      BY <1>1, <2>1, <3>2 DEF Pending
    <3>3. QED
      BY <2>1, <3>1, <3>2
  <2>3. CASE Apply
    <3>1. /\ Len(applied') = Len(applied) + 1
          /\ applied'[Len(applied) + 1].call = batch[next].call
          /\ \A k \in 1 .. Len(applied) : applied'[k] = applied[k]
      BY <2>3, AppliedRecord DEF RecordOf
    <3>2. \A j \in Pending' : batch[j].call # batch[next].call
      BY <2>1, <2>2 DEF Apart, RequestsApart
    <3>3. \A k \in 1 .. Len(applied') : k \in 1 .. Len(applied) \/ k = Len(applied) + 1
      BY <1>1, <3>1
    <3>4. QED
      BY <2>2, <3>1, <3>2, <3>3 DEF BookApart
  <2>4. CASE ServeSnapshot \/ RejectPreTrade \/ RejectWAL
    <3>1. UNCHANGED applied
      BY <2>4 DEF ServeSnapshot, RejectPreTrade, RejectWAL
    <3>2. QED
      BY <1>2, <2>2, <3>1
  <2>5. QED
    BY <1>5, <2>3, <2>4
<1>6. CASE Crash \/ Restart
  <2>1. batch' = <<>> /\ Len(<<>>) = 0
    BY <1>6 DEF Crash, Restart, Owned, NoBatch
  <2>2. Pending' = {}
    BY <2>1 DEF Pending
  <2>3. QED
    BY <2>2 DEF BookApart
<1>7. CASE (\E c \in Callers : CallerStep(c)) \/ RequestStop \/ Stop \/ UNCHANGED vars
  <2>1. UNCHANGED <<batch, next, applied>>
    BY <1>7 DEF CallerStep, Call, RefusedClosed, CancelSending, GiveUpSending,
                GetReply, CancelWaiting, Leave, RequestStop, Stop, vars
  <2>2. pc' = pc \/ pc = "select"
    BY <1>7 DEF CallerStep, Call, RefusedClosed, CancelSending, GiveUpSending,
                GetReply, CancelWaiting, Leave, RequestStop, Stop, vars
  <2>3. Pending' \subseteq Pending
    BY <2>1, <2>2 DEF Pending
  <2>4. QED
    BY <1>2, <2>1, <2>3
<1>8. QED
  BY <1>3, <1>4, <1>5, <1>6, <1>7 DEF Next, CommitStep, Finished

LEMMA NextRefusedApart ==
    ASSUME IInv, Owned, BookApart, RefusedApart, [Next]_vars
    PROVE  RefusedApart'
<1>1. crashes \in Nat /\ Len(applied) \in Nat /\ next \in Nat /\ Len(batch) \in Nat
  BY CallTypes, MaxCrashesAssumption DEF IInv, TypeOK
<1>2. CASE Crash
  <2>1. crashes' # 0
    BY <1>1, <1>2 DEF Crash
  <2>2. QED
    BY <2>1 DEF RefusedApart
<1>3. CASE Restart
  <2>1. pc = "down" /\ crashes' = crashes
    BY <1>3 DEF Restart, history
  <2>2. QED
    BY <2>1 DEF RefusedApart
<1>4. CASE Apply
  <2>1. /\ pc' \in {"select", "apply"} /\ UNCHANGED <<walErr, crashes>>
    BY <1>4, AnsweredKept
  <2>2. UNCHANGED refused /\ ~walErr
    BY <1>4, AppliedRecord
  <2>3. crashes = 0 => refused = {}
    BY <2>2 DEF RefusedApart
  <2>4. QED
    BY <2>1, <2>2, <2>3 DEF RefusedApart
<1>5. CASE RejectWAL
  <2>1. /\ pc = "apply" /\ next \in 1 .. Len(batch) /\ pc' \in {"select", "apply"}
        /\ UNCHANGED <<walErr, crashes>>
    BY <1>5, AnsweredKept
  <2>2. /\ refused' = refused \cup {RecordOf(batch[next])} /\ walErr /\ UNCHANGED applied
        /\ RecordOf(batch[next]).call = batch[next].call
    BY <1>5 DEF RejectWAL, RecordOf
  <2>3. \A k \in 1 .. Len(applied) : applied[k].call # batch[next].call
    <3>1. next \in Pending
      BY <1>1, <2>1 DEF Pending
    <3>2. QED
      BY <3>1 DEF BookApart
  <2>4. QED
    BY <2>1, <2>2, <2>3 DEF RefusedApart
<1>6. CASE ~(Crash \/ Restart \/ Apply \/ RejectWAL)
  <2>1. UNCHANGED <<applied, refused>>
    BY <1>6, BookKept
  <2>2. crashes' = crashes /\ (pc' = pc \/ pc' # "down")
    BY <1>6 DEF Next, vars, CallerStep, Call, RefusedClosed, CancelSending, GiveUpSending,
         GetReply, CancelWaiting, Leave, Receive, Drain, Take, CommitStep, Prepare,
         SkipRecord, AppendRecord, AppendFails, LogFails, Sync, SyncFails, ServeSnapshot,
         RejectPreTrade, Reply, NextReply, RequestStop, Stop, Finished, history
  <2>3. walErr => walErr'
    BY <1>6 DEF Next, vars, CallerStep, Call, RefusedClosed, CancelSending, GiveUpSending,
         GetReply, CancelWaiting, Leave, Receive, Drain, Take, CommitStep, Prepare,
         SkipRecord, AppendRecord, AppendFails, LogFails, Sync, SyncFails, ServeSnapshot,
         RejectPreTrade, Reply, RequestStop, Stop, Finished, seqVars
  <2>4. QED
    BY <2>1, <2>2, <2>3 DEF RefusedApart
<1>7. QED
  BY <1>2, <1>3, <1>4, <1>5, <1>6

-----------------------------------------------------------------------------
(* Order identifiers.                                                      *)

(* The count of submits grows with each of them. *)
LEMMA SubmitsAscend ==
    ASSUME NEW j \in Nat, NEW k \in Nat, j <= k
    PROVE  /\ Submits(j) <= Submits(k)
           /\ j < k /\ batch[k].kind = "submit" => Submits(j) < Submits(k)
<1> DEFINE S(n) == { i \in 1 .. n : batch[i].kind = "submit" }
<1>1. IsFiniteSet(S(k))
  <2>1. IsFiniteSet(1 .. k) /\ S(k) \subseteq 1 .. k
    BY FS_Interval
  <2>2. QED
    BY <2>1, FS_Subset
<1>2. S(j) \subseteq S(k)
  OBVIOUS
<1>3. j < k /\ batch[k].kind = "submit" => S(j) # S(k)
  <2>1. SUFFICES ASSUME j < k, batch[k].kind = "submit" PROVE S(j) # S(k)
    OBVIOUS
  <2>2. k \in S(k) /\ k \notin S(j)
    BY <2>1
  <2>3. QED
    BY <2>2
<1>4. Submits(j) = Cardinality(S(j)) /\ Submits(k) = Cardinality(S(k))
  BY DEF Submits
<1> HIDE DEF S
<1>5. /\ Cardinality(S(j)) <= Cardinality(S(k))
      /\ Cardinality(S(j)) = Cardinality(S(k)) => S(j) = S(k)
  BY <1>1, <1>2, FS_Subset
<1>6. Submits(j) \in Nat /\ Submits(k) \in Nat
  BY SubmitsType
<1>7. QED
  BY <1>3, <1>4, <1>5, <1>6

(* commit: the submits of a batch get identifiers above all that were given. *)
LEMMA PrepareIDs ==
    ASSUME IInv, Prepare
    PROVE  /\ UNCHANGED log /\ nextOrderID <= nextOrderID'
           /\ \A k \in 1 .. Len(batch) : batch'[k].kind = batch[k].kind
           /\ \A k \in 1 .. Len(batch) : batch[k].kind = "submit" =>
                /\ batch'[k].orderID = nextOrderID + Submits(k)
                /\ nextOrderID < batch'[k].orderID /\ batch'[k].orderID <= nextOrderID'
<1>1. PICK rejected \in SUBSET { k \in DOMAIN batch : batch[k].kind = "submit" } :
        batch' = [ k \in DOMAIN batch |->
                    Checked(batch[k], nextOrderID + Submits(k), k \in rejected) ]
  BY DEF Prepare
<1>2. /\ DOMAIN batch = 1 .. Len(batch) /\ Len(batch) \in Nat /\ nextOrderID \in Nat
      /\ \A k \in 1 .. Len(batch) : batch[k] \in Request
  BY CallTypes, LenProperties DEF IInv, TypeOK
<1>3. \A id, no : \A req \in Request :
        /\ Checked(req, id, no).kind = req.kind
        /\ req.kind = "submit" => Checked(req, id, no).orderID = id
  BY DEF Checked, Request
<1>4. UNCHANGED log /\ nextOrderID' = nextOrderID + Submits(Len(batch))
  BY DEF Prepare, logVars
<1>5. /\ Submits(0) \in Nat /\ Submits(Len(batch)) \in Nat
  BY <1>2, SubmitsType
<1>6. ASSUME NEW k \in 1 .. Len(batch), batch[k].kind = "submit"
      PROVE  Submits(k) \in Nat \ {0} /\ Submits(k) <= Submits(Len(batch))
  <2>1. k \in Nat /\ 0 < k /\ k <= Len(batch) /\ 0 <= k /\ 0 \in Nat
    BY <1>2
  <2>2. Submits(k) \in Nat /\ Submits(0) < Submits(k) /\ Submits(k) <= Submits(Len(batch))
    BY <1>2, <1>6, <2>1, SubmitsType, SubmitsAscend
  <2>3. QED
    BY <1>5, <2>2
<1>7. \A k \in 1 .. Len(batch) :
        /\ batch'[k].kind = batch[k].kind
        /\ batch[k].kind = "submit" => batch'[k].orderID = nextOrderID + Submits(k)
  BY <1>1, <1>2, <1>3
<1>8. ASSUME NEW k \in 1 .. Len(batch), batch[k].kind = "submit"
      PROVE  nextOrderID < batch'[k].orderID /\ batch'[k].orderID <= nextOrderID'
  BY <1>2, <1>4, <1>5, <1>6, <1>7, <1>8
<1>9. QED
  BY <1>2, <1>4, <1>5, <1>7, <1>8

(* Recovery takes up an identifier that no record exceeds. *)
LEMMA MaxIDCovers ==
    ASSUME IInv
    PROVE  \A k \in 1 .. Len(log) : log[k].orderID <= MaxID(log)
<1> DEFINE ids == {0} \cup { log[k].orderID : k \in DOMAIN log }
<1>1. /\ DOMAIN log = 1 .. Len(log) /\ \A k \in 1 .. Len(log) : log[k].orderID \in Nat
  BY CallTypes, LenProperties DEF IInv, TypeOK
<1>2. ids \in SUBSET Nat /\ 0 \in ids /\ \A k \in 1 .. Len(log) : log[k].orderID \in ids
  BY <1>1
<1>3. PICK b \in Nat : \A k \in 1 .. Len(log) : log[k].orderID <= b
  BY DEF IInv, Safe, IDsBounded
<1>4. \A n \in ids : n <= b
  BY <1>1, <1>3
<1>5. MaxID(log) = CHOOSE m \in ids : \A n \in ids : n <= m
  BY DEF MaxID
<1> HIDE DEF ids
<1>6. \E m \in ids : \A n \in ids : n <= m
  BY <1>2, <1>4, MaximumExists
<1>7. \A n \in ids : n <= MaxID(log)
  BY <1>5, <1>6
<1>8. QED
  BY <1>2, <1>7

(* The identifiers stay as they are while the log only gets shorter. *)
LEMMA KeptIDs ==
    ASSUME IInv, IDsAscend, UNCHANGED nextOrderID,
           Len(log') \in Nat, Len(log') <= Len(log), \A k \in 1 .. Len(log') : log'[k] = log[k],
           pc' = "log" => pc = "log" /\ batch' = batch /\ Unlogged' \subseteq Unlogged
    PROVE  IDsAscend'
<1>1. \A k \in 1 .. Len(log') : k \in 1 .. Len(log) /\ log'[k] = log[k]
  BY CallTypes DEF IInv
<1>2. OrderIDsAscend'
  BY <1>1 DEF IDsAscend, OrderIDsAscend
<1>3. \A k \in 1 .. Len(log') : log'[k].kind = "submit" => log'[k].orderID <= nextOrderID'
  BY <1>1 DEF IDsAscend
<1>4. CASE pc' = "log"
  <2>1. pc = "log" /\ batch' = batch /\ Unlogged' \subseteq Unlogged
    BY <1>4
  <2>2. \A j \in Unlogged' : \A k \in 1 .. Len(log') :
          batch'[j].kind = "submit" /\ log'[k].kind = "submit" =>
              log'[k].orderID < batch'[j].orderID
    BY <1>1, <2>1 DEF IDsAscend
  <2>3. QED
    BY <1>2, <1>3, <2>1, <2>2 DEF IDsAscend
<1>5. CASE pc' # "log"
  BY <1>2, <1>3, <1>5 DEF IDsAscend
<1>6. QED
  BY <1>4, <1>5

LEMMA PreparedIDs ==
    ASSUME IInv, IDsAscend, Prepare
    PROVE  IDsAscend'
<1>1. /\ UNCHANGED log /\ nextOrderID <= nextOrderID'
      /\ \A k \in 1 .. Len(batch) : batch'[k].kind = batch[k].kind
      /\ \A k \in 1 .. Len(batch) : batch[k].kind = "submit" =>
           /\ batch'[k].orderID = nextOrderID + Submits(k)
           /\ nextOrderID < batch'[k].orderID /\ batch'[k].orderID <= nextOrderID'
  BY PrepareIDs
<1>2. /\ Len(batch) \in Nat /\ nextOrderID \in Nat /\ nextOrderID' \in Nat
      /\ \A k \in 1 .. Len(log) : log[k].orderID \in Nat
      /\ \A k \in 1 .. Len(batch) : Submits(k) \in Nat
  <2>1. /\ Len(batch) \in Nat /\ nextOrderID \in Nat
        /\ \A k \in 1 .. Len(log) : log[k].orderID \in Nat
    BY CallTypes DEF IInv
  <2>2. nextOrderID' \in Nat
    BY PrepareIInv DEF IInv, TypeOK
  <2>3. \A k \in 1 .. Len(batch) : Submits(k) \in Nat
    BY SubmitsType
  <2>4. QED
    BY <2>1, <2>2, <2>3
<1>3. Len(batch') = Len(batch)
  BY BatchKept
<1>4. \A k \in 1 .. Len(log) : log[k].kind = "submit" => log[k].orderID <= nextOrderID
  BY DEF IDsAscend
<1>5. \A k \in 1 .. Len(log) : log[k].kind = "submit" => log[k].orderID <= nextOrderID'
  BY <1>1, <1>2, <1>4
<1>6. ASSUME NEW j \in 1 .. Len(batch), NEW k \in 1 .. Len(batch), j < k,
             batch[j].kind = "submit", batch[k].kind = "submit"
      PROVE  batch'[j].orderID < batch'[k].orderID
  <2>1. j \in Nat /\ k \in Nat /\ j <= k
    BY <1>2, <1>6
  <2>2. Submits(j) < Submits(k)
    BY <1>6, <2>1, SubmitsAscend
  <2>3. QED
    BY <1>1, <1>2, <1>6, <2>2
<1>7. ASSUME NEW j \in 1 .. Len(batch), NEW k \in 1 .. Len(log),
             batch[j].kind = "submit", log[k].kind = "submit"
      PROVE  log[k].orderID < batch'[j].orderID
  <2>1. nextOrderID < batch'[j].orderID /\ batch'[j].orderID = nextOrderID + Submits(j)
    BY <1>1, <1>7
  <2>2. log[k].orderID <= nextOrderID
    BY <1>4, <1>7
  <2>3. QED
    BY <1>2, <2>1, <2>2
<1>8. \A j \in Unlogged' : j \in 1 .. Len(batch)
  BY <1>3 DEF Unlogged
<1>9. OrderIDsAscend'
  BY <1>1 DEF IDsAscend, OrderIDsAscend
<1>10. QED
  BY <1>1, <1>3, <1>5, <1>6, <1>7, <1>8, <1>9 DEF IDsAscend

LEMMA AppendedIDs ==
    ASSUME IInv, IDsAscend, AppendRecord
    PROVE  IDsAscend'
<1> DEFINE n == Len(log)
<1>1. /\ pc = "log" /\ pc' = "log" /\ next \in 1 .. Len(batch) /\ next' = next + 1
      /\ Len(log') = n + 1 /\ \A k \in 1 .. n : log'[k] = log[k]
      /\ log'[n + 1].kind = batch[next].kind /\ log'[n + 1].orderID = batch[next].orderID
      /\ Len(batch') = Len(batch)
      /\ \A k \in 1 .. Len(batch) :
           batch'[k].kind = batch[k].kind /\ batch'[k].orderID = batch[k].orderID
  BY AppendedRecord
<1>2. n \in Nat /\ Len(batch) \in Nat
  BY CallTypes DEF IInv
<1>3. UNCHANGED nextOrderID
  BY DEF AppendRecord
<1>4. /\ next \in Unlogged /\ Unlogged \subseteq 1 .. Len(batch)
      /\ \A j \in Unlogged' : j \in Unlogged /\ next < j
  BY <1>1, <1>2 DEF Unlogged
<1>5. /\ \A k \in 1 .. Len(batch) : batch[k].kind = "submit" => batch[k].orderID <= nextOrderID
      /\ \A j, k \in 1 .. Len(batch) :
           j < k /\ batch[j].kind = "submit" /\ batch[k].kind = "submit" =>
               batch[j].orderID < batch[k].orderID
      /\ \A j \in Unlogged : \A k \in 1 .. n :
           batch[j].kind = "submit" /\ log[k].kind = "submit" =>
               log[k].orderID < batch[j].orderID
      /\ \A k \in 1 .. n : log[k].kind = "submit" => log[k].orderID <= nextOrderID
  BY <1>1 DEF IDsAscend, n
<1>6. \A j, k \in 1 .. n :
        j < k /\ log[j].kind = "submit" /\ log[k].kind = "submit" =>
            log[j].orderID < log[k].orderID
  BY DEF IDsAscend, OrderIDsAscend, n
<1> HIDE DEF n
<1>7. \A k \in 1 .. Len(log') : k \in 1 .. n \/ k = n + 1
  BY <1>1, <1>2
<1>8. ASSUME NEW j \in 1 .. Len(log'), NEW k \in 1 .. Len(log'), j < k,
             log'[j].kind = "submit", log'[k].kind = "submit"
      PROVE  log'[j].orderID < log'[k].orderID
  <2>1. CASE k \in 1 .. n
    <3>1. j \in 1 .. n
      BY <1>2, <1>8, <2>1
    <3>2. QED
      BY <1>1, <1>6, <1>8, <2>1, <3>1
  <2>2. CASE k = n + 1
    <3>1. j \in 1 .. n
      BY <1>2, <1>7, <1>8, <2>2
    <3>2. QED
      BY <1>1, <1>4, <1>5, <1>8, <2>2, <3>1
  <2>3. QED
    BY <1>7, <2>1, <2>2
<1>9. \A k \in 1 .. Len(log') : log'[k].kind = "submit" => log'[k].orderID <= nextOrderID'
  BY <1>1, <1>3, <1>5, <1>7
<1>10. ASSUME NEW j \in Unlogged', NEW k \in 1 .. Len(log'),
              batch'[j].kind = "submit", log'[k].kind = "submit"
       PROVE  log'[k].orderID < batch'[j].orderID
  <2>1. /\ j \in Unlogged /\ next < j /\ j \in 1 .. Len(batch)
        /\ batch'[j].kind = batch[j].kind /\ batch'[j].orderID = batch[j].orderID
    BY <1>1, <1>4
  <2>2. CASE k \in 1 .. n
    BY <1>1, <1>5, <1>10, <2>1, <2>2
  <2>3. CASE k = n + 1
    BY <1>1, <1>5, <1>10, <2>1, <2>3
  <2>4. QED
    BY <1>7, <2>2, <2>3
<1>11. /\ \A k \in 1 .. Len(batch') :
            batch'[k].kind = "submit" => batch'[k].orderID <= nextOrderID'
       /\ \A j, k \in 1 .. Len(batch') :
            j < k /\ batch'[j].kind = "submit" /\ batch'[k].kind = "submit" =>
                batch'[j].orderID < batch'[k].orderID
  BY <1>1, <1>3, <1>5
<1>12. OrderIDsAscend'
  BY <1>8 DEF OrderIDsAscend
<1>13. QED
  BY <1>9, <1>10, <1>11, <1>12 DEF IDsAscend

LEMMA NextIDs ==
    ASSUME IInv, IDsAscend, [Next]_vars
    PROVE  IDsAscend'
<1>1. CASE Restart
  <2>1. UNCHANGED log /\ nextOrderID' = MaxID(log) /\ pc' = "select"
    BY <1>1 DEF Restart
  <2>2. \A k \in 1 .. Len(log) : log[k].orderID <= MaxID(log)
    BY MaxIDCovers
  <2>3. QED
    BY <2>1, <2>2 DEF IDsAscend, OrderIDsAscend
<1>2. CASE ~(Prepare \/ AppendRecord \/ Restart)
  <2>1. UNCHANGED nextOrderID
    BY <1>2 DEF Next, vars, CallerStep, Call, RefusedClosed, CancelSending, GiveUpSending,
         GetReply, CancelWaiting, Leave, Receive, Drain, Take, CommitStep,
         SkipRecord, AppendFails, Sync, SyncFails, ServeSnapshot, RejectPreTrade, RejectWAL,
         Apply, Reply, RequestStop, Stop, Crash, Finished, seqVars
  <2>2. next \in Nat
    BY DEF IInv, TypeOK
  <2>3. pc' = "log" => pc = "log" /\ batch' = batch /\ next' \in {next, next + 1}
    BY <1>2 DEF Next, vars, CallerStep, Call, RefusedClosed, CancelSending, GiveUpSending,
         GetReply, CancelWaiting, Leave, Receive, Drain, Take, CommitStep,
         SkipRecord, AppendFails, LogFails, Sync, SyncFails, ServeSnapshot, RejectPreTrade,
         RejectWAL, Apply, Applying, Reply, NextReply, RequestStop, Stop, Crash, Finished
  <2>4. pc' = "log" => Unlogged' \subseteq Unlogged
    BY <2>2, <2>3 DEF Unlogged
  <2>5. /\ Len(log') \in Nat /\ Len(log') <= Len(log)
        /\ \A k \in 1 .. Len(log') : log'[k] = log[k]
    BY <1>2, LogShrinks
  <2>6. QED
    BY <2>1, <2>3, <2>4, <2>5, KeptIDs
<1>3. QED
  BY <1>1, <1>2, PreparedIDs, AppendedIDs

-----------------------------------------------------------------------------

LEMMA InitCInv == Init => CInv
<1> SUFFICES ASSUME Init PROVE CInv
  OBVIOUS
<1>1. /\ \A c \in Callers : cpc[c] = "idle"
      /\ batch = <<>> /\ log = <<>> /\ applied = <<>> /\ pc = "select" /\ refused = {}
  BY DEF Init
<1>2. Len(<<>>) = 0
  OBVIOUS
<1>3. 1 .. Len(batch) = {} /\ 1 .. Len(log) = {} /\ 1 .. Len(applied) = {}
  BY <1>1, <1>2
<1>4. Unlogged = {} /\ Pending = {}
  BY <1>3 DEF Unlogged, Pending
<1>5. MadeCalls /\ RequestsApart /\ LogApart
  BY <1>1, <1>3, <1>4 DEF MadeCalls, RequestsApart, LogApart
<1>6. BookApart /\ RefusedApart
  BY <1>1, <1>3, <1>4 DEF BookApart, RefusedApart
<1>7. IDsAscend
  BY <1>1, <1>3, <1>4 DEF IDsAscend, OrderIDsAscend
<1>8. QED
  BY <1>5, <1>6, <1>7 DEF CInv

LEMMA AlwaysCInv == Spec => [](IInv /\ RInv /\ CInv)
<1>1. IInv /\ RInv /\ CInv /\ [Next]_vars => CInv'
  BY NextApart, NextBookApart, NextRefusedApart, NextIDs DEF RInv, CInv, Apart
<1>2. QED
  BY <1>1, InitCInv, AlwaysRInv, PTL DEF Spec

(* No failure, roll back or restart logs a call twice, and until a restart a
   call whose caller was told that the log failed is not in the book. *)
THEOREM CallsLoggedOnce == Spec => []LoggedOnce
<1>1. IInv /\ CInv => LoggedOnce
  <2> SUFFICES ASSUME IInv, CInv PROVE LoggedOnce
    OBVIOUS
  <2>1. DOMAIN applied = 1 .. Len(applied)
    BY LenProperties DEF IInv, TypeOK
  <2>2. QED
    BY <2>1 DEF CInv, LogApart, RefusedApart, LoggedOnce
<1>2. QED
  BY <1>1, AlwaysCInv, PTL

(* Identifiers ascend along the log through refused orders, failed batches and
   restarts, which take them up from the log alone. *)
THEOREM IDsAscending == Spec => []OrderIDsAscend
<1>1. CInv => OrderIDsAscend
  BY DEF CInv, IDsAscend
<1>2. QED
  BY <1>1, AlwaysCInv, PTL

-----------------------------------------------------------------------------
(* The refinement of SequencerSpec.                                        *)

(* The history of a book, as SequencerSpec sees it. *)
CallsOf(records) == [k \in DOMAIN records |-> records[k].call]

LEMMA CallsOfProperties ==
    ASSUME NEW s \in Seq(Record)
    PROVE  /\ CallsOf(s) \in Seq(Calls) /\ Len(CallsOf(s)) = Len(s) /\ Len(s) \in Nat
           /\ DOMAIN CallsOf(s) = 1 .. Len(s)
           /\ \A k \in 1 .. Len(s) : CallsOf(s)[k] = s[k].call
<1>1. Len(s) \in Nat /\ DOMAIN s = 1 .. Len(s) /\ \A k \in 1 .. Len(s) : s[k] \in Record
  BY LenProperties, ElementOfSeq
<1>2. \A r \in Record : r.call \in Calls
  BY DEF Record
<1>3. CallsOf(s) \in [1 .. Len(s) -> Calls]
  BY <1>1, <1>2 DEF CallsOf
<1>4. CallsOf(s) \in Seq(Calls)
  BY <1>1, <1>3, SeqDef
<1>5. DOMAIN CallsOf(s) = 1 .. Len(s) /\ \A k \in 1 .. Len(s) : CallsOf(s)[k] = s[k].call
  BY <1>1 DEF CallsOf
<1>6. Len(CallsOf(s)) = Len(s)
  <2>1. Len(CallsOf(s)) \in Nat /\ DOMAIN CallsOf(s) = 1 .. Len(CallsOf(s))
    BY <1>4, LenProperties
  <2>2. QED
    BY <1>1, <1>5, <2>1
<1>7. QED
  BY <1>1, <1>4, <1>5, <1>6

LEMMA CallsOfAppend ==
    ASSUME NEW s \in Seq(Record), NEW r \in Record
    PROVE  CallsOf(Append(s, r)) = Append(CallsOf(s), r.call)
<1> DEFINE t == Append(s, r)
           u == Append(CallsOf(s), r.call)
<1>1. r.call \in Calls
  BY DEF Record
<1>2. /\ t \in Seq(Record) /\ Len(t) = Len(s) + 1 /\ t[Len(s) + 1] = r
      /\ \A k \in 1 .. Len(s) : t[k] = s[k]
  BY AppendProperties
<1>3. /\ CallsOf(s) \in Seq(Calls) /\ Len(CallsOf(s)) = Len(s) /\ Len(s) \in Nat
      /\ \A k \in 1 .. Len(s) : CallsOf(s)[k] = s[k].call
  BY CallsOfProperties
<1>4. /\ u \in Seq(Calls) /\ Len(u) = Len(s) + 1 /\ u[Len(s) + 1] = r.call
      /\ \A k \in 1 .. Len(s) : u[k] = s[k].call
  BY <1>1, <1>3, AppendProperties
<1> HIDE DEF t, u
<1>5. /\ CallsOf(t) \in Seq(Calls) /\ Len(CallsOf(t)) = Len(t)
      /\ \A k \in 1 .. Len(t) : CallsOf(t)[k] = t[k].call
  BY <1>2, CallsOfProperties
<1>6. \A k \in 1 .. Len(s) + 1 : k \in 1 .. Len(s) \/ k = Len(s) + 1
  BY <1>3
<1>7. \A k \in 1 .. Len(CallsOf(t)) : CallsOf(t)[k] = u[k]
  BY <1>2, <1>4, <1>5, <1>6
<1>8. CallsOf(t) = u
  BY <1>2, <1>4, <1>5, <1>7, SeqEqual
<1>9. QED
  BY <1>8 DEF t, u

(* A log in which every call is there once is not longer than there are calls. *)
LEMMA LogLength ==
    ASSUME IInv, CInv
    PROVE  Len(log) <= calls /\ \A k \in 1 .. Len(log) : log[k].call \in 1 .. calls
<1> DEFINE f == CallsOf(log)
<1>1. Len(log) \in Nat /\ calls \in Nat /\ log \in Seq(Record)
  BY CallTypes DEF IInv, TypeOK
<1>2. \A k \in 1 .. Len(log) : log[k].call \in 1 .. calls
  <2>1. \A k \in 1 .. Len(log) : log[k] \in Record
    BY CallTypes DEF IInv
  <2>2. \A r \in Record : r.call \in Nat /\ 1 <= r.call
    BY MaxCallsAssumption DEF Record, Calls
  <2>3. \A k \in 1 .. Len(log) : log[k].call <= calls
    BY DEF CInv, MadeCalls
  <2>4. QED
    BY <1>1, <2>1, <2>2, <2>3
<1>3. /\ f \in [1 .. Len(log) -> 1 .. calls]
      /\ \A k \in 1 .. Len(log) : f[k] = log[k].call
  <2>1. /\ f \in Seq(Calls) /\ DOMAIN f = 1 .. Len(log)
        /\ \A k \in 1 .. Len(log) : f[k] = log[k].call
    BY <1>1, CallsOfProperties
  <2> HIDE DEF f
  <2>2. f = [k \in 1 .. Len(log) |-> f[k]]
    BY <2>1
  <2>3. QED
    BY <1>2, <2>1, <2>2
<1> HIDE DEF f
<1>4. f \in Injection(1 .. Len(log), 1 .. calls)
  BY <1>3 DEF CInv, LogApart, Injection, IsInjective
<1>5. IsFiniteSet(1 .. calls) /\ Cardinality(1 .. calls) = calls
      /\ Cardinality(1 .. Len(log)) = Len(log)
  <2>1. ASSUME NEW n \in Nat PROVE IsFiniteSet(1 .. n) /\ Cardinality(1 .. n) = n
    <3>1. 1 \in Int /\ n \in Int
      OBVIOUS
    <3>2. /\ IsFiniteSet(1 .. n)
          /\ Cardinality(1 .. n) = IF 1 > n THEN 0 ELSE n - 1 + 1
      BY <3>1, FS_Interval
    <3>3. QED
      BY <3>2
  <2>2. QED
    BY <1>1, <2>1
<1>6. Cardinality(1 .. Len(log)) <= Cardinality(1 .. calls)
  BY <1>4, <1>5, FS_Injection
<1>7. QED
  BY <1>2, <1>5, <1>6

(* Apply is the commit of a call that has not taken effect. *)
LEMMA ApplyCommits ==
    ASSUME IInv, RInv, CInv, Apply
    PROVE  \E call \in 1 .. calls : Promise!Commit(call)
<1> DEFINE r == RecordOf(batch[next])
<1>1. pc = "apply" /\ next \in 1 .. Len(batch) /\ UNCHANGED calls
  BY AnsweredKept
<1>2. applied \in Seq(Record) /\ r \in Record /\ applied' = Append(applied, r)
      /\ acked' = acked \cup {r} /\ r.call = batch[next].call
  BY ApplyIsSafe DEF Apply, RecordOf, IInv, TypeOK
<1>3. PICK call \in 1 .. calls : call = batch[next].call
  <2>1. batch[next].call <= calls /\ calls \in Nat /\ batch[next].call \in Nat
    BY <1>1, CallTypes DEF IInv, CInv, MadeCalls
  <2>2. r.call \in Nat /\ 1 <= r.call
    BY <1>2, MaxCallsAssumption DEF Record, Calls
  <2>3. batch[next].call \in 1 .. calls
    BY <1>2, <2>1, <2>2
  <2>4. QED
    BY <2>3
<1>4. \A k \in DOMAIN applied : applied[k].call # call
  <2>1. next \in Pending /\ DOMAIN applied = 1 .. Len(applied)
    BY <1>1, <1>2, CallTypes, LenProperties DEF Pending, IInv
  <2>2. QED
    BY <1>3, <2>1 DEF CInv, BookApart
<1> HIDE DEF r
<1>5. CallsOf(applied') = Append(CallsOf(applied), call)
  BY <1>2, <1>3, CallsOfAppend
<1>6. { a.call : a \in acked' } = { a.call : a \in acked } \cup {call}
  BY <1>2, <1>3
<1>7. Promise!Commit(call)
  BY <1>1, <1>3, <1>4, <1>5, <1>6 DEF Promise!Commit, Promise!TookEffect, CallsOf
<1>8. QED
  BY <1>3, <1>7

(* A restart adds what the log has beyond the book. *)
LEMMA RestartRecovers ==
    ASSUME IInv, CInv, Restart
    PROVE  Promise!Recover \/ UNCHANGED Promise!vars
<1> DEFINE n == Len(log) - Len(applied)
<1>1. /\ log \in Seq(Record) /\ applied \in Seq(Record) /\ calls \in Nat
      /\ Len(log) \in Nat /\ Len(applied) \in Nat
      /\ DOMAIN applied = 1 .. Len(applied) /\ DOMAIN log = 1 .. Len(log)
  BY CallTypes, LenProperties DEF IInv, TypeOK
<1>2. applied' = log /\ UNCHANGED <<calls, acked>>
  BY DEF Restart, Recovered, callerVars, history
<1>3. Len(applied) <= Len(log) /\ \A k \in 1 .. Len(applied) : applied[k] = log[k]
  <2>1. /\ synced \in Nat /\ flushed \in Nat
        /\ Len(applied) <= synced /\ synced <= flushed /\ flushed <= Len(log)
        /\ \A k \in 1 .. Len(applied) : applied[k] = log[k]
    BY DEF IInv, TypeOK, Safe, AppliedIsDurable, Watermarks
  <2>2. QED
    BY <1>1, <2>1
<1>4. Len(log) <= calls /\ \A k \in 1 .. Len(log) : log[k].call \in 1 .. calls
  BY LogLength
<1>5. CASE n = 0
  <2>1. applied = log
    BY <1>1, <1>3, <1>5, SeqEqual
  <2>2. QED
    BY <1>2, <2>1 DEF Promise!vars
<1>6. CASE n # 0
  <2>1. n \in 1 .. calls /\ Len(applied) + n = Len(log)
    <3>1. \A a, b, m \in Nat : a <= b /\ b <= m /\ b - a # 0 =>
            b - a \in 1 .. m /\ a + (b - a) = b
      OBVIOUS
    <3>2. Len(applied) <= Len(log) /\ Len(log) <= calls
      BY <1>3, <1>4
    <3>3. QED
      BY <1>1, <1>6, <3>1, <3>2
  <2> HIDE DEF n
  <2>2. CallsOf(log) \in [1 .. Len(applied) + n -> 1 .. calls]
    BY <1>1, <1>4, <2>1 DEF CallsOf
  <2>3. \A k \in DOMAIN applied : CallsOf(log)[k] = applied[k].call
    BY <1>1, <1>3 DEF CallsOf
  <2>4. \A j, k \in DOMAIN log : log[j].call = log[k].call => j = k
    BY <1>1 DEF CInv, LogApart
  <2>5. Len(CallsOf(applied)) = Len(applied)
    BY <1>1, CallsOfProperties
  <2>6. Promise!Recover
    <3>1. \E m \in 1 .. calls :
            CallsOf(applied') \in [1 .. Len(CallsOf(applied)) + m -> 1 .. calls]
      BY <1>2, <2>1, <2>2, <2>5
    <3>2. \A k \in DOMAIN CallsOf(applied) : CallsOf(applied')[k] = CallsOf(applied)[k]
      BY <1>2, <2>3 DEF CallsOf
    <3>3. \A j, k \in DOMAIN CallsOf(applied') :
            CallsOf(applied')[j] = CallsOf(applied')[k] => j = k
      BY <1>2, <2>4 DEF CallsOf
    <3>4. QED
      BY <1>2, <3>1, <3>2, <3>3 DEF Promise!Recover, CallsOf
  <2>7. QED
    BY <2>6
<1>7. QED
  BY <1>5, <1>6

(* The sequencer implements its promise to callers: through log failures,
   power loss and restarts there is one history of mutations that is only ever
   extended, in which a call is found at most once and never before it is
   made, and success is reported only for a call that is in it. *)
THEOREM KeepsPromise == Spec => ImplementsSequencerSpec
<1>1. Init => Promise!Init
  <2> SUFFICES ASSUME Init PROVE Promise!Init
    OBVIOUS
  <2>1. calls = 0 /\ applied = <<>> /\ acked = {}
    BY DEF Init
  <2>2. [k \in DOMAIN applied |-> applied[k].call] = <<>>
    BY <2>1
  <2>3. { r.call : r \in acked } = {}
    BY <2>1
  <2>4. QED
    BY <2>1, <2>2, <2>3 DEF Promise!Init
<1>2. IInv /\ RInv /\ CInv /\ [Next]_vars => [Promise!Next]_(Promise!vars)
  <2> SUFFICES ASSUME IInv, RInv, CInv, [Next]_vars PROVE [Promise!Next]_(Promise!vars)
    OBVIOUS
  <2>1. CASE Apply
    BY <2>1, ApplyCommits DEF Promise!Next
  <2>2. CASE Restart
    BY <2>2, RestartRecovers DEF Promise!Next
  <2>3. CASE \E c \in Callers, kind \in Kinds : Call(c, kind)
    <3>1. calls' = calls + 1 /\ UNCHANGED <<applied, acked>>
      BY <2>3 DEF Call, history
    <3>2. Promise!Invoke
      BY <3>1 DEF Promise!Invoke
    <3>3. QED
      BY <3>2 DEF Promise!Next
  <2>4. CASE ~(Apply \/ Restart \/ \E c \in Callers, kind \in Kinds : Call(c, kind))
    <3>1. UNCHANGED <<calls, applied, acked>>
      BY <2>4 DEF Next, vars, CallerStep, RefusedClosed, CancelSending, GiveUpSending,
         GetReply, CancelWaiting, Leave, Receive, Drain, Take, CommitStep, Prepare,
         SkipRecord, AppendRecord, AppendFails, Sync, SyncFails, ServeSnapshot,
         RejectPreTrade, RejectWAL, Reply, RequestStop, Stop, Crash, Finished,
         callerVars, history
    <3>2. QED
      BY <3>1 DEF Promise!vars
  <2>5. QED
    BY <2>1, <2>2, <2>3, <2>4
<1>3. QED
  BY <1>1, <1>2, AlwaysCInv, PTL DEF Spec, ImplementsSequencerSpec, Promise!Spec

=============================================================================
