------------------------------ MODULE LogSpec -------------------------------
(***************************************************************************)
(* What a write-ahead log promises its owner (internal/oms/wal.go: Writer),*)
(* whatever files it is kept in: a sequence of records that grows at its   *)
(* end, of which the first `flushed' are in the files and the first        *)
(* `synced' survive anything.                                              *)
(***************************************************************************)
EXTENDS Integers, Sequences, SequencesExt

VARIABLES log, flushed, synced, writer

logVars == <<log, flushed, synced, writer>>

Init == log = <<>> /\ flushed = 0 /\ synced = 0 /\ writer \in {"open", "closed"}

(* A record is added; some of what was buffered may reach the file, and a
   rotation syncs what came before. *)
Append1 ==
    /\ writer = "open" /\ writer' = "open"
    /\ Len(log') = Len(log) + 1 /\ IsPrefix(log, log')
    /\ \/ flushed' \in flushed .. Len(log') /\ synced' = synced
       \/ flushed' = Len(log) /\ synced' = Len(log)

(* Everything added is durable. *)
Sync ==
    /\ writer = "open" /\ writer' \in {"open", "closed"}
    /\ log' = log /\ flushed' = Len(log) /\ synced' = Len(log)

(* An append, a sync or a close fails: what was buffered may be lost from some
   point on, nothing before it, and nothing is added until the log is opened
   again. *)
Fail ==
    /\ writer \in {"open", "failed"} /\ writer' \in {"failed", "closed"}
    /\ IsPrefix(log', log)
    /\ flushed' \in flushed .. Len(log') /\ synced' \in {synced, flushed'}

(* The process or the machine stops. *)
Crash ==
    /\ writer' = "closed"
    /\ \E n \in synced .. flushed : log' = SubSeq(log, 1, n) /\ flushed' = n
    /\ synced' = synced

(* What is left is taken up again, all of it. *)
Open ==
    /\ writer = "closed" /\ writer' = "open"
    /\ log' = log /\ flushed' = Len(log) /\ synced' = Len(log)

Next == Append1 \/ Sync \/ Fail \/ Crash \/ Open

Spec == Init /\ [][Next]_logVars

=============================================================================
