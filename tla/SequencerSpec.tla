--------------------------- MODULE SequencerSpec ----------------------------
(***************************************************************************)
(* What the sequencer promises its callers about mutations: a history that *)
(* is only ever extended, in which a call takes effect at most once and    *)
(* never before it is made, and a success that is only reported for a call *)
(* that is in the history, crash or no crash.  A call that was not answered *)
(* with success may still have taken effect, at the latest when the log    *)
(* is recovered.                                                           *)
(***************************************************************************)
EXTENDS Integers, Sequences

VARIABLES
    invoked,      \* calls made so far: 1 .. invoked
    hist,         \* calls that took effect, oldest first
    succeeded     \* calls that were answered with success

vars == <<invoked, hist, succeeded>>

TookEffect(call) == \E k \in DOMAIN hist : hist[k] = call

Init == invoked = 0 /\ hist = <<>> /\ succeeded = {}

Invoke ==
    /\ invoked' = invoked + 1
    /\ UNCHANGED <<hist, succeeded>>

(* A call takes effect and is answered. *)
Commit(call) ==
    /\ call \in 1 .. invoked /\ ~TookEffect(call)
    /\ hist' = Append(hist, call)
    /\ succeeded' = succeeded \cup {call}
    /\ UNCHANGED invoked

(* Recovery finds calls that were logged and not answered with success. *)
Recover ==
    /\ \E n \in 1 .. invoked : hist' \in [1 .. Len(hist) + n -> 1 .. invoked]
    /\ \A k \in DOMAIN hist : hist'[k] = hist[k]
    /\ \A j, k \in DOMAIN hist' : hist'[j] = hist'[k] => j = k
    /\ UNCHANGED <<invoked, succeeded>>

Next == Invoke \/ (\E call \in 1 .. invoked : Commit(call)) \/ Recover

Spec == Init /\ [][Next]_vars

=============================================================================
