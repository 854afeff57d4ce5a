--------------------------- MODULE MCReplication ----------------------------
(* Small instances of replication for TLC. *)
EXTENDS Replication

=============================================================================
