------------------------------ MODULE MCServer ------------------------------
(* Small instances of the server process for TLC. *)
EXTENDS Server

=============================================================================
