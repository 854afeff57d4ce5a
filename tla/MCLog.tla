------------------------------- MODULE MCLog --------------------------------
(* Small instances of a symbol's log for TLC. *)
EXTENDS Log

=============================================================================
