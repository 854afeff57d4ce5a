------------------------------- MODULE MCBook -------------------------------
(* Small instances of the order book for TLC. *)
EXTENDS Book

MCPrices == 1 .. 2
MCQuantities == 1 .. 2

=============================================================================
