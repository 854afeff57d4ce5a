------------------------------ MODULE MCVenue -------------------------------
(* Small instances of the venue for TLC. *)
EXTENDS Venue

MCPrices == 1 .. 2
OneShare == {1}
UpToTwoShares == 1 .. 2

(* Accounts and symbols only differ in name. *)
Symmetry == Permutations(Accounts) \cup Permutations(Symbols)

=============================================================================
