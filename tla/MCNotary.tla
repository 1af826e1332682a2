------------------------------ MODULE MCNotary ------------------------------
(* A small instance of Notary: one call through the wrapper and one of     *)
(* stamp_head, on a ledger of at most two entries, within two seconds.     *)
EXTENDS Notary, TLC

Symmetry == Permutations(Calls)

=============================================================================
