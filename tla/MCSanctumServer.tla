-------------------------- MODULE MCSanctumServer --------------------------
(***************************************************************************)
(* Instances of SanctumServer and SanctumTrail for TLC.                    *)
(***************************************************************************)
EXTENDS SanctumInvariant, TLC

(* The get_* calls are interchangeable, and so are the claims.             *)
Symmetry == Permutations(Calls \ ClaimCalls) \cup Permutations(ClaimCalls)

=============================================================================
