---------------------------- MODULE MCServiceItem ----------------------------
(***************************************************************************)
(* Instances of ServiceItem for TLC.  Accounts and report files are only   *)
(* compared for equality, so they are symmetric.                           *)
(***************************************************************************)
EXTENDS ServiceItemClaims, TLC

Symmetry == Permutations(Users) \cup Permutations(Files) \cup Permutations(Equipment)
            \cup Permutations(EvidenceKinds)

=============================================================================
