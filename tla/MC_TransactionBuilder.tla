------------------------ MODULE MC_TransactionBuilder ------------------------
(* Model-checking instance of TransactionBuilder: the constants come from   *)
(* the .cfg files as model values; coins are interchangeable, so safety     *)
(* runs may use the symmetry set below.                                     *)
EXTENDS TransactionBuilder, TLC

CoinSymmetry == Permutations(Funding)

=============================================================================
