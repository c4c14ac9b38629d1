---------------------------- MODULE MCTirPackage ----------------------------
(* A small instance of the package file; readers are interchangeable.      *)
EXTENDS TirPackage, TLC

ReaderSymmetry == Permutations(Readers)
=============================================================================
