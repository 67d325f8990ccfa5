----------------------------- MODULE MCStateFile -----------------------------
(***************************************************************************)
(* Instances of StateFile for TLC.  Files are interchangeable; the run     *)
(* that checks a liveness property does not use the symmetry.              *)
(***************************************************************************)
EXTENDS StateFile, TLC

MCSymmetry == Permutations(Files)
==============================================================================
