----------------------------- MODULE MCDetection -----------------------------
(***************************************************************************)
(* Small instances of Detection.                                           *)
(***************************************************************************)
EXTENDS Detection, TLC

\* Safety only: detectors are alike.
Symmetry == Permutations(Detector)
=============================================================================
