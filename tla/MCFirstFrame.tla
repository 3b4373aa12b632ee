------------------------------ MODULE MCFirstFrame ------------------------------
(* Instances of FirstFrame for TLC.                                          *)
EXTENDS FirstFrame, TLC

\* Requests for posters differ in nothing.
RequestSymmetry == Permutations(Requests)

================================================================================
